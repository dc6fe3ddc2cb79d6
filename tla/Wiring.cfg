SPECIFICATION Spec
CONSTANTS
    r1 = r1
    home = home
    none = none
    u0 = u0
    u1 = u1
    UserLine <- MCUserLine
    Repo <- MCRepo
    Home = home
    None = none
    Harness <- MCHarness
    FirstLine = u0
    MaxCommands = 3
    MaxEdits = 2
    MaxTurns = 4
CHECK_DEADLOCK FALSE
INVARIANTS
    WiringSound
    OneBlock
PROPERTIES
    SurroundingsKept
    LegacyKeepsEdits
    UnwireStaysInRepo
