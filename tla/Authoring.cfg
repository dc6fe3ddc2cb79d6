\* Authoring: two sources, two ids, a budget of one, two commands, one kill.
CONSTANTS
    a = a
    b = b
    x = x
    y = y
    None = None
    Torn = Torn
    Bundled = Bundled
    Source = {a, b}
    Id = {x, y}
    Shipped = {{}}
    Named <- Names
    Rank <- Ranks
    Budget = 1
    MaxRounds = 2
    MaxFaults = 1
    MaxCommands = 2
SPECIFICATION FairSpec
INVARIANTS AuthoringSound
PROPERTIES DraftKept RunClears OwnFeedback Ends
CHECK_DEADLOCK FALSE
