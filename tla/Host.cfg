\* Host: three commands, one fault.
CONSTANTS
    p1 = p1
    p2 = p2
    None = None
    Port = {p1, p2}
    Installed = {"ollama", "llama-server"}
    Request <- MCRequest
    MaxCommands = 3
    Choice <- MCChoice
    ModelsBefore <- MCModels
    MaxFaults = 1
SPECIFICATION Spec
INVARIANTS MachineSound
PROPERTIES UserEnvLost StuckUntilRepaired DaemonForgotten UnitForgotten
CHECK_DEADLOCK FALSE
