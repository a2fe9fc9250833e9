SPECIFICATION Spec
CONSTANTS
    Clients = {p1}
    Ops = {"Shutdown"}
    Arguments = {"good"}
    Undefined = {}
    Detailed = FALSE
    StartMayFail = FALSE
    MaxCalls = 2
PROPERTY ShutdownEnds
CHECK_DEADLOCK FALSE
