SPECIFICATION Spec
CONSTANTS
    Clients = {p1}
    Ops = {"WriteImage"}
    Arguments = {"good"}
    Undefined = {}
    Detailed = FALSE
    StartMayFail = FALSE
    MaxCalls = 2
INVARIANT WriterHears
CHECK_DEADLOCK FALSE
