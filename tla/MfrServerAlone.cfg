SPECIFICATION Spec
CONSTANTS
    Clients = {p1, p2, p3}
    Ops = {"DeletePDRI"}
    Arguments = {"good"}
    Undefined = {}
    Detailed = FALSE
    StartMayFail = FALSE
    MaxCalls = 4
INVARIANT AlwaysAlone
CHECK_DEADLOCK FALSE
