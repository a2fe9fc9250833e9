SPECIFICATION Spec
CONSTANTS
    Clients = {p1}
    Ops = {"WriteImage"}
    Arguments = {"good"}
    Undefined = {}
    Detailed = TRUE
    StartMayFail = FALSE
    MaxCalls = 2
INVARIANT WriteAnswerIsItsEnd
CHECK_DEADLOCK FALSE
