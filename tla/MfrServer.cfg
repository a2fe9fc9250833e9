SPECIFICATION Spec
CONSTANTS
    Clients = {p1, p2, p3}
    Ops = {"WriteImage", "DeletePDRI", "Shutdown"}
    Arguments = {"good", "null"}
    Undefined = {}
    Detailed = FALSE
    StartMayFail = TRUE
    MaxCalls = 4
INVARIANTS AloneInLibrary WriteAnswerIsItsEnd
PROPERTY CallsEnd
CHECK_DEADLOCK FALSE
