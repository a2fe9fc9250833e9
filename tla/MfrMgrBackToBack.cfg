SPECIFICATION Spec
CONSTANTS
    Callers = {c1}
    Handlers = {"writeImage"}
    Undefined = {}
    Detailed = FALSE
    OpenMayFail = FALSE
    StartMayFail = FALSE
    MaxCalls = 2
INVARIANT OneJobAtATime
CHECK_DEADLOCK FALSE
