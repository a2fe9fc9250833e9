SPECIFICATION Spec
CONSTANTS
    Callers = {c1}
    Handlers = {"writeImage", "mirrorImage"}
    Undefined = {}
    Detailed = TRUE
    OpenMayFail = FALSE
    StartMayFail = FALSE
    MaxCalls = 2
INVARIANT OneJobAtATime
CHECK_DEADLOCK FALSE
