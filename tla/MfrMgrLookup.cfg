SPECIFICATION Spec
CONSTANTS
    Callers = {c1, c2}
    Handlers = {"setBootloaderPattern"}
    Undefined = {}
    Detailed = TRUE
    OpenMayFail = FALSE
    StartMayFail = FALSE
    MaxCalls = 2
INVARIANT UnresolvedOnly
CHECK_DEADLOCK FALSE
