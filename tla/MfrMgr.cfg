SPECIFICATION Spec
CONSTANTS
    Callers = {c1, c2}
    Handlers = {"getSerializedData", "writeImage", "mirrorImage", "setBootloaderPattern"}
    Undefined = {"setBootloaderPattern"}
    Detailed = TRUE
    OpenMayFail = TRUE
    StartMayFail = TRUE
    MaxCalls = 2
INVARIANT RefusedOnlyWhileActive
PROPERTY BusyIsNotForever
CHECK_DEADLOCK FALSE
