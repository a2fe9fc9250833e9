SPECIFICATION Spec
CONSTANTS
    Callers = {c1}
    Handlers = {"writeImage"}
    Undefined = {}
    Detailed = TRUE
    OpenMayFail = FALSE
    StartMayFail = FALSE
    MaxCalls = 2
INVARIANT StatusCarriesItsData
CHECK_DEADLOCK FALSE
