SPECIFICATION Spec
CONSTANTS
    Callers = {"c1"}
    Ops = {"SetHDCPProfile"}
    Ids = {}
    UseMfrForSerial = FALSE
    MediaClient = FALSE
    CallsDuringStart = TRUE
    StartMayFail = FALSE
    SetMayFail = TRUE
    MaxEvents = 0
    MaxCalls = 2
CHECK_DEADLOCK FALSE
INVARIANT
    ProfileToldIsTheFile
