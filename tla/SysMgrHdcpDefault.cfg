SPECIFICATION Spec
CONSTANTS
    Callers = {"c1"}
    Ops = {"GetSystemStates"}
    Ids = {"HDCP_ENABLED"}
    UseMfrForSerial = FALSE
    MediaClient = FALSE
    CallsDuringStart = TRUE
    StartMayFail = TRUE
    SetMayFail = FALSE
    MaxEvents = 1
    MaxCalls = 1
CHECK_DEADLOCK FALSE
INVARIANT
    HdcpIsEnabledByDefault
