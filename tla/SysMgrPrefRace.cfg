SPECIFICATION Spec
CONSTANTS
    Callers = {"c1", "c2"}
    Ops = {"SetKeyCodeLoggingPref"}
    Ids = {}
    UseMfrForSerial = FALSE
    MediaClient = FALSE
    CallsDuringStart = FALSE
    StartMayFail = FALSE
    SetMayFail = FALSE
    MaxEvents = 0
    MaxCalls = 3
CHECK_DEADLOCK FALSE
INVARIANT
    PrefToldIsInForce
