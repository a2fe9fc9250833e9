SPECIFICATION Spec
CONSTANTS
    Callers = {"c1"}
    Ops = {"GetSystemStates"}
    Ids = {"STB_SERIAL_NO"}
    UseMfrForSerial = TRUE
    MediaClient = FALSE
    CallsDuringStart = TRUE
    StartMayFail = FALSE
    SetMayFail = FALSE
    MaxEvents = 2
    MaxCalls = 2
CHECK_DEADLOCK FALSE
INVARIANT
    SerialEventSticks
