SPECIFICATION FairSpec
CONSTANTS
    Callers = {"c1", "c2"}
    Ops = {"GetSystemStates", "SetHDCPProfile", "SetKeyCodeLoggingPref"}
    Ids = {"TIME_SOURCE", "STB_SERIAL_NO"}
    UseMfrForSerial = TRUE
    MediaClient = TRUE
    CallsDuringStart = TRUE
    StartMayFail = TRUE
    SetMayFail = FALSE
    MaxEvents = 2
    MaxCalls = 2
CHECK_DEADLOCK FALSE
INVARIANTS
    UpdatesStick
    ProfileToldIsTheFile
PROPERTIES
    RepliesAreWhole
    SerialNumberIsKept
    EverybodyGetsThrough
