SPECIFICATION Spec
CONSTANTS
    VideoPorts <- OneVideo
    AudioPorts <- OneAudio
    BadPorts = {}
    AudioPersist = {"SPDIF0"}
    Profile = "TV"
    States = {"ON", "STANDBY"}
    StatesBeforeReboot = {"ON", "STANDBY"}
    EnableValues = {0, 1}
    MaxNumVideoPorts = 1
    MaxChanges = 2
    MaxCalls = 1
    MaxFailures = 0
CHECK_DEADLOCK FALSE
INVARIANT
    AppliedRightAway
