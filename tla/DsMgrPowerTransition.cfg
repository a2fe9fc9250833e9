SPECIFICATION Spec
CONSTANTS
    VideoPorts <- OneVideo
    AudioPorts <- OneAudio
    BadPorts = {}
    AudioPersist = {"SPDIF0"}
    Profile = "TV"
    States = {"ON", "STANDBY"}
    StatesBeforeReboot = {"STANDBY"}
    EnableValues = {0, 1}
    MaxNumVideoPorts = 1
    MaxChanges = 2
    MaxCalls = 0
    MaxFailures = 0
CHECK_DEADLOCK FALSE
INVARIANT
    TransitionIsApplied
