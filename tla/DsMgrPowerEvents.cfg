SPECIFICATION FairSpec
CONSTANTS
    VideoPorts <- OneVideo
    AudioPorts <- OneAudio
    BadPorts = {}
    AudioPersist = {"SPDIF0"}
    Profile = "TV"
    States = {"ON", "OFF", "STANDBY"}
    StatesBeforeReboot = {"STANDBY"}
    EnableValues = {0, 1}
    MaxNumVideoPorts = 1
    MaxChanges = 2
    MaxCalls = 0
    MaxFailures = 1
CHECK_DEADLOCK FALSE
INVARIANT
    PortsFollowPower
PROPERTIES
    ImplementsChannel
    PowerEventHandled
    StopCompletes
