SPECIFICATION Spec
CONSTANTS
    VideoPorts <- OneVideo
    AudioPorts <- OneAudio
    BadPorts = {"VGA0"}
    AudioPersist = {"SPDIF0"}
    Profile = "STB_EU"
    States = {"ON", "OFF", "STANDBY"}
    StatesBeforeReboot = {"ON"}
    EnableValues = {0, 1}
    MaxNumVideoPorts = 1
    MaxChanges = 1
    MaxCalls = 2
    MaxFailures = 0
CHECK_DEADLOCK FALSE
INVARIANTS
    TypeOK
    SettingIsKept
    PortsFollowPower
