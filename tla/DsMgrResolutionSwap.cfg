SPECIFICATION Spec
CONSTANTS
    PlatformResolutions <- Platform
    DefaultResolution <- Default720p
    TVs <- FewDisplays
    NoTV = NoTV
    AnalogPorts = {"COMPONENT", "BB"}
    EUPlatforms = {TRUE, FALSE}
    ForceDisable4K = {TRUE, FALSE}
    IgnoreEDIDStatus = {TRUE, FALSE}
    PointerSize = 8
    MaxPlugs = 2
    MaxUserSets = 1
    MaxTimers = 1
INVARIANTS
    BootRestoresPersisted
PROPERTY
    RepeatKeepsResolution
