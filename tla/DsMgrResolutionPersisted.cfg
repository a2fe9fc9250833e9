SPECIFICATION Spec
CONSTANTS
    PlatformResolutions <- Platform
    DefaultResolution <- Default720p
    TVs <- FewDisplays
    NoTV = NoTV
    AnalogPorts = {}
    EUPlatforms = {TRUE, FALSE}
    ForceDisable4K = {TRUE, FALSE}
    IgnoreEDIDStatus = {FALSE}
    PointerSize = 8
    MaxPlugs = 2
    MaxUserSets = 0
    MaxTimers = 1
INVARIANT
    PersistedIsRead
