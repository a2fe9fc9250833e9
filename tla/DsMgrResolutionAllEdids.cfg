SPECIFICATION Spec
CONSTANTS
    PlatformResolutions <- Platform
    DefaultResolution <- Default720p
    TVs <- AllDisplays
    NoTV = NoTV
    AnalogPorts = {}
    EUPlatforms = {TRUE, FALSE}
    ForceDisable4K = {TRUE, FALSE}
    IgnoreEDIDStatus = {FALSE}
    PointerSize = 8
    MaxPlugs = 0
    MaxUserSets = 0
    MaxTimers = 1
INVARIANTS
    ShownByTv
    FallbackIsBest
    No4KWhenDisabled
