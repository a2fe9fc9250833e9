SPECIFICATION FairSpec
CONSTANTS
    MaxEvents = 2
    MaxSpurious = 0
    ComponentPort = TRUE
    IsIgnoreEdid_gs = FALSE
CHECK_DEADLOCK FALSE
PROPERTY
    AudioOnHotplug
