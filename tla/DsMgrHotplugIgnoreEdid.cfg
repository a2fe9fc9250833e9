SPECIFICATION Spec
CONSTANTS
    MaxEvents = 3
    MaxSpurious = 0
    ComponentPort = TRUE
    IsIgnoreEdid_gs = TRUE
CHECK_DEADLOCK FALSE
PROPERTY
    IgnoreEdidOnlyDuringBoot
