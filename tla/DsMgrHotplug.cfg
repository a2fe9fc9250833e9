SPECIFICATION FairSpec
CONSTANTS
    MaxEvents = 3
    MaxSpurious = 1
    ComponentPort = TRUE
    IsIgnoreEdid_gs = FALSE
CHECK_DEADLOCK FALSE
PROPERTIES
    AuthenticatedIsSet
    DelayedHandlerEnds
