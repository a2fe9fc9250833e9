SPECIFICATION FairSpec
CONSTANTS
    Profile = "TV"
    States = {"ON", "OFF", "STANDBY"}
    MaxRetries = 3
    MaxChanges = 3
    MaxReboots = 1
CHECK_DEADLOCK FALSE
INVARIANTS
    TypeOK
    RetryIsCancelled
    LatestRequestStands
    BootPatternStands
PROPERTY
    RequestsEnd
