SPECIFICATION Spec
CONSTANTS
    Profile = "TV"
    States = {"ON", "OFF", "STANDBY"}
    MaxRetries = 3
    MaxChanges = 2
    MaxReboots = 1
CHECK_DEADLOCK FALSE
PROPERTY
    RetryIsFirst
