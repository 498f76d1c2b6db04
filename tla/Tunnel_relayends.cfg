SPECIFICATION FairSpec
CONSTANTS
    DeviceWait = TRUE
    MaxBytes = 1
CHECK_DEADLOCK FALSE
PROPERTY
    RelayEnds
