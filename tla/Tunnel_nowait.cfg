SPECIFICATION FairSpec
CONSTANTS
    DeviceWait = FALSE
    MaxBytes = 1
CHECK_DEADLOCK FALSE
PROPERTY
    ZeroMeansNoWait
