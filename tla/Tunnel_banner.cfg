SPECIFICATION Spec
CONSTANTS
    DeviceWait = TRUE
    MaxBytes = 2
CHECK_DEADLOCK FALSE
INVARIANT
    TargetBytesArriveInOrder
