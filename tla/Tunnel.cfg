SPECIFICATION FairSpec
CONSTANTS
    DeviceWait = TRUE
    MaxBytes = 2
CHECK_DEADLOCK FALSE
INVARIANTS
    TypeOK
    UserBytesArriveInOrder
PROPERTIES
    DialSettles
    DeviceCleansUp
    SessionLossEndsRelay
