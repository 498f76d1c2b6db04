SPECIFICATION FairSpec
CONSTANTS
    Slots = {1, 2}
    NoSlot = 0
    CfgInitial = 2
    CfgMax = 4
    Second = 1
    Minute = 6
    MaxFailures = 1
    Window = 2
CHECK_DEADLOCK FALSE
INVARIANTS
    TypeOK
    NoSessionLeak
    CountsCoverHeartbeats
PROPERTIES
    RegistrationResetsBackoff
    StopEndsRun
    OldHeartbeatsEnd
    HeartbeatLossEndsSession
