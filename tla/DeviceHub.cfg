SPECIFICATION FairSpec
CONSTANTS
    Conns = {c1, c2}
    Devices = {d1, d2}
    Users = {u1}
    HeartbeatTimeout = 1
    MaxTime = 2
    NoSession = NoSession
    NoDevice = NoDevice
CHECK_DEADLOCK FALSE
INVARIANTS
    TypeOK
    EntriesHaveAnOwner
    OpenSessionIsReachable
    CleanShutdownLeavesNoSession
PROPERTIES
    DeadSessionsLeave
    SilentDeviceIsDropped
