SPECIFICATION FairSpec
CONSTANTS
    Second = 10
    Calls = {1, 2}
    Phones = {"phone", "tablet"}
    Reports <- SomeReports
    AppKeys = {"key"}
    Deltas <- SomeDeltas
    IDs = {"dev-a", "dev-b"}
    AdminFiles <- SomeAdminFiles
    MaxStarts = 2
    NoFp = NoFp
    NoID = NoID
    Callers = {"s"}
    ClientFiles <- SomeClientFiles
    NoRun = NoRun
CHECK_DEADLOCK FALSE
INVARIANTS
    TypeOK
    OneIDPerFingerprint
    CountsRegistrations
    RunsAsRegistered
    DeviceFollowsAdmin
    RunStateFollowsRun
PROPERTIES
    StopEndsTheRun
