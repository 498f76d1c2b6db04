SPECIFICATION FairSpec
CONSTANTS
    Picks = {p1, p2}
    Users = {u1, u2}
    Devices = {1, 2}
    Countries = {"", "US"}
    Wanted = {"US"}
    Minutes = {0, 9, 19}
    MinDuration = 1
    MaxDuration = 1
    Half = 8
    Heartbeats <- OneHeartbeat
    MaxTime = 1
    MaxFlaps = 1
    NoLease = NoLease
    Noop = Noop
    LossPenaltyMs = 1000
    LossScale = 10
    DefaultRTTms = 200
    StaleAfter = 1
CHECK_DEADLOCK FALSE
INVARIANTS
    TypeOK
    IndexesAgree
    RefcountMatchesHandles
    HandleFollowsRequest
    PickRespectsSnapshot
PROPERTIES
    KeepsDeviceLease
    PickSettles
    ExpiredLeasesLeave
