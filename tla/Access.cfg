SPECIFICATION FairSpec
CONSTANTS
    Second = 10
    Conns = {1}
    Names = {"steady", "moving", "away"}
    Steady = {"steady"}
    NoNet = {"away"}
    NoCred = {"moving"}
    NoName = "none"
    ServerFiles <- SomeServerFiles
CHECK_DEADLOCK FALSE
INVARIANTS
    TypeOK
    StrangersStayOut
PROPERTIES
    SteadyClientsGetIn
    CacheFollowsSource
