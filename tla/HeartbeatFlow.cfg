SPECIFICATION FairSpec
CONSTANTS
    Countries = {"", "US"}
    LossPenaltyMs = 1000
    LossScale = 10
    DefaultRTTms = 200
    StaleAfter = 1
    MaxBeats = 2
    MaxSessions = 2
    MaxReloads = 1
    MaxAttempts = 2
CHECK_DEADLOCK FALSE
INVARIANTS
    TypeOK
PROPERTIES
    KnownValuesAreKept
    EventsAreSettled
