SPECIFICATION Spec
CONSTANTS
    Countries = {"", "US"}
    LossPenaltyMs = 1000
    LossScale = 10
    DefaultRTTms = 200
    StaleAfter = 1
    MaxBeats = 1
    MaxSessions = 1
    MaxReloads = 1
    MaxAttempts = 1
CHECK_DEADLOCK FALSE
INVARIANT
    InFlightCallersStayValid
