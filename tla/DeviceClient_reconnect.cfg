SPECIFICATION Spec
CONSTANTS
    Slots = {1, 2}
    NoSlot = 0
    CfgInitial = 2
    CfgMax = 5
    Second = 1
    Minute = 6
    MaxFailures = 2
    Window = 2
CHECK_DEADLOCK FALSE
INVARIANT
    StopsOnlyWhenTold
