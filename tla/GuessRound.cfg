SPECIFICATION FairSpec
CONSTANTS
    None = None
    User = {u1, u2}
    Coroutine = {k1}
    Values = {1, 2}
    Shown = {1, 2, 3, 4}
    Duration <- MCDuration
    TimeCap = 2
    InitBal = 3
    EarlyPunch = FALSE
    Faults = {}
    Leavers = {}
    Overlap = {}
PROPERTY GameEnds
CHECK_DEADLOCK FALSE
