SPECIFICATION Spec
CONSTANTS
    None = None
    User = {u1, u2}
    Coroutine = {k1, k2}
    Values = {1}
    Shown = {1}
    Duration <- MCBrief
    TimeCap = 1
    InitBal = 2
    EarlyPunch = TRUE
    Faults = {"fail", "lost"}
    Leavers = {u1, u2}
    Overlap <- MCCoinMoves
INVARIANTS
    TypeOK
    CoinsAccounted
SYMMETRY MCSymmetry
CHECK_DEADLOCK FALSE
