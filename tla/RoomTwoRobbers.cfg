SPECIFICATION Spec
CONSTANTS
    None = None
    User = {a, b}
    Coroutine = {k1, k2}
    Coins = {1, 2}
    BetMenu <- MCOneBet
    BankerTypes = {1}
    LimitAmt = 1
    MinBet = 1
    Duration <- MCFast
    TimeCap = 1
    RobPump = 1
    PumpUnit = 2
    InitBal = 3
    InitGold = 2
    TenFrom = 4
    Faults = {}
    Overlap <- MCRobOverlap
    Through = {}
SYMMETRY Symmetry
INVARIANTS NothingStranded
