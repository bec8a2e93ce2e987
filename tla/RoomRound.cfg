SPECIFICATION FairSpec
CONSTANTS
    None = None
    User = {a, b, c}
    Coroutine = {k1, k2}
    Coins = {1, 2}
    BetMenu <- MCUnknown
    BankerTypes = {1, 2}
    LimitAmt = 1
    MinBet = 2
    Duration <- MCFast
    TimeCap = 1
    RobPump = 1
    PumpUnit = 2
    InitBal = 2
    InitGold = 1
    TenFrom = 3
    Faults = {}
    Overlap <- MCBetOverlap
    Through = {"send", "flow", "wait_result"}
INVARIANT NothingStranded
PROPERTY StakesReleased
