SPECIFICATION Spec
CONSTANTS
    None = None
    User = {a, b}
    Coroutine = {k1, k2}
    Coins = {3}
    BetMenu <- MCPoints
    BankerTypes = {1, 2}
    LimitAmt = 0
    MinBet = 1
    Duration <- MCFast
    TimeCap = 1
    RobPump = 2
    PumpUnit = 2
    InitBal = 3
    InitGold = 2
    TenFrom = 4
    Faults = {"fail", "lost"}
    Overlap <- MCBetOverlap
    Through = {"wait_result"}
SYMMETRY Symmetry
INVARIANTS TypeOK BankerIsPlayer OneBetPerUser BetsCovered CoinsConserved
