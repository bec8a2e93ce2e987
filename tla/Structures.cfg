SPECIFICATION StructSpec
CONSTANTS
    Node = {n1, n2}
    TIME_NEAR = 2
    TIME_LEVEL = 2
    MaxDelay = 15
    MaxDiff = 1
    Item = {1, 2}
    QueueSize = 2
    Overload = 1
    MaxLength = 5
    NoItem = NoItem
    Context = {c1, c2, c3}
    SlotSize = 1
    HandleBits = 2
    Harbor = 0
    Names = {1, 2, 3}
    Launchers = 1
    Null = Null
    Fd = {1, 2, 3}
    Packet <- MCClientPackets
    Base = 2
    QUEUESIZE = 2
    HASHSIZE = 1
    maxclient = 2
    MaxSend = 2
    u1 = u1
    u2 = u2
    Bettor = {u1, u2}
    BetMenu <- MCBets
    MaxBets = 2
    Stake = 64
    BankerPackets <- MCBankerPackets
    UserPackets <- MCPackets
    Sizes = {5, 11, 12}
    Draw1 <- MCDraw1
    Draw2 <- MCDraw2
    PutAmounts <- MCPutAmounts
    Rounding = {0, 1}
    Gambler = {u1, u2}
    DoorCount = 3
    Amounts = {1, 2}
    MaxDoorBets = 4
    BankerCoins = 5
    Radix = 2
    BLOCK_SIZE = 3
    MAX_COOKIE = 3
    MAX_DEPTH = 2
    SeriValue <- MCSeriValues
    MaxArgs = 2
INVARIANTS
    StructTypeOK FiresOnTime RegisteredFound GateExact SettlementFair PacketsDealt PayoutExact RoundTrip
PROPERTIES
    FiresInOrder ImplementsFifoQueue
CHECK_DEADLOCK FALSE
