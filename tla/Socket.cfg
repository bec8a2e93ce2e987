CONSTANTS
    Service = {a, b}
    Packet = {1, 2, 3}
    Size = 2
    MaxSocket = 2
    MaxId = 3
    MaxWork = 4
    None = None
SPECIFICATION SockFairSpec
INVARIANTS SockTypeOK WireIntact SendsKnown
CHECK_DEADLOCK FALSE
PROPERTY HalfClosedDrains
