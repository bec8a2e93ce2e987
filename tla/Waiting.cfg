SPECIFICATION WaitingSpec
CONSTANTS
    Thread = {t1, t2, t3, t4}
    None = None
    MaxDepth = 2
    Locker = {l1, l2, l3}
    Statement = {s1, s2}
    maxconn = 2
    MaxOutages = 1
    Stream <- MCStream
    Sep <- MCSep
    Sizes = {1, 3}
    MaxReads = 3
INVARIANTS
    WaitingTypeOK SectionSafe LockExclusion ReadsSound
PROPERTIES
    ImplementsFifoLock WaitingEnds SocketReleased
CHECK_DEADLOCK FALSE
