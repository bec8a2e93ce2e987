SPECIFICATION LobbySpec
CONSTANTS
    Fd = {f1, f2}
    Uid = {u1, u2}
    Agent = {a1, a2}
    Nil = Nil
INVARIANT SectionLeft
SYMMETRY MCSymmetry
CHECK_DEADLOCK FALSE
