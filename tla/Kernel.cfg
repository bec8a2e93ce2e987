CONSTANTS
    s1 = s1
    s2 = s2
    w1 = w1
    w2 = w2
    Service = {s1, s2}
    Booted = {s1}
    Worker = {w1, w2}
    Outside = {io}
    Weight <- MCWeight
    Monitor = s1
    Message = {m1}
    Kills = 2
    NULL = NULL
    Co = {k1, k2, k3}
    Nil = Nil
    MaxSession = 2
    MaxRequest = 1
    MaxWoken = 2
    MaxForks = 1
SPECIFICATION SkynetSpec
INVARIANTS SkynetTypeOK RefCount QueueSafe LuaSafe
PROPERTIES ServerLive LuaLive
