SPECIFICATION DbSpec
CONSTANTS
    Statement = {s1, s2}
    maxconn = 2
    MaxOutages = 1
PROPERTY PoolRecovers
CHECK_DEADLOCK FALSE
