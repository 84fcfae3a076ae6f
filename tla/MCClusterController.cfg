SPECIFICATION LiveSpec
CONSTANTS
    c1 = c1
    Clusters = {c1}
    Invalid = {}
    Workers = {"w1", "w2"}
    MaxCreate = 3
    MaxUpdate = 1
    MaxDelete = 3
    MaxLost = 1
INVARIANT CollectorInv
PROPERTY EveryClusterRegistered
CHECK_DEADLOCK FALSE
