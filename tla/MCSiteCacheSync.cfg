SPECIFICATION SitesLiveSpec
CONSTANTS
    c1 = c1
    c2 = c2
    Clusters = {c1, c2}
    Invalid = {c2}
    Workers = {"w"}
    Sites = {0, 1}
    SiteOf <- MCSiteOf
    MaxCreate = 2
    MaxUpdate = 1
    MaxDelete = 1
CHECK_DEADLOCK FALSE
INVARIANT SyncInv
PROPERTY EveryClusterGetsASite
