SPECIFICATION SchedulersSpec
CONSTANTS
    s1 = s1
    s2 = s2
    Schedulers = {s1, s2}
    Clusters = {"c1", "c2"}
    Geo <- MCGeo
    small = small
    large = large
    Attributes = {small, large}
    MaxUid = 2
    MaxClusterChange = 3
    MaxClusterUpdate = 1
    MaxTrouble = 1
SYMMETRY Alike
CHECK_DEADLOCK FALSE
INVARIANT ClustersDivided
INVARIANT TreeInv
INVARIANT QueuedSchedulersStarted
