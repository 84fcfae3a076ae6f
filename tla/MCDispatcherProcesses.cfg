SPECIFICATION ProcessesSpec
CONSTANTS
  Dispatchers = {d1, d2}
  Clusters = {1, 2}
  MaxUid = 2
  MaxClusterChange = 2
  MaxRestart = 1
SYMMETRY Symmetry
VIEW Unordered
INVARIANT ClustersPartitioned
INVARIANT ProcessesInv
CHECK_DEADLOCK FALSE
