SPECIFICATION FairSpec
CONSTANTS
  Allocs = {a1}
  Distributors = {p1, p2}
  Dispatchers = {d1, d2}
  VMs = 2
  Deletable = {a1}
  MaxExec = 1
  MaxError = 1
INVARIANT ScheduledIsBacked
INVARIANT NoLeak
PROPERTY LifecycleSpec
PROPERTY AssignedIsScheduled
PROPERTY BoundIsDispatched
CHECK_DEADLOCK FALSE
