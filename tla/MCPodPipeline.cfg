SPECIFICATION FairSpec
CONSTANTS
    Pods = {p1}
    Distributors = {d1}
    Schedulers = {s1, s2}
    None = None
    Deletable = {p1}
    MaxTouch = 1
    MaxExec = 2
    MaxError = 1
INVARIANT RecordedExists
INVARIANT PodIsBacked
 
INVARIANT NoLeak
 
PROPERTY AssignedIsDecided
 
CHECK_DEADLOCK FALSE
