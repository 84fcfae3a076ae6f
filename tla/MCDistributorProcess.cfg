SPECIFICATION Spec
CONSTANTS
    Schedulers = {s1, s2}
    None = None
    MaxChange = 3
    MaxDelete = 1
    MaxExec = 1
    Fields <- MCFields
    Places <- MCPlaces
    Requests <- MCRequests
    Selector <- MCSelector
INVARIANT ListInv
PROPERTY RightChoice
CHECK_DEADLOCK FALSE
