SPECIFICATION Spec
CONSTANT MaxInt = 15
INVARIANT Partition
INVARIANT ReturnsClosedForm
PROPERTY Terminates
CHECK_DEADLOCK FALSE
