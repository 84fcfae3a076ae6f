SPECIFICATION ControllerSpec
CONSTANTS
  Distributors = {d1, d2}
  MaxKey = 4
  MaxCreate = 3
  MaxDeletions = 2
  MaxRestart = 1
SYMMETRY Symmetry
INVARIANT HashKeysPartitioned
INVARIANT ControllerInv
CHECK_DEADLOCK FALSE
