SPECIFICATION Spec
CONSTANTS
  Stacks = {s1, s2}
  Workers = {w1}
  Sites = {n1}
  NoSite = NoSite
  MaxVersion = 2
  MaxCycle = 5
SYMMETRY Symmetry
INVARIANT QueueInv
INVARIANT QueuesAreCurrent
INVARIANT NoLostWakeup
PROPERTY NoMissedMove
PROPERTY NoStackLost
PROPERTY OvertakenOnce
CHECK_DEADLOCK FALSE
