------------------------ MODULE MCDispatcherProcesses ------------------------
(* Nothing but its name tells a dispatcher from another, and the order of  *)
(* the processes of a dispatcher does not matter.                          *)
EXTENDS DispatcherProcesses, TLC

Symmetry == Permutations(Dispatchers)

Counted(ps) ==
    LET states == {ps[k] : k \in 1..Len(ps)}
    IN  [p \in states |-> Cardinality({k \in 1..Len(ps) : ps[k] = p})]

Unordered == <<vars, [d \in Dispatchers |-> Counted(procs[d])]>>
=============================================================================
