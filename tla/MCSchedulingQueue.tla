-------------------------- MODULE MCSchedulingQueue --------------------------
(* Stacks and workers are interchangeable.                                 *)
EXTENDS SchedulingQueue, TLC

Symmetry == Permutations(Stacks) \cup Permutations(Workers)
=============================================================================
