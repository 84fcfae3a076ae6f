----------------------- MODULE MCDistributorController -----------------------
(* DistributorController for TLC: the names of distributors are            *)
(* interchangeable.                                                        *)
EXTENDS DistributorController

Symmetry == Permutations(Distributors)
=============================================================================
