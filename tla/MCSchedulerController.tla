------------------------ MODULE MCSchedulerController ------------------------
(* Two clusters in one country.                                            *)
EXTENDS SchedulerController, TLC

MCGeo(c) == CASE c = "c1" -> <<"X", "a", "p", "q", "c1">>
              [] c = "c2" -> <<"X", "b", "p", "q", "c2">>

\* Nothing but its name tells a scheduler or an attribute from another.
Alike == Permutations(Schedulers) \cup Permutations(Attributes)
=============================================================================
