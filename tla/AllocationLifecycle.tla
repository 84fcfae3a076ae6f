------------------------- MODULE AllocationLifecycle -------------------------
(***************************************************************************)
(* What the distributors, the schedulers and the dispatchers promise       *)
(* together about the phase of an Allocation object                        *)
(* (apis/allocation/v1/types.go): each hands it on once.  An allocation    *)
(* never goes back to an earlier stage, a decision is never overwritten,   *)
(* and only the user removes it.  The empty phase of a new object is       *)
(* written "New".                                                          *)
(***************************************************************************)
CONSTANT Allocs
VARIABLE phase

Phases == {"Absent", "New", "Assigned", "Bound", "NotScheduled",
           "Scheduled", "Failed", "Deleted"}

\* The stages a controller may hand an allocation on to.
HandsOn == {<<"New", "Assigned">>, <<"New", "Failed">>,
            <<"Assigned", "Bound">>, <<"Assigned", "NotScheduled">>,
            <<"Bound", "Scheduled">>, <<"Bound", "Failed">>}

\* The stages that may follow a stage: the user creates and deletes.
Follows(p) == {q \in Phases :
    \/ <<p, q>> \in HandsOn
    \/ p = "Absent" /\ q = "New"
    \/ p \notin {"Absent", "Deleted"} /\ q = "Deleted"}

Init == phase = [a \in Allocs |-> "Absent"]

Advance(a) == \E p \in Follows(phase[a]) : phase' = [phase EXCEPT ![a] = p]

Next == \E a \in Allocs : Advance(a)

Spec == Init /\ [][Next]_phase
=============================================================================
