--------------------------- MODULE CapacityLedger ---------------------------
(***************************************************************************)
(* What the scheduler promises about the capacity of its sites, whatever   *)
(* its threads, plugins and caches do: a stack is placed only on a site    *)
(* that still has room, one unit at a time, the room is what the site was  *)
(* ever said to have, and a request is decided once.                       *)
(* The abstract specification that SiteResources implements when one       *)
(* thread schedules.                                                       *)
(***************************************************************************)
EXTENDS Integers

CONSTANTS
    Sites,      \* the sites of the clusters this scheduler manages
    Capacity,   \* Capacity[s]: what the cluster of site s declares it has
    Requests    \* pods and allocations to schedule

VARIABLES
    room,       \* room[s]: the most site s was said to have
    free,       \* free[s]: what site s has left of it
    phase       \* phase[r]: "Assigned", then "Bound" or "NotScheduled"

Init == /\ room = Capacity /\ free = Capacity
        /\ phase = [r \in Requests |-> "Assigned"]

\* A stack is placed on a site that has room for it.
Take(s) == /\ free[s] > 0
           /\ free' = [free EXCEPT ![s] = @ - 1]
           /\ UNCHANGED <<room, phase>>

\* A site is said to have more than was known.
Grow(s) == /\ room'[s] > room[s]
           /\ room' = [room EXCEPT ![s] = room'[s]]
           /\ free' = [free EXCEPT ![s] = @ + (room'[s] - room[s])]
           /\ UNCHANGED phase

\* A request is decided, and never again.
Decide(r) == /\ phase[r] = "Assigned"
             /\ \E p \in {"Bound", "NotScheduled"} : phase' = [phase EXCEPT ![r] = p]
             /\ UNCHANGED <<room, free>>

Next == \/ \E s \in Sites : Take(s) \/ Grow(s)
        \/ \E r \in Requests : Decide(r)

Spec == Init /\ [][Next]_<<room, free, phase>>
=============================================================================
