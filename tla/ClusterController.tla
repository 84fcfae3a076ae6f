-------------------------- MODULE ClusterController --------------------------
(***************************************************************************)
(* The cluster controller (controllers/cluster/cluster_controller.go): it  *)
(* tells the resource collector, with a gRPC call for each work item,      *)
(* which clusters exist.  The collector is external: it keeps what the     *)
(* last profile of a cluster said.  A call may be lost; the controller     *)
(* does not look at the response.                                          *)
(***************************************************************************)
EXTENDS ClusterEvents

CONSTANT MaxLost          \* bound: calls that are lost

ASSUME LostAssumption == MaxLost \in Nat

VARIABLES registered,     \* the version of each cluster the collector has, or 0
          unregistered,   \* history: the last version reported as deleted
          lost            \* calls lost so far

collector == <<registered, unregistered, lost>>
vars == <<eventVars, collector>>

TypeOK ==
    /\ EventsTypeOK
    /\ registered \in [Clusters -> Nat] /\ unregistered \in [Clusters -> Nat]
    /\ lost \in 0..MaxLost

Init ==
    /\ EventsInit
    /\ registered = store /\ unregistered = store
    /\ lost = 0
-----------------------------------------------------------------------------
\* gRPCRequest reports a failure: syncHandler puts the item back, and goes on
\* to look at the cluster unless it was a deletion.
Failed(w) ==
    /\ delayed' = delayed \cup {worker[w].item}
    /\ IF worker[w].item.event = "delete" THEN FinishItem(w)
       ELSE /\ worker' = [worker EXCEPT ![w].step = "check"]
            /\ UNCHANGED queue

\* The profile of version v is going to be sent.
Call(w, v) ==
    /\ worker' = [worker EXCEPT ![w] = [step |-> "send", item |-> @.item, version |-> v]]
    /\ UNCHANGED workqueue

\* Mutant of ReadCreated: the cluster is looked up in the map, as for a
\* deletion.
ReadCreatedFromMap(w) ==
    LET c == worker[w].item.key IN
    /\ up /\ worker[w].step = "sync" /\ worker[w].item.event = "create"
    /\ IF deletedClusters[c] = 0 THEN Failed(w) ELSE Call(w, deletedClusters[c])
    /\ UNCHANGED <<users, listener, deletedClusters, up, collector>>

\* gRPCRequest up to the call, for a creation.
ReadCreated(w) ==
    LET c == worker[w].item.key IN
    /\ up /\ worker[w].step = "sync" /\ worker[w].item.event = "create"
    /\ IF store[c] = 0 THEN Failed(w) ELSE Call(w, store[c])
    /\ UNCHANGED <<users, listener, deletedClusters, up, collector>>

\* For an update nothing is sent.
ReadUpdated(w) ==
    /\ up /\ worker[w].step = "sync" /\ worker[w].item.event = "update"
    /\ IF store[worker[w].item.key] = 0 THEN Failed(w)
       ELSE /\ worker' = [worker EXCEPT ![w].step = "check"]
            /\ UNCHANGED workqueue
    /\ UNCHANGED <<users, listener, deletedClusters, up, collector>>

\* Mutant of ReadDeleted: the deletion is looked up in the lister's store, as
\* if that still had the cluster.
ReadDeletedFromStore(w) ==
    LET c == worker[w].item.key IN
    /\ up /\ worker[w].step = "sync" /\ worker[w].item.event = "delete"
    /\ IF store[c] = 0 THEN Failed(w) ELSE Call(w, store[c])
    /\ UNCHANGED <<users, listener, deletedClusters, up, collector>>

\* For a deletion the cluster comes from the map.
ReadDeleted(w) ==
    LET c == worker[w].item.key IN
    /\ up /\ worker[w].step = "sync" /\ worker[w].item.event = "delete"
    /\ IF deletedClusters[c] = 0 THEN Failed(w) ELSE Call(w, deletedClusters[c])
    /\ UNCHANGED <<users, listener, deletedClusters, up, collector>>

\* The collector gets the profile or the call is lost; either way gRPCRequest
\* returns true.
Receives(c, v, present) ==
    \/ /\ registered' = [registered EXCEPT ![c] = IF present THEN v ELSE 0]
       /\ unregistered' = [unregistered EXCEPT ![c] = IF present THEN @ ELSE v]
       /\ UNCHANGED lost
    \/ /\ lost < MaxLost /\ lost' = lost + 1
       /\ UNCHANGED <<registered, unregistered>>

SendCreated(w) ==
    /\ up /\ worker[w].step = "send" /\ worker[w].item.event = "create"
    /\ Receives(worker[w].item.key, worker[w].version, TRUE)
    /\ worker' = [worker EXCEPT ![w] = [step |-> "check", item |-> @.item]]
    /\ UNCHANGED <<users, listener, workqueue, deletedClusters, up>>

\* The entry of the map is removed after the call, whichever it is by then.
SendDeleted(w) ==
    /\ up /\ worker[w].step = "send" /\ worker[w].item.event = "delete"
    /\ Receives(worker[w].item.key, worker[w].version, FALSE)
    /\ deletedClusters' = [deletedClusters EXCEPT ![worker[w].item.key] = 0]
    /\ FinishItem(w)
    /\ UNCHANGED <<users, listener, delayed, up>>

Worker(w) ==
    \/ (Take(w) \/ CheckAgain(w)) /\ UNCHANGED collector
    \/ ReadCreated(w) \/ ReadUpdated(w) \/ ReadDeleted(w)
    \/ SendCreated(w) \/ SendDeleted(w)

Next ==
    \/ (Users \/ Listener \/ Retry) /\ UNCHANGED collector
    \/ \E w \in Workers : Worker(w)

Fairness ==
    /\ WF_vars(Listener /\ UNCHANGED collector)
    /\ WF_vars(Retry /\ UNCHANGED collector)
    /\ \A w \in Workers : WF_vars(Worker(w))

Spec == Init /\ [][Next]_vars
LiveSpec == Spec /\ Fairness
-----------------------------------------------------------------------------
(* Properties.                                                             *)

\* Only a version that was deleted is reported as deleted, although the map has
\* one entry for all versions of a name and the entry is written and removed
\* without regard to the item that is being handled: the collector is never
\* told to forget the version that exists.
OnlyDeletedUnregistered ==
    \A c \in Clusters : store[c] # 0 => unregistered[c] < store[c]

\* Every cluster is reported to the collector, whatever else happens in the
\* meantime, except a deletion, a lost call or a panic.
EveryClusterRegistered ==
    \A c \in Clusters :
        store[c] # 0 ~> \/ registered[c] # 0
                        \/ store[c] = 0 \/ deletes[c] > 0 \/ lost > 0 \/ ~up

\* The same with well-formed work items and reports.
CollectorInv == TypeOK /\ OnlyDeletedUnregistered
=============================================================================
