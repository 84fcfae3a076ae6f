---------------------------- MODULE ClusterEvents ----------------------------
(***************************************************************************)
(* How an event about a Cluster object becomes a work item.  The scheduler *)
(* (pkg/scheduler/eventhandlers.go, scheduler.go) and the cluster          *)
(* controller (controllers/cluster/cluster_controller.go) have the same    *)
(* code for it: handlers that put {event, key} into a work queue, a map of *)
(* deleted clusters, and workers that take an item, handle it and call     *)
(* Done with the key of the cluster in place of the item.  What a worker   *)
(* does with an item is defined by the modules that extend this one,       *)
(* SiteCacheSync and ClusterController.                                    *)
(*                                                                         *)
(* A cluster is known by the version of its spec, 0 when there is none;    *)
(* versions of one name grow across deletions.  The informer's store and   *)
(* the notification of its listener change together; the listener and the  *)
(* workers interleave with that and with each other.                       *)
(***************************************************************************)
EXTENDS Naturals, Sequences

CONSTANTS Clusters,     \* names of clusters
          Invalid,      \* those whose address, region or zone is empty
          Workers,      \* the worker threads
          MaxCreate, MaxUpdate, MaxDelete   \* bounds: changes by users

ASSUME EventsAssumption ==
    /\ Invalid \subseteq Clusters
    /\ MaxCreate \in Nat /\ MaxUpdate \in Nat /\ MaxDelete \in Nat

VARIABLES
    store,              \* the lister: version of the spec, 0: no cluster
    lastVersion,        \* the last version of each name
    creates, updates, deletes,     \* changes so far, for each name
    notes,              \* notifications the listener has not handled
    pending,            \* a deletion that is queued but not in the map yet
    queue, delayed,     \* the work queue; items AddRateLimited holds back
    deletedClusters,    \* version of the deleted cluster, 0: no entry
    worker,             \* for each worker its step, item and what it read
    up                  \* the process runs

users == <<store, lastVersion, creates, updates, deletes>>
listener == <<notes, pending>>
workqueue == <<queue, delayed>>
eventVars == <<users, listener, workqueue, deletedClusters, worker, up>>

WQ == INSTANCE WorkQueue

Items == [event : {"create", "update", "delete"}, key : Clusters]
Idle == [step |-> "idle"]
NoDeletion == [version |-> 0]

EventsTypeOK ==
    /\ \A f \in {store, lastVersion, creates, updates, deletes, deletedClusters} :
           f \in [Clusters -> Nat]
    /\ notes \in Seq([name : Clusters, old : Nat, new : Nat])
    /\ pending \in {NoDeletion} \cup [name : Clusters, version : Nat]
    /\ queue.queue \in Seq(Items)
    /\ queue.dirty \subseteq Items /\ queue.processing \subseteq Items
    /\ delayed \subseteq Items
    /\ \A w \in Workers : worker[w].step # "idle" => worker[w].item \in Items
    /\ up \in BOOLEAN

EventsInit ==
    /\ store = [c \in Clusters |-> 0] /\ lastVersion = store
    /\ creates = store /\ updates = store /\ deletes = store
    /\ notes = <<>> /\ pending = NoDeletion
    /\ queue = WQ!Empty /\ delayed = {}
    /\ deletedClusters = store
    /\ worker = [w \in Workers |-> Idle]
    /\ up = TRUE
-----------------------------------------------------------------------------
(* Users change clusters, the informer follows (external).                 *)

Change(c, v) ==
    /\ store' = [store EXCEPT ![c] = v]
    /\ lastVersion' = [lastVersion EXCEPT ![c] = IF v > @ THEN v ELSE @]
    /\ notes' = Append(notes, [name |-> c, old |-> store[c], new |-> v])
    /\ UNCHANGED <<pending, workqueue, deletedClusters, worker, up>>

CreateCluster(c) ==
    /\ up /\ store[c] = 0 /\ creates[c] < MaxCreate
    /\ creates' = [creates EXCEPT ![c] = @ + 1]
    /\ Change(c, lastVersion[c] + 1)
    /\ UNCHANGED <<updates, deletes>>

\* The spec changes, or only what determineEventType does not look at.
UpdateCluster(c) ==
    /\ up /\ store[c] # 0 /\ updates[c] < MaxUpdate
    /\ \E v \in {store[c], lastVersion[c] + 1} :
           /\ updates' = [updates EXCEPT ![c] = IF v = store[c] THEN @ ELSE @ + 1]
           /\ v = store[c] => notes = <<>>    \* bounds the updates without effect
           /\ Change(c, v)
    /\ UNCHANGED <<creates, deletes>>

RemoveCluster(c) ==
    /\ up /\ store[c] # 0 /\ deletes[c] < MaxDelete
    /\ deletes' = [deletes EXCEPT ![c] = @ + 1]
    /\ Change(c, 0)
    /\ UNCHANGED <<creates, updates>>

Users == \E c \in Clusters : CreateCluster(c) \/ UpdateCluster(c) \/ RemoveCluster(c)
-----------------------------------------------------------------------------
(* The listener.                                                           *)

Enqueue(c, event) == queue' = WQ!Add(queue, [event |-> event, key |-> c])

Notified(kind) ==
    /\ up /\ notes # <<>> /\ pending = NoDeletion
    /\ kind = (CASE Head(notes).old = 0 -> "add"
                 [] Head(notes).new = 0 -> "delete"
                 [] OTHER -> "update")
    /\ notes' = Tail(notes)
    /\ UNCHANGED <<users, delayed, deletedClusters, worker, up>>

\* Mutant of addCluster: a cluster that is not verified is not queued, as in
\* deleteCluster.
addClusterVerified ==
    /\ Notified("add")
    /\ IF Head(notes).name \in Invalid THEN UNCHANGED queue
       ELSE Enqueue(Head(notes).name, "create")
    /\ UNCHANGED pending

\* A cluster that is not verified is queued all the same.
addCluster ==
    /\ Notified("add")
    /\ Enqueue(Head(notes).name, "create")
    /\ UNCHANGED pending

\* Mutant of updateCluster: the wrong event type is queued.
updateClusterAsCreate ==
    /\ Notified("update")
    /\ IF Head(notes).old = Head(notes).new THEN UNCHANGED queue
       ELSE Enqueue(Head(notes).name, "create")
    /\ UNCHANGED pending

\* determineEventType: an update that leaves the spec is dropped.
updateCluster ==
    /\ Notified("update")
    /\ IF Head(notes).old = Head(notes).new THEN UNCHANGED queue
       ELSE Enqueue(Head(notes).name, "update")
    /\ UNCHANGED pending

\* A cluster that is not verified is ignored.  The item is queued before the
\* cluster is put into the map: a worker may take it in between.
deleteCluster ==
    /\ Notified("delete")
    /\ IF Head(notes).name \in Invalid THEN UNCHANGED <<queue, pending>>
       ELSE /\ Enqueue(Head(notes).name, "delete")
            /\ pending' = [name |-> Head(notes).name, version |-> Head(notes).old]

SaveDeleted ==
    /\ up /\ pending # NoDeletion
    /\ deletedClusters' = [deletedClusters EXCEPT ![pending.name] = pending.version]
    /\ pending' = NoDeletion
    /\ UNCHANGED <<users, notes, workqueue, worker, up>>

Listener == addCluster \/ updateCluster \/ deleteCluster \/ SaveDeleted
-----------------------------------------------------------------------------
(* The workers' dealings with the queue.                                   *)

\* The delay of AddRateLimited is over.
Retry ==
    /\ up /\ \E item \in delayed : /\ delayed' = delayed \ {item}
                                   /\ queue' = WQ!Add(queue, item)
    /\ UNCHANGED <<users, listener, deletedClusters, worker, up>>

Take(w) ==
    /\ up /\ worker[w] = Idle /\ queue.queue # <<>>
    /\ worker' = [worker EXCEPT ![w] = [step |-> "sync", item |-> WQ!Next(queue)]]
    /\ queue' = WQ!Get(queue)
    /\ UNCHANGED <<users, listener, delayed, deletedClusters, up>>

\* Done is given the key, not the item: the item stays in processing.
FinishItem(w) ==
    /\ queue' = WQ!Done(queue, worker[w].item.key)
    /\ worker' = [worker EXCEPT ![w] = Idle]

\* After a create or update event the handler reads the cluster again and
\* writes to the copy; there is none if the cluster is gone, and the process
\* ends with the panic.
CheckAgain(w) ==
    /\ up /\ worker[w].step = "check"
    /\ IF store[worker[w].item.key] = 0
       THEN up' = FALSE /\ UNCHANGED <<queue, worker>>
       ELSE FinishItem(w) /\ UNCHANGED up
    /\ UNCHANGED <<users, listener, delayed, deletedClusters>>

\* Nothing is left to do.
Settled ==
    /\ up /\ notes = <<>> /\ pending = NoDeletion
    /\ queue.queue = <<>> /\ delayed = {}
    /\ \A w \in Workers : worker[w] = Idle
=============================================================================
