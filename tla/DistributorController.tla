------------------------ MODULE DistributorController ------------------------
(***************************************************************************)
(* The distributor controller (controllers/distributor/                    *)
(* distributor_controller.go).  It cuts the hash keys of pods and          *)
(* allocations among the Distributor objects and starts a process for each *)
(* of them.  Four activities interleave: the API server and its users; the *)
(* informer's reflector, which brings the store behind the lister up to    *)
(* date; the informer's listener, which calls the handlers (AddFunc queues *)
(* the key, DeleteFunc rebalances); and the worker, which takes a key,     *)
(* rebalances and starts the process.                                      *)
(*                                                                         *)
(* rebalance() lists the store in no particular order and writes its       *)
(* objects one after the other.  What it lists are pointers to the objects *)
(* of the store, so worker and listener change the same memory; a pointer  *)
(* is identified by the distributor and the resource version it shows.     *)
(***************************************************************************)
EXTENDS EvenlyDivide, Integers, SequencesExt

CONSTANTS Distributors,   \* names of distributors
          MaxKey,         \* the largest hash key, math.MaxInt64 in the code
          MaxCreate,      \* bound: distributors created
          MaxDeletions,   \* bound: distributors deleted
          MaxRestart      \* bound: restarts of the controller

ASSUME ControllerAssumption ==
    /\ MaxCreate \in Nat /\ MaxDeletions \in Nat /\ MaxRestart \in Nat
    /\ IsFiniteSet(Distributors) /\ "none" \notin Distributors
    /\ MaxKey \in Nat /\ Cardinality(Distributors) <= MaxKey

VARIABLES
    rv, range,      \* the objects: resource version (0: no object) and range
    lastRv,         \* the last resource version of each name
    creates, deletions,
    watch,          \* changes the reflector has not received yet
    store,          \* the lister's store: resource version (0: no object)
    notes,          \* notifications the listener has not handled yet
    queue, again,   \* the work queue; keys added while they are processed
    delayed,        \* keys AddRateLimited holds back
    thread,         \* the worker and the listener
    procs,          \* processes started for each object
    up, restarts,   \* whether the controller runs, how often it restarted
    unbalanced,     \* DeleteFunc ignored an error of its rebalance, and none
                    \* was begun since
    unnoticed       \* an Update left an object as it was that the other thread
                    \* had still to write, and no rebalance was begun since

api == <<rv, range, lastRv, creates, deletions>>
informer == <<watch, store, notes>>
workqueue == <<queue, again, delayed>>
process == <<procs, up, restarts>>
flaws == <<unbalanced, unnoticed>>
controllerVars == <<api, informer, workqueue, thread, process, flaws>>

Threads == {"worker", "listener"}
Keys == 0..MaxKey
Ranges == Keys \X (-1..MaxKey)

\* A thread: its step, the key it works for, the pointers it listed and has
\* still to write, with the ranges for them, and what the range of the first
\* one may read as.
Rest == [step |-> "idle", key |-> "none", list |-> <<>>, ranges |-> <<>>,
         value |-> {}]

ControllerTypeOK ==
    /\ rv \in [Distributors -> Nat] /\ lastRv \in [Distributors -> Nat]
    /\ range \in [Distributors -> Ranges]
    /\ creates \in 0..MaxCreate /\ deletions \in 0..MaxDeletions
    /\ watch \in Seq([name : Distributors, rv : Nat])
    /\ store \in [Distributors -> Nat]
    /\ notes \in Seq([name : Distributors, type : {"add", "delete"}])
    /\ queue \in Seq(Distributors) /\ IsInjective(queue)
    /\ again \subseteq Distributors /\ delayed \subseteq Distributors
    /\ \A t \in Threads :
           /\ thread[t].step \in {"idle", "list", "set", "update", "start"}
           /\ thread[t].key \in Distributors \cup {"none"}
           /\ thread[t].list \in Seq(Distributors \X Nat)
           /\ Len(thread[t].ranges) = Len(thread[t].list)
           /\ thread[t].value \subseteq Ranges
    /\ procs \in [Distributors -> Nat]
    /\ up \in BOOLEAN /\ restarts \in 0..MaxRestart
    /\ unbalanced \in BOOLEAN /\ unnoticed \in BOOLEAN

\* A Distributor is created with the zero range.
NoRange == <<0, 0>>

ControllerInit ==
    /\ rv = [d \in Distributors |-> 0] /\ lastRv = rv /\ store = rv
    /\ range = [d \in Distributors |-> NoRange]
    /\ creates = 0 /\ deletions = 0
    /\ watch = <<>> /\ notes = <<>>
    /\ queue = <<>> /\ again = {} /\ delayed = {}
    /\ thread = [t \in Threads |-> Rest]
    /\ procs = [d \in Distributors |-> 0]
    /\ up = TRUE /\ restarts = 0 /\ unbalanced = FALSE /\ unnoticed = FALSE
-----------------------------------------------------------------------------
(* The API server and its users (external).                                *)

\* Object d gets the resource version and the range; its watchers are told.
Write(d, r) ==
    /\ lastRv' = [lastRv EXCEPT ![d] = @ + 1]
    /\ rv' = [rv EXCEPT ![d] = lastRv[d] + 1]
    /\ range' = [range EXCEPT ![d] = r]
    /\ watch' = IF up THEN Append(watch, [name |-> d, rv |-> lastRv[d] + 1])
                ELSE watch

\* The pointer shows the current version of its object.
IsCurrent(p) == rv[p[1]] = p[2]

CreateDistributor(d) ==
    /\ rv[d] = 0 /\ creates < MaxCreate /\ creates' = creates + 1
    /\ Write(d, NoRange)
    /\ UNCHANGED <<deletions, store, notes, workqueue, thread, process, flaws>>

\* The processes of the distributor end (DeleteFunc of distributor_process.go).
DeleteDistributor(d) ==
    /\ rv[d] # 0 /\ deletions < MaxDeletions /\ deletions' = deletions + 1
    /\ rv' = [rv EXCEPT ![d] = 0]
    /\ watch' = IF up THEN Append(watch, [name |-> d, rv |-> 0]) ELSE watch
    /\ procs' = [procs EXCEPT ![d] = 0]
    /\ UNCHANGED <<range, lastRv, creates, store, notes, workqueue, thread, up,
                   restarts, flaws>>
-----------------------------------------------------------------------------
(* The informer.                                                           *)

\* The reflector receives a change: the store is updated, and additions and
\* deletions are passed to the listener (there is no UpdateFunc).
Receive ==
    /\ up /\ watch # <<>>
    /\ LET e == Head(watch) IN
       /\ store' = [store EXCEPT ![e.name] = e.rv]
       /\ notes' = IF e.rv = 0
                   THEN Append(notes, [name |-> e.name, type |-> "delete"])
                   ELSE IF store[e.name] = 0
                   THEN Append(notes, [name |-> e.name, type |-> "add"])
                   ELSE notes
    /\ watch' = Tail(watch)
    /\ UNCHANGED <<api, workqueue, thread, process, flaws>>

\* workqueue.Add: a key is queued once; one that is being processed is queued
\* again when it is done.
Enqueue(d) ==
    IF d = thread["worker"].key
    THEN again' = again \cup {d} /\ UNCHANGED queue
    ELSE /\ queue' = IF Contains(queue, d) THEN queue ELSE Append(queue, d)
         /\ UNCHANGED again

\* AddFunc.
DistributorAddFunc ==
    /\ up /\ notes # <<>> /\ Head(notes).type = "add"
    /\ Enqueue(Head(notes).name)
    /\ notes' = Tail(notes)
    /\ UNCHANGED <<api, watch, store, delayed, thread, process, flaws>>

\* Mutant of deleteDistributor: nothing is rebalanced.
deleteDistributorOnly ==
    /\ up /\ notes # <<>> /\ Head(notes).type = "delete"
    /\ notes' = Tail(notes)
    /\ UNCHANGED <<api, watch, store, workqueue, thread, process, flaws>>

\* DeleteFunc: the listener is busy until its rebalance has ended.
deleteDistributor ==
    /\ up /\ notes # <<>> /\ Head(notes).type = "delete"
    /\ thread["listener"].step = "idle"
    /\ thread' = [thread EXCEPT !["listener"].step = "list"]
    /\ UNCHANGED <<api, informer, workqueue, process, flaws>>
-----------------------------------------------------------------------------
(* The worker.                                                             *)

\* processNextItem takes a key.  A distributor that is not in the store is an
\* error, and the key is tried again later.
processNextItem ==
    /\ up /\ queue # <<>> /\ thread["worker"].step = "idle"
    /\ queue' = Tail(queue)
    /\ IF store[Head(queue)] = 0
       THEN delayed' = delayed \cup {Head(queue)} /\ UNCHANGED thread
       ELSE /\ thread' = [thread EXCEPT !["worker"].step = "list",
                                        !["worker"].key = Head(queue)]
            /\ UNCHANGED delayed
    /\ UNCHANGED <<api, informer, again, process, flaws>>

\* The delay of AddRateLimited is over.
Retry(d) ==
    /\ up /\ d \in delayed /\ delayed' = delayed \ {d}
    /\ Enqueue(d)
    /\ UNCHANGED <<api, informer, thread, process, flaws>>

\* go cmd.Run(), and Done(key).  A process finds its object or ends at once.
StartProcess ==
    /\ up /\ thread["worker"].step = "start"
    /\ LET d == thread["worker"].key IN
       /\ procs' = [procs EXCEPT ![d] = IF rv[d] = 0 THEN 0 ELSE @ + 1]
       /\ queue' = IF d \in again THEN Append(queue, d) ELSE queue
       /\ again' = again \ {d}
    /\ thread' = [thread EXCEPT !["worker"] = Rest]
    /\ UNCHANGED <<api, informer, delayed, up, restarts, flaws>>
-----------------------------------------------------------------------------
(* rebalance(), in thread t.                                               *)

\* The steps that follow it: the worker starts the process, the listener
\* has handled its notification.
Return(t) ==
    IF t = "worker"
    THEN /\ thread' = [thread EXCEPT ![t] = [Rest EXCEPT !.step = "start",
                                                         !.key = thread[t].key]]
         /\ UNCHANGED notes
    ELSE /\ thread' = [thread EXCEPT ![t] = Rest]
         /\ notes' = Tail(notes)

\* List and EvenlyDivide; without distributors there is nothing to do.
List(t) ==
    /\ up /\ thread[t].step = "list"
    /\ LET names == {d \in Distributors : store[d] # 0} IN
       IF names = {}
       THEN Return(t)
       ELSE /\ \E order \in SetToSeqs(names) :
                 thread' = [thread EXCEPT
                     ![t].step = "set",
                     ![t].list = [i \in 1..Len(order) |-> <<order[i], store[order[i]]>>],
                     ![t].ranges = EvenlyDivide(Len(order), MaxKey)]
            /\ UNCHANGED notes
    /\ unbalanced' = FALSE /\ unnoticed' = FALSE
    /\ UNCHANGED <<api, watch, store, workqueue, process>>

\* d.Spec.Range = ...: an unguarded write to an object of the store.  Another
\* thread that is about to send the same object may read either range.
SetRange(t) ==
    /\ up /\ thread[t].step = "set"
    /\ LET p == Head(thread[t].list)
           r == Head(thread[t].ranges)
       IN  thread' = [u \in Threads |->
               IF u = t THEN [thread[t] EXCEPT !.step = "update", !.value = {r}]
               ELSE IF thread[u].step = "update" /\ Head(thread[u].list) = p
               THEN [thread[u] EXCEPT !.value = @ \cup {r}]
               ELSE thread[u]]
    /\ UNCHANGED <<api, informer, workqueue, process, flaws>>

\* What the API server does with the range that thread t sends for pointer p.
\* An object that stays as it was keeps its version, and no watcher is told:
\* another thread that has still to write it will not get a conflict.
Put(t, p, r) ==
    \/ /\ r # range[p[1]] /\ Write(p[1], r)
       /\ UNCHANGED unnoticed
    \/ /\ r = range[p[1]]
       /\ unnoticed' = (unnoticed \/ \E u \in Threads \ {t} : Contains(thread[u].list, p))
       /\ UNCHANGED <<rv, range, lastRv, watch>>

\* Update succeeds: the object still has the version of the pointer.  Start
\* and end of the range are read one after the other.
Update(t) ==
    /\ up /\ thread[t].step = "update" /\ IsCurrent(Head(thread[t].list))
    /\ \E a, b \in thread[t].value : Put(t, Head(thread[t].list), <<a[1], b[2]>>)
    /\ IF Len(thread[t].list) = 1 THEN Return(t)
       ELSE /\ thread' = [thread EXCEPT ![t].step = "set",
                              ![t].list = Tail(@), ![t].ranges = Tail(@),
                              ![t].value = {}]
            /\ UNCHANGED notes
    /\ UNCHANGED <<creates, deletions, store, workqueue, process, unbalanced>>

\* klog.Fatalf ends the controller; its processes go on.
Die ==
    /\ up' = FALSE
    /\ watch' = <<>> /\ notes' = <<>> /\ store' = [d \in Distributors |-> 0]
    /\ queue' = <<>> /\ again' = {} /\ delayed' = {}
    /\ thread' = [t \in Threads |-> Rest]

\* Mutant of UpdateFails: the worker returns and takes the next key.
UpdateFailsReturns(t) ==
    /\ up /\ thread[t].step = "update"
    /\ ~IsCurrent(Head(thread[t].list))
    /\ IF t = "worker"
       THEN thread' = [thread EXCEPT ![t] = Rest] /\ UNCHANGED notes
       ELSE Return(t)
    /\ UNCHANGED <<api, watch, store, workqueue, process, flaws>>

\* An Update that fails ends the rebalance.  The worker dies of it; DeleteFunc
\* ignores it, and nothing is tried again.
UpdateFails(t) ==
    /\ up /\ thread[t].step = "update"
    /\ ~IsCurrent(Head(thread[t].list))
    /\ IF t = "worker" THEN Die /\ UNCHANGED unbalanced
       ELSE /\ Return(t) /\ unbalanced' = TRUE
            /\ UNCHANGED <<watch, store, workqueue, up>>
    /\ UNCHANGED <<api, procs, restarts, unnoticed>>

\* A new controller lists the objects and is notified of each of them.
Restart ==
    /\ ~up /\ restarts < MaxRestart
    /\ up' = TRUE /\ restarts' = restarts + 1
    /\ store' = rv
    /\ \E order \in SetToSeqs({d \in Distributors : rv[d] # 0}) :
           notes' = [i \in 1..Len(order) |-> [name |-> order[i], type |-> "add"]]
    /\ unbalanced' = FALSE /\ unnoticed' = FALSE
    /\ UNCHANGED <<api, watch, workqueue, thread, procs>>
-----------------------------------------------------------------------------
Users == \E d \in Distributors : CreateDistributor(d) \/ DeleteDistributor(d)

rebalance(t) == List(t) \/ SetRange(t) \/ Update(t) \/ UpdateFails(t)

Controller ==
    \/ Receive \/ DistributorAddFunc \/ deleteDistributor
    \/ processNextItem \/ StartProcess \/ \E d \in Distributors : Retry(d)
    \/ \E t \in Threads : rebalance(t)

ControllerNext == Users \/ Controller \/ Restart

ControllerSpec == ControllerInit /\ [][ControllerNext]_controllerVars
-----------------------------------------------------------------------------
(* Properties.                                                             *)

\* The controller runs and has handled every change.  Keys of distributors
\* that are gone may still be retried.
Settled ==
    /\ up /\ watch = <<>> /\ notes = <<>> /\ queue = <<>>
    /\ \A t \in Threads : thread[t] = Rest

Handlers(k) == {d \in Distributors : rv[d] # 0 /\ range[d][1] <= k /\ k <= range[d][2]}

Exists == \E d \in Distributors : rv[d] # 0

\* Once the controller has handled every change, each hash key is in the range
\* of exactly one distributor: no pod or allocation is left without one or is
\* assigned twice, whatever the order in which the worker and the listener
\* listed and wrote the objects, and wherever they died.  The exceptions are an
\* error that deleteDistributor ignored, and two rebalances of which neither
\* met a conflict because one of them sent an object what it already had: such
\* a pair can leave hash keys to nobody or to two.
HashKeysPartitioned ==
    Settled /\ Exists /\ ~unbalanced /\ ~unnoticed
        => \A k \in Keys : \E d \in Distributors : Handlers(k) = {d}

\* Once the controller has handled every change, each distributor has a
\* process, also one whose predecessor of the same name the worker was still
\* busy with, or for which the worker died before it started it.
EveryDistributorStarted ==
    Settled => \A d \in Distributors : rv[d] # 0 => procs[d] > 0

\* What the worker and its queue keep up: the queue has a key at most once, and
\* when it is empty no distributor is without a process.
ControllerInv == ControllerTypeOK /\ EveryDistributorStarted
=============================================================================
