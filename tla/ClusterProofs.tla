---------------------------- MODULE ClusterProofs ----------------------------
(***************************************************************************)
(* Proofs about the two programs that follow the Cluster objects: the      *)
(* cluster controller with its collector, and the cluster worker of a      *)
(* scheduler with its sites.  For any number of clusters, workers, changes *)
(* and lost calls.                                                         *)
(***************************************************************************)
EXTENDS ClusterController, SiteCacheSync, SequenceTheorems, TLAPS

(* EventsTypeOK with the shapes of the records, which the steps need.      *)
Notes == [name : Clusters, old : Nat, new : Nat]
Steps == {Idle} \cup [step : {"sync", "check"}, item : Items]
           \cup [step : {"send"}, item : Items, version : Nat]
Queues == [queue : Seq(Items), dirty : SUBSET Items, processing : SUBSET Items]

Shapes ==
    /\ store \in [Clusters -> Nat] /\ lastVersion \in [Clusters -> Nat]
    /\ creates \in [Clusters -> Nat] /\ updates \in [Clusters -> Nat]
    /\ deletes \in [Clusters -> Nat] /\ deletedClusters \in [Clusters -> Nat]
    /\ notes \in Seq(Notes)
    /\ pending \in {NoDeletion} \cup [name : Clusters, version : Nat]
    /\ queue \in Queues /\ delayed \subseteq Items
    /\ worker \in [Workers -> Steps] /\ up \in BOOLEAN

CollectorShapes ==
    /\ registered \in [Clusters -> Nat] /\ unregistered \in [Clusters -> Nat]
    /\ lost \in 0..MaxLost

(* Version v of the cluster c is not, and will not be, the one that exists *)
(* (versions of one name grow).                                            *)
Gone(c, v) == v <= lastVersion[c] /\ (store[c] # 0 => v < store[c])

(* Every place where a deletion waits has a version that is gone: the      *)
(* listener's notification, what deleteCluster has not put into the map    *)
(* yet, the map, a worker that read the map, and the collector.            *)
Deleted ==
    /\ \A c \in Clusters : store[c] <= lastVersion[c]
    /\ \A i \in DOMAIN notes : notes[i].new = 0 => Gone(notes[i].name, notes[i].old)
    /\ pending # NoDeletion => Gone(pending.name, pending.version)
    /\ \A c \in Clusters : Gone(c, deletedClusters[c])
    /\ \A w \in Workers : worker[w].step = "send" /\ worker[w].item.event = "delete"
                             => Gone(worker[w].item.key, worker[w].version)
    /\ \A c \in Clusters : Gone(c, unregistered[c])
-----------------------------------------------------------------------------
(* The work queue's operations keep its fields in their types, Done with a *)
(* key in place of an item too.                                            *)
LEMMA QueueOps ==
    ASSUME NEW q \in Queues
    PROVE  /\ \A item \in Items : WQ!Add(q, item) \in Queues
           /\ q.queue # <<>> => WQ!Next(q) \in Items /\ WQ!Get(q) \in Queues
           /\ \A key : WQ!Done(q, key) \in Queues
<1> DEFINE I == Items
<1>0. /\ q.queue \in Seq(I) /\ q.dirty \subseteq I /\ q.processing \subseteq I
      /\ q = [queue |-> q.queue, dirty |-> q.dirty, processing |-> q.processing]
  BY DEF Queues
<1> HIDE DEF I
<1>q. \A a \in Seq(I), b \in SUBSET I, c \in SUBSET I :
          [queue |-> a, dirty |-> b, processing |-> c] \in Queues
  BY DEF Queues, I
<1>1. ASSUME NEW item \in I PROVE WQ!Add(q, item) \in Queues
  <2>1. CASE item \in q.dirty
    BY <2>1 DEF WQ!Add
  <2>2. CASE item \notin q.dirty
    <3> DEFINE s == IF item \in q.processing THEN q.queue ELSE Append(q.queue, item)
    <3>1. WQ!Add(q, item) = [queue |-> s, dirty |-> q.dirty \cup {item},
                             processing |-> q.processing]
      BY <1>0, <2>2 DEF WQ!Add
    <3>2. s \in Seq(I)
      BY <1>0
    <3>. QED
      BY <1>0, <1>q, <3>1, <3>2
  <2>. QED
    BY <2>1, <2>2
<1>2. ASSUME q.queue # <<>> PROVE WQ!Next(q) \in I /\ WQ!Get(q) \in Queues
  <2>1. Head(q.queue) \in I /\ Tail(q.queue) \in Seq(I)
    BY <1>0, <1>2, HeadTailProperties
  <2>. QED
    BY <1>0, <1>q, <2>1 DEF WQ!Next, WQ!Get
<1>3. ASSUME NEW key PROVE WQ!Done(q, key) \in Queues
  <2> DEFINE s == IF key \in q.dirty THEN Append(q.queue, key) ELSE q.queue
  <2>1. s \in Seq(I) /\ q.processing \ {key} \in SUBSET I
    BY <1>0
  <2>2. ASSUME NEW a \in Seq(I), NEW b \in SUBSET I
        PROVE  [q EXCEPT !.processing = b, !.queue = a] \in Queues
    BY DEF Queues, I
  <2>3. WQ!Done(q, key) = [q EXCEPT !.processing = q.processing \ {key}, !.queue = s]
    BY Zenon DEF WQ!Done
  <2>. QED
    BY <2>1, <2>2, <2>3
<1>. QED
  BY <1>1, <1>2, <1>3 DEF I

(* What a worker has at each step.                                         *)
LEMMA StepShape ==
    ASSUME NEW s \in Steps
    PROVE  /\ s.step # "idle" => s.item \in Items
           /\ s.step = "send" => s.version \in Nat
           /\ s.step = "sync" => s = [step |-> "sync", item |-> s.item]
<1>1. CASE s = Idle
  BY <1>1 DEF Idle
<1>2. CASE s \in [step : {"sync", "check"}, item : Items]
  BY <1>2
<1>3. CASE s \in [step : {"send"}, item : Items, version : Nat]
  BY <1>3
<1>. QED
  BY <1>1, <1>2, <1>3 DEF Steps

(* An item has a cluster, and what a worker is set to is a step.           *)
LEMMA StepKinds ==
    ASSUME NEW item \in Items
    PROVE  /\ item.key \in Clusters /\ Idle \in Steps
           /\ [step |-> "sync", item |-> item] \in Steps
           /\ [step |-> "check", item |-> item] \in Steps
           /\ \A v \in Nat : [step |-> "send", item |-> item, version |-> v] \in Steps
  BY DEF Steps, Items

(* FinishItem and Failed, the ways an item is left.                        *)
LEMMA FinishShape ==
    ASSUME Shapes, NEW w \in Workers, FinishItem(w)
    PROVE  queue' \in Queues /\ worker' \in [Workers -> Steps]
<1>1. Idle \in Steps
  BY DEF Steps
<1>. QED
  BY <1>1, QueueOps DEF Shapes, FinishItem

LEMMA FailedShape ==
    ASSUME Shapes, NEW w \in Workers, worker[w].step = "sync", Failed(w)
    PROVE  /\ queue' \in Queues /\ delayed' \subseteq Items
           /\ worker' \in [Workers -> Steps]
<1>1. /\ worker[w] \in Steps /\ worker[w].item \in Items
      /\ worker[w] = [step |-> "sync", item |-> worker[w].item]
  BY StepShape DEF Shapes
<1>2. delayed' \subseteq Items
  BY <1>1 DEF Shapes, Failed
<1>3. CASE FinishItem(w)
  BY <1>2, <1>3, FinishShape
<1>4. CASE worker' = [worker EXCEPT ![w].step = "check"] /\ UNCHANGED queue
  <2>1. [worker[w] EXCEPT !.step = "check"] = [step |-> "check", item |-> worker[w].item]
    BY <1>1
  <2>2. worker' = [worker EXCEPT ![w] = [step |-> "check", item |-> worker[w].item]]
    BY <1>4, <2>1
  <2>. QED
    BY <1>1, <1>2, <1>4, <2>2, StepKinds DEF Shapes
<1>. QED
  BY <1>3, <1>4 DEF Failed

(* A change by a user, with its notification.                              *)
LEMMA ChangeShape ==
    ASSUME Shapes, NEW c \in Clusters, NEW v \in Nat, Change(c, v)
    PROVE  /\ store' \in [Clusters -> Nat] /\ lastVersion' \in [Clusters -> Nat]
           /\ notes' \in Seq(Notes)
           /\ store'[c] = v
           /\ lastVersion'[c] = IF v > lastVersion[c] THEN v ELSE lastVersion[c]
           /\ \A d \in Clusters \ {c} : /\ store'[d] = store[d]
                                        /\ lastVersion'[d] = lastVersion[d]
           /\ DOMAIN notes' = 1..(Len(notes) + 1)
           /\ \A i \in DOMAIN notes : notes'[i] = notes[i]
           /\ notes'[Len(notes) + 1] = [name |-> c, old |-> store[c], new |-> v]
<1> DEFINE n == [name |-> c, old |-> store[c], new |-> v]
<1>1. store[c] \in Nat /\ lastVersion[c] \in Nat /\ n \in Notes
  BY DEF Shapes, Notes
<1>2. notes \in Seq(Notes) /\ notes' = Append(notes, n)
  BY DEF Shapes, Change
<1> HIDE DEF n
<1>3. /\ notes' \in Seq(Notes) /\ DOMAIN notes' = 1..(Len(notes) + 1)
      /\ \A i \in DOMAIN notes : notes'[i] = notes[i]
      /\ notes'[Len(notes) + 1] = n
  BY <1>1, <1>2
<1>4. /\ store' = [store EXCEPT ![c] = v]
      /\ lastVersion' = [lastVersion EXCEPT ![c] =
                            IF v > lastVersion[c] THEN v ELSE lastVersion[c]]
  BY DEF Change
<1>. QED
  BY <1>1, <1>3, <1>4 DEF Shapes, n

(* What the users change, seen from Next: a version that is new, the same  *)
(* as before or 0.                                                         *)
LEMMA UsersChange ==
    ASSUME Shapes, Users
    PROVE  /\ UNCHANGED <<pending, workqueue, deletedClusters, worker, up>>
           /\ creates' \in [Clusters -> Nat] /\ updates' \in [Clusters -> Nat]
           /\ deletes' \in [Clusters -> Nat]
           /\ \E c \in Clusters : \E v \in Nat :
                 /\ Change(c, v)
                 /\ v = 0 \/ v = store[c] \/ v = lastVersion[c] + 1
<1>1. PICK c \in Clusters : CreateCluster(c) \/ UpdateCluster(c) \/ RemoveCluster(c)
  BY DEF Users
<1> USE DEF Shapes
<1>2. CASE CreateCluster(c)
  <2>1. Change(c, lastVersion[c] + 1) /\ lastVersion[c] + 1 \in Nat
    BY <1>2 DEF CreateCluster
  <2>2. /\ creates' \in [Clusters -> Nat] /\ updates' \in [Clusters -> Nat]
        /\ deletes' \in [Clusters -> Nat]
    BY <1>2 DEF CreateCluster
  <2>3. UNCHANGED <<pending, workqueue, deletedClusters, worker, up>>
    BY <2>1 DEF Change
  <2>. QED
    BY <2>1, <2>2, <2>3
<1>3. CASE RemoveCluster(c)
  <2>1. Change(c, 0)
    BY <1>3 DEF RemoveCluster
  <2>2. /\ creates' \in [Clusters -> Nat] /\ updates' \in [Clusters -> Nat]
        /\ deletes' \in [Clusters -> Nat]
    BY <1>3 DEF RemoveCluster
  <2>3. UNCHANGED <<pending, workqueue, deletedClusters, worker, up>>
    BY <2>1 DEF Change
  <2>. QED
    BY <2>1, <2>2, <2>3
<1>4. CASE UpdateCluster(c)
  <2>1. PICK v \in {store[c], lastVersion[c] + 1} :
            /\ updates' = [updates EXCEPT ![c] = IF v = store[c] THEN @ ELSE @ + 1]
            /\ Change(c, v)
    BY <1>4 DEF UpdateCluster
  <2>2. v \in Nat /\ UNCHANGED <<creates, deletes>>
    BY <1>4, <2>1 DEF UpdateCluster
  <2>3. UNCHANGED <<pending, workqueue, deletedClusters, worker, up>>
    BY <2>1 DEF Change
  <2>4. updates' \in [Clusters -> Nat]
    BY <2>1
  <2>. QED
    BY <2>1, <2>2, <2>3, <2>4
<1>. QED
  BY <1>1, <1>2, <1>3, <1>4

(* The notification at the head, and those that are left.                  *)
LEMMA NotesLeft ==
    ASSUME Shapes, notes # <<>>, notes' = Tail(notes)
    PROVE  /\ Head(notes) \in Notes /\ notes' \in Seq(Notes)
           /\ Head(notes) = notes[1] /\ 1 \in DOMAIN notes
           /\ \A i \in DOMAIN notes' : /\ i + 1 \in DOMAIN notes
                                       /\ notes'[i] = notes[i + 1]
<1>1. notes \in Seq(Notes)
  BY DEF Shapes
<1>. QED
  BY <1>1, HeadTailProperties

(* The listener's steps.                                                   *)
LEMMA ListenerShape ==
    ASSUME Shapes, Listener
    PROVE  /\ UNCHANGED <<users, delayed, worker, up>>
           /\ notes' \in Seq(Notes) /\ queue' \in Queues
           /\ pending' \in {NoDeletion} \cup [name : Clusters, version : Nat]
           /\ deletedClusters' \in [Clusters -> Nat]
<1>1. ASSUME NEW kind, Notified(kind), NEW e \in {"create", "update", "delete"},
             \/ UNCHANGED queue
             \/ Enqueue(Head(notes).name, e)
      PROVE  /\ notes' \in Seq(Notes) /\ queue' \in Queues
             /\ Head(notes).name \in Clusters /\ Head(notes).old \in Nat
  <2>1. Head(notes) \in Notes /\ notes' \in Seq(Notes)
    BY <1>1, NotesLeft DEF Notified
  <2>2. Head(notes).name \in Clusters /\ Head(notes).old \in Nat
    BY <2>1 DEF Notes
  <2>3. [event |-> e, key |-> Head(notes).name] \in Items
    BY <2>2 DEF Items
  <2>4. queue \in Queues
    BY DEF Shapes
  <2>5. queue' \in Queues
    BY <1>1, <2>3, <2>4, QueueOps DEF Enqueue
  <2>. QED
    BY <2>1, <2>2, <2>5
<1>2. CASE addCluster
  BY <1>1, <1>2 DEF addCluster, Notified, Shapes
<1>3. CASE updateCluster
  BY <1>1, <1>3 DEF updateCluster, Notified, Shapes
<1>4. CASE deleteCluster
  BY <1>1, <1>4 DEF deleteCluster, Notified, Shapes
<1>5. CASE SaveDeleted
  <2>1. pending \in [name : Clusters, version : Nat]
    BY <1>5 DEF SaveDeleted, Shapes
  <2>. QED
    BY <1>5, <2>1 DEF SaveDeleted, Shapes, workqueue
<1>. QED
  BY <1>2, <1>3, <1>4, <1>5 DEF Listener

(* The steps of a worker up to and after its call.                         *)
LEMMA WorkerShape ==
    ASSUME Shapes, CollectorShapes, NEW w \in Workers, Worker(w)
    PROVE  /\ UNCHANGED <<users, listener>>
           /\ queue' \in Queues /\ delayed' \subseteq Items
           /\ worker' \in [Workers -> Steps] /\ up' \in BOOLEAN
           /\ deletedClusters' \in [Clusters -> Nat]
           /\ registered' \in [Clusters -> Nat] /\ unregistered' \in [Clusters -> Nat]
           /\ lost' \in 0..MaxLost
<1> DEFINE Goal == /\ UNCHANGED <<users, listener>>
                   /\ queue' \in Queues /\ delayed' \subseteq Items
                   /\ worker' \in [Workers -> Steps] /\ up' \in BOOLEAN
                   /\ deletedClusters' \in [Clusters -> Nat]
                   /\ registered' \in [Clusters -> Nat]
                   /\ unregistered' \in [Clusters -> Nat]
                   /\ lost' \in 0..MaxLost
<1>0. /\ worker[w] \in Steps
      /\ worker[w].step # "idle" => /\ worker[w].item \in Items
                                    /\ worker[w].item.key \in Clusters
      /\ worker[w].step = "send" => worker[w].version \in Nat
  BY StepShape, StepKinds DEF Shapes
<1>t. /\ queue \in Queues /\ delayed \subseteq Items
      /\ worker \in [Workers -> Steps] /\ up \in BOOLEAN
      /\ deletedClusters \in [Clusters -> Nat] /\ store \in [Clusters -> Nat]
      /\ registered \in [Clusters -> Nat] /\ unregistered \in [Clusters -> Nat]
      /\ lost \in 0..MaxLost
  BY DEF Shapes, CollectorShapes
<1>1. ASSUME Take(w), UNCHANGED collector PROVE Goal
  <2>1. WQ!Next(queue) \in Items /\ WQ!Get(queue) \in Queues
    BY <1>1, <1>t, QueueOps DEF Take
  <2>2. [step |-> "sync", item |-> WQ!Next(queue)] \in Steps
    BY <2>1, StepKinds
  <2>. QED
    BY <1>1, <1>t, <2>1, <2>2 DEF Take, collector
<1>2. ASSUME CheckAgain(w), UNCHANGED collector PROVE Goal
  <2>1. CASE FinishItem(w) /\ UNCHANGED up
    BY <1>2, <1>t, <2>1, FinishShape DEF CheckAgain, collector
  <2>2. CASE up' = FALSE /\ UNCHANGED <<queue, worker>>
    BY <1>2, <1>t, <2>2 DEF CheckAgain, collector
  <2>. QED
    BY <1>2, <2>1, <2>2 DEF CheckAgain
<1>3. ASSUME worker[w].step = "sync", Failed(w),
             UNCHANGED <<users, listener, deletedClusters, up, collector>>
      PROVE  Goal
  BY <1>3, <1>t, FailedShape DEF collector
<1>4. ASSUME worker[w].step = "sync", NEW v \in Nat, Call(w, v),
             UNCHANGED <<users, listener, deletedClusters, up, collector>>
      PROVE  Goal
  <2>1. [step |-> "send", item |-> worker[w].item, version |-> v] \in Steps
    BY <1>0, <1>4, StepKinds
  <2>2. worker' = [worker EXCEPT ![w] =
                      [step |-> "send", item |-> worker[w].item, version |-> v]]
    BY <1>4 DEF Call
  <2>. QED
    BY <1>4, <1>t, <2>1, <2>2 DEF Call, collector, workqueue
<1>5. CASE ReadCreated(w)
  BY <1>0, <1>3, <1>4, <1>5, <1>t DEF ReadCreated
<1>6. CASE ReadDeleted(w)
  BY <1>0, <1>3, <1>4, <1>6, <1>t DEF ReadDeleted
<1>7. ASSUME worker[w].step = "sync", worker' = [worker EXCEPT ![w].step = "check"],
             UNCHANGED <<users, listener, deletedClusters, up, collector, workqueue>>
      PROVE  Goal
  <2>1. worker[w] = [step |-> "sync", item |-> worker[w].item]
    BY <1>0, <1>7, StepShape
  <2>2. [worker[w] EXCEPT !.step = "check"] = [step |-> "check", item |-> worker[w].item]
    BY <2>1
  <2>3. worker' = [worker EXCEPT ![w] = [step |-> "check", item |-> worker[w].item]]
    BY <1>7, <2>2
  <2>4. [step |-> "check", item |-> worker[w].item] \in Steps
    BY <1>0, <1>7, StepKinds
  <2>. QED
    BY <1>7, <1>t, <2>3, <2>4 DEF collector, workqueue
<1>8. CASE ReadUpdated(w)
  BY <1>3, <1>7, <1>8 DEF ReadUpdated
<1>9. ASSUME NEW c \in Clusters, NEW v \in Nat, NEW p \in BOOLEAN, Receives(c, v, p)
      PROVE  /\ registered' \in [Clusters -> Nat] /\ unregistered' \in [Clusters -> Nat]
             /\ lost' \in 0..MaxLost
  BY <1>9, <1>t, LostAssumption DEF Receives
<1>10. CASE SendCreated(w)
  <2>1. [step |-> "check", item |-> worker[w].item] \in Steps
    BY <1>0, <1>10, StepKinds DEF SendCreated
  <2>2. worker' \in [Workers -> Steps]
    BY <1>10, <1>t, <2>1 DEF SendCreated
  <2>3. /\ registered' \in [Clusters -> Nat] /\ unregistered' \in [Clusters -> Nat]
        /\ lost' \in 0..MaxLost
    BY <1>0, <1>9, <1>10 DEF SendCreated
  <2>. QED
    BY <1>10, <1>t, <2>2, <2>3 DEF SendCreated, workqueue
<1>11. CASE SendDeleted(w)
  <2>1. queue' \in Queues /\ worker' \in [Workers -> Steps]
    BY <1>11, FinishShape DEF SendDeleted
  <2>2. /\ registered' \in [Clusters -> Nat] /\ unregistered' \in [Clusters -> Nat]
        /\ lost' \in 0..MaxLost
    BY <1>0, <1>9, <1>11 DEF SendDeleted
  <2>3. deletedClusters' \in [Clusters -> Nat]
    BY <1>0, <1>11, <1>t DEF SendDeleted
  <2>. QED
    BY <1>11, <1>t, <2>1, <2>2, <2>3 DEF SendDeleted
<1>. QED
  BY <1>1, <1>2, <1>5, <1>6, <1>8, <1>10, <1>11 DEF Worker

(* The shapes are kept.                                                    *)
LEMMA ShapesStep ==
    ASSUME Shapes, CollectorShapes, [Next]_vars
    PROVE  Shapes' /\ CollectorShapes'
<1>1. CASE Users /\ UNCHANGED collector
  <2>1. PICK c \in Clusters, v \in Nat : Change(c, v)
    BY <1>1, UsersChange
  <2>2. /\ store' \in [Clusters -> Nat] /\ lastVersion' \in [Clusters -> Nat]
        /\ notes' \in Seq(Notes)
    BY <2>1, ChangeShape
  <2>3. /\ UNCHANGED <<pending, workqueue, deletedClusters, worker, up>>
        /\ creates' \in [Clusters -> Nat] /\ updates' \in [Clusters -> Nat]
        /\ deletes' \in [Clusters -> Nat]
    BY <1>1, UsersChange
  <2>. QED
    BY <1>1, <2>2, <2>3 DEF Shapes, CollectorShapes, collector, workqueue
<1>2. CASE Listener /\ UNCHANGED collector
  BY <1>2, ListenerShape DEF Shapes, CollectorShapes, collector, users
<1>3. CASE Retry /\ UNCHANGED collector
  <2>1. queue' \in Queues /\ delayed' \subseteq Items
    BY <1>3, QueueOps DEF Retry, Shapes
  <2>. QED
    BY <1>3, <2>1 DEF Shapes, CollectorShapes, Retry, collector, users, listener
<1>4. ASSUME NEW w \in Workers, Worker(w) PROVE Shapes' /\ CollectorShapes'
  BY <1>4, WorkerShape DEF Shapes, CollectorShapes, users, listener
<1>5. CASE UNCHANGED vars
  BY <1>5 DEF Shapes, CollectorShapes, vars, eventVars, users, listener, workqueue, collector
<1>. QED
  BY <1>1, <1>2, <1>3, <1>4, <1>5 DEF Next
-----------------------------------------------------------------------------
(* What is gone stays gone: a name's versions only grow.                   *)
LEMMA GoneStays ==
    ASSUME Shapes, Users, \A c \in Clusters : store[c] <= lastVersion[c],
           NEW d \in Clusters
    PROVE  /\ store'[d] <= lastVersion'[d]
           /\ \A v \in Nat : Gone(d, v) => Gone(d, v)'
<1>1. PICK c \in Clusters, v \in Nat :
          /\ Change(c, v)
          /\ v = 0 \/ v = store[c] \/ v = lastVersion[c] + 1
  BY UsersChange
<1>2. /\ store'[c] = v
      /\ lastVersion'[c] = IF v > lastVersion[c] THEN v ELSE lastVersion[c]
      /\ \A e \in Clusters \ {c} : store'[e] = store[e] /\ lastVersion'[e] = lastVersion[e]
  BY <1>1, ChangeShape
<1>3. /\ store[c] \in Nat /\ lastVersion[c] \in Nat
      /\ store[d] \in Nat /\ lastVersion[d] \in Nat
  BY DEF Shapes
<1>4. CASE d = c
  BY <1>1, <1>2, <1>3, <1>4 DEF Gone
<1>5. CASE d # c
  BY <1>2, <1>3, <1>5 DEF Gone
<1>. QED
  BY <1>4, <1>5

(* A notification and the types of what it is about.                       *)
LEMMA NoteTypes ==
    ASSUME Shapes, NEW i \in DOMAIN notes
    PROVE  notes[i].name \in Clusters /\ notes[i].old \in Nat
<1>1. notes \in Seq(Notes)
  BY DEF Shapes
<1>2. notes[i] \in Notes
  BY <1>1, ElementOfSeq
<1>. QED
  BY <1>2 DEF Notes

(* A change of a cluster leaves everything that waits deleted, and the     *)
(* notification of a deletion is about a version that is gone.             *)
LEMMA UsersDeleted ==
    ASSUME Shapes, CollectorShapes, Deleted, Users, UNCHANGED collector
    PROVE  Deleted'
<1> DEFINE GoneThen(c, v) == v <= lastVersion'[c] /\ (store'[c] # 0 => v < store'[c])
<1>1. /\ \A c \in Clusters : store'[c] <= lastVersion'[c]
      /\ \A c \in Clusters : \A v \in Nat : Gone(c, v) => GoneThen(c, v)
  BY GoneStays DEF Deleted, Gone
<1>2. UNCHANGED <<pending, deletedClusters, worker, unregistered>>
  BY UsersChange DEF collector
<1>3. PICK c \in Clusters, v \in Nat : Change(c, v)
  BY UsersChange
<1>4. /\ DOMAIN notes' = 1..(Len(notes) + 1)
      /\ \A i \in DOMAIN notes : notes'[i] = notes[i]
      /\ notes'[Len(notes) + 1] = [name |-> c, old |-> store[c], new |-> v]
      /\ store'[c] = v
      /\ lastVersion'[c] = IF v > lastVersion[c] THEN v ELSE lastVersion[c]
  BY <1>3, ChangeShape
<1>5. DOMAIN notes = 1..Len(notes) /\ Len(notes) \in Nat
  BY DEF Shapes
<1>6. ASSUME NEW i \in DOMAIN notes', notes'[i].new = 0
      PROVE  GoneThen(notes'[i].name, notes'[i].old)
  <2>1. CASE i \in DOMAIN notes
    BY <1>1, <1>4, <1>6, <2>1, NoteTypes DEF Deleted
  <2>2. CASE i = Len(notes) + 1
    <3>1. notes'[i].name = c /\ notes'[i].old = store[c] /\ v = 0
      BY <1>4, <1>6, <2>2
    <3>2. store[c] \in Nat /\ lastVersion[c] \in Nat /\ store[c] <= lastVersion[c]
      BY DEF Shapes, Deleted
    <3>3. GoneThen(c, store[c])
      BY <1>4, <3>1, <3>2 DEF Gone
    <3>. QED
      BY <3>1, <3>3
  <2>. QED
    BY <1>4, <1>5, <2>1, <2>2
<1>7. pending' # NoDeletion => GoneThen(pending'.name, pending'.version)
  <2>1. ASSUME pending # NoDeletion
        PROVE  pending.name \in Clusters /\ pending.version \in Nat
    BY <2>1 DEF Shapes
  <2>. QED
    BY <1>1, <1>2, <2>1 DEF Deleted
<1>8. \A d \in Clusters : GoneThen(d, deletedClusters'[d]) /\ GoneThen(d, unregistered'[d])
  BY <1>1, <1>2 DEF Deleted, Shapes, CollectorShapes
<1>9. ASSUME NEW w \in Workers, worker'[w].step = "send",
             worker'[w].item.event = "delete"
      PROVE  GoneThen(worker'[w].item.key, worker'[w].version)
  <2>1. worker[w].item.key \in Clusters /\ worker[w].version \in Nat
    BY <1>2, <1>9, StepShape, StepKinds DEF Shapes
  <2>. QED
    BY <1>1, <1>2, <1>9, <2>1 DEF Deleted
<1>. QED
  BY <1>1, <1>6, <1>7, <1>8, <1>9 DEF Deleted, Gone

(* The listener passes the deleted version on to the map.                  *)
LEMMA ListenerDeleted ==
    ASSUME Shapes, CollectorShapes, Deleted, Listener, UNCHANGED collector
    PROVE  Deleted'
<1>1. UNCHANGED <<store, lastVersion, worker, unregistered>>
  BY ListenerShape DEF collector, users
<1>2. ASSUME NEW c, NEW v, Gone(c, v) PROVE Gone(c, v)'
  BY <1>1, <1>2 DEF Gone
<1>3. ASSUME NEW i \in DOMAIN notes', notes'[i].new = 0
      PROVE  Gone(notes'[i].name, notes'[i].old)
  <2>1. CASE UNCHANGED notes
    BY <1>3, <2>1 DEF Deleted
  <2>2. CASE notes # <<>> /\ notes' = Tail(notes)
    BY <1>3, <2>2, NotesLeft DEF Deleted
  <2>. QED
    BY <2>1, <2>2
       DEF Listener, addCluster, updateCluster, deleteCluster, Notified, SaveDeleted
<1>4. pending' # NoDeletion => Gone(pending'.name, pending'.version)
  <2>1. CASE deleteCluster
    <3>1. notes # <<>> /\ notes' = Tail(notes)
      BY <2>1 DEF deleteCluster, Notified
    <3>2. Head(notes) = notes[1] /\ 1 \in DOMAIN notes
      BY <3>1, NotesLeft
    <3>3. Head(notes).new = 0
      BY <2>1 DEF deleteCluster, Notified
    <3>4. Gone(Head(notes).name, Head(notes).old)
      BY <3>2, <3>3 DEF Deleted
    <3>. QED
      BY <2>1, <3>4 DEF deleteCluster, Deleted
  <2>2. CASE UNCHANGED pending \/ pending' = NoDeletion
    BY <2>2 DEF Deleted
  <2>. QED
    BY <2>1, <2>2 DEF Listener, addCluster, updateCluster, SaveDeleted
<1>5. ASSUME NEW c \in Clusters PROVE Gone(c, deletedClusters'[c])
  <2>1. CASE SaveDeleted
    <3>1. pending \in [name : Clusters, version : Nat]
      BY <2>1 DEF SaveDeleted, Shapes
    <3>. QED
      BY <2>1, <3>1 DEF SaveDeleted, Deleted, Shapes
  <2>2. CASE UNCHANGED deletedClusters
    BY <2>2 DEF Deleted
  <2>. QED
    BY <2>1, <2>2 DEF Listener, addCluster, updateCluster, deleteCluster, Notified
<1>. QED
  BY <1>1, <1>2, <1>3, <1>4, <1>5 DEF Deleted

(* A worker reads a deleted version from the map and reports that.         *)
LEMMA WorkerDeleted ==
    ASSUME Shapes, CollectorShapes, Deleted, NEW w \in Workers, Worker(w)
    PROVE  Deleted'
<1>1. UNCHANGED <<store, lastVersion, notes, pending>>
  BY WorkerShape DEF users, listener
<1>2. ASSUME NEW c, NEW v, Gone(c, v) PROVE Gone(c, v)'
  BY <1>1, <1>2 DEF Gone
<1>0. /\ worker \in [Workers -> Steps] /\ deletedClusters \in [Clusters -> Nat]
      /\ unregistered \in [Clusters -> Nat] /\ registered \in [Clusters -> Nat]
      /\ worker[w].step # "idle" => /\ worker[w].item \in Items
                                    /\ worker[w].item.key \in Clusters
      /\ worker[w].step = "send" => worker[w].version \in Nat
  BY StepShape, StepKinds DEF Shapes, CollectorShapes
<1>z. ASSUME NEW c \in Clusters PROVE Gone(c, 0)
  BY DEF Gone, Shapes
<1> DEFINE Sent(x) == x.step = "send" /\ x.item.event = "delete"
                         => Gone(x.item.key, x.version)
<1>3. ASSUME Sent(worker'[w]), \A x \in Workers \ {w} : worker'[x] = worker[x],
             \A c \in Clusters : Gone(c, deletedClusters'[c]),
             \A c \in Clusters : Gone(c, unregistered'[c])
      PROVE  Deleted'
  <2>1. \A x \in Workers : Sent(worker'[x])
    BY <1>3 DEF Deleted
  <2>. QED
    BY <1>1, <1>2, <1>3, <2>1 DEF Deleted
<1>s. Idle.step # "send"
  BY DEF Idle
<1>4. ASSUME UNCHANGED <<deletedClusters, unregistered>>,
             \/ worker' = [worker EXCEPT ![w] = Idle]
             \/ UNCHANGED worker
             \/ \E item : worker' = [worker EXCEPT ![w] = [step |-> "sync", item |-> item]]
             \/ \E item : worker' = [worker EXCEPT ![w] = [step |-> "check", item |-> item]]
      PROVE  Deleted'
  <2>1. worker'[w].step # "send" \/ worker'[w] = worker[w]
    BY <1>0, <1>4, <1>s
  <2>2. \A x \in Workers \ {w} : worker'[x] = worker[x]
    BY <1>0, <1>4
  <2>3. Sent(worker'[w])
    BY <2>1 DEF Deleted
  <2>. QED
    BY <1>3, <1>4, <2>2, <2>3 DEF Deleted
<1>5. ASSUME (Take(w) \/ CheckAgain(w)) /\ UNCHANGED collector PROVE Deleted'
  BY <1>4, <1>5 DEF Take, CheckAgain, FinishItem, collector
<1>c. ASSUME worker[w].step = "sync", worker' = [worker EXCEPT ![w].step = "check"]
      PROVE  worker' = [worker EXCEPT ![w] = [step |-> "check", item |-> worker[w].item]]
  <2>1. worker[w] = [step |-> "sync", item |-> worker[w].item]
    BY <1>0, <1>c, StepShape
  <2>2. [worker[w] EXCEPT !.step = "check"] = [step |-> "check", item |-> worker[w].item]
    BY <2>1
  <2>. QED
    BY <1>c, <2>2
<1>6. ASSUME worker[w].step = "sync", Failed(w), UNCHANGED <<deletedClusters, collector>>
      PROVE  Deleted'
  BY <1>4, <1>6, <1>c DEF Failed, FinishItem, collector
<1>7. ASSUME worker[w].item.event # "delete", NEW v, Call(w, v),
             UNCHANGED <<deletedClusters, collector>>
      PROVE  Deleted'
  <2>1. worker' = [worker EXCEPT ![w] =
                      [step |-> "send", item |-> worker[w].item, version |-> v]]
    BY <1>7 DEF Call
  <2>2. /\ worker'[w].item = worker[w].item
        /\ \A x \in Workers \ {w} : worker'[x] = worker[x]
    BY <1>0, <2>1
  <2>. QED
    BY <1>3, <1>7, <2>2 DEF Deleted, collector
<1>8. ASSUME ReadCreated(w) \/ ReadUpdated(w) PROVE Deleted'
  <2>1. CASE ReadCreated(w)
    BY <1>6, <1>7, <2>1 DEF ReadCreated
  <2>2. CASE ReadUpdated(w)
    BY <1>4, <1>6, <1>c, <2>2 DEF ReadUpdated, collector
  <2>. QED
    BY <1>8, <2>1, <2>2
<1>9. ASSUME ReadDeleted(w) PROVE Deleted'
  <2> DEFINE c == worker[w].item.key
  <2>1. c \in Clusters /\ worker[w].step = "sync"
    BY <1>0, <1>9 DEF ReadDeleted
  <2>2. CASE Failed(w)
    BY <1>6, <1>9, <2>2 DEF ReadDeleted
  <2>3. CASE Call(w, deletedClusters[c])
    <3>1. worker' = [worker EXCEPT ![w] = [step |-> "send", item |-> worker[w].item,
                                           version |-> deletedClusters[c]]]
      BY <2>3 DEF Call
    <3>2. /\ worker'[w].item = worker[w].item /\ worker'[w].version = deletedClusters[c]
          /\ \A x \in Workers \ {w} : worker'[x] = worker[x]
      BY <1>0, <3>1
    <3>3. Sent(worker'[w])
      BY <2>1, <3>2 DEF Deleted
    <3>. QED
      BY <1>3, <1>9, <3>2, <3>3 DEF Deleted, collector, ReadDeleted
  <2>. QED
    BY <1>9, <2>2, <2>3 DEF ReadDeleted
<1>10. ASSUME SendCreated(w) PROVE Deleted'
  <2>1. UNCHANGED <<deletedClusters, unregistered>>
    BY <1>0, <1>10 DEF SendCreated, Receives
  <2>. QED
    BY <1>4, <1>10, <2>1 DEF SendCreated
<1>11. ASSUME SendDeleted(w) PROVE Deleted'
  <2> DEFINE c == worker[w].item.key
  <2>1. c \in Clusters /\ Gone(c, worker[w].version)
    BY <1>0, <1>11 DEF SendDeleted, Deleted
  <2>2. /\ worker' = [worker EXCEPT ![w] = Idle]
        /\ deletedClusters' = [deletedClusters EXCEPT ![c] = 0]
    BY <1>11 DEF SendDeleted, FinishItem
  <2>3. \/ unregistered' = [unregistered EXCEPT ![c] = worker[w].version]
        \/ UNCHANGED unregistered
    BY <1>11 DEF SendDeleted, Receives
  <2>4. \A d \in Clusters : Gone(d, unregistered'[d])
    BY <1>0, <2>1, <2>3 DEF Deleted
  <2>5. \A d \in Clusters : Gone(d, deletedClusters'[d])
    BY <1>0, <1>z, <2>1, <2>2 DEF Deleted
  <2>6. worker'[w].step # "send" /\ \A x \in Workers \ {w} : worker'[x] = worker[x]
    BY <1>0, <1>s, <2>2
  <2>. QED
    BY <1>3, <2>4, <2>5, <2>6
<1>. QED
  BY <1>5, <1>8, <1>9, <1>10, <1>11 DEF Worker

(* The collector is told to forget only versions that were deleted: what   *)
(* the listener, the map and the workers hand on is never the version that *)
(* exists, although the map has one entry for all versions of a name and   *)
(* any worker may clear it.                                                *)
THEOREM OnlyDeletedReported == Spec => []CollectorInv
<1>1. Init => Shapes /\ CollectorShapes /\ Deleted
  <2> SUFFICES ASSUME Init PROVE Shapes /\ CollectorShapes /\ Deleted
    OBVIOUS
  <2>1. /\ store = [c \in Clusters |-> 0] /\ store \in [Clusters -> Nat]
        /\ lastVersion = store /\ deletedClusters = store /\ unregistered = store
        /\ registered = store /\ creates = store /\ updates = store
        /\ deletes = store /\ lost = 0
    BY DEF Init, EventsInit
  <2>2. /\ notes = <<>> /\ pending = NoDeletion /\ up = TRUE /\ delayed = {}
        /\ worker = [w \in Workers |-> Idle] /\ queue = WQ!Empty
    BY DEF Init, EventsInit
  <2>3. WQ!Empty \in Queues
    BY DEF Queues, WQ!Empty
  <2>4. Shapes
    <3>1. worker \in [Workers -> Steps]
      BY <2>2 DEF Steps
    <3>. QED
      BY <2>1, <2>2, <2>3, <3>1 DEF Shapes
  <2>5. Deleted
    <3>1. Idle.step # "send"
      BY DEF Idle
    <3>. QED
      BY <2>1, <2>2, <3>1 DEF Deleted, Gone
  <2>6. CollectorShapes
    BY <2>1, LostAssumption DEF CollectorShapes
  <2>. QED
    BY <2>4, <2>5, <2>6
<1>2. (Shapes /\ CollectorShapes /\ Deleted) /\ [Next]_vars => (Shapes /\ CollectorShapes /\ Deleted)'
  <2> SUFFICES ASSUME Shapes, CollectorShapes, Deleted, [Next]_vars PROVE Deleted'
    BY ShapesStep
  <2>1. CASE Retry /\ UNCHANGED collector
    BY <2>1 DEF Retry, collector, users, listener, Deleted, Gone
  <2>2. CASE UNCHANGED vars
    BY <2>2 DEF vars, eventVars, collector, users, listener, Deleted, Gone
  <2>. QED
    BY <2>1, <2>2, UsersDeleted, ListenerDeleted, WorkerDeleted DEF Next
<1>3. Shapes /\ CollectorShapes /\ Deleted => CollectorInv
  <2> SUFFICES ASSUME Shapes, CollectorShapes, Deleted PROVE CollectorInv
    OBVIOUS
  <2>1. OnlyDeletedUnregistered
    BY DEF Deleted, Gone, OnlyDeletedUnregistered
  <2>2. \A w \in Workers : worker[w].step # "idle" => worker[w].item \in Items
    BY StepShape DEF Shapes
  <2>3. /\ queue.queue \in Seq(Items)
        /\ queue.dirty \subseteq Items /\ queue.processing \subseteq Items
    BY DEF Shapes, Queues
  <2>. QED
    BY <2>1, <2>2, <2>3 DEF CollectorInv, TypeOK, EventsTypeOK, Shapes, CollectorShapes,
                            Notes
<1>. QED
  BY <1>1, <1>2, <1>3, PTL DEF Spec
-----------------------------------------------------------------------------
(* The cluster worker of a scheduler.                                      *)

SiteShapes == siteMap \in [Sites -> {NoSite} \cup [cluster : Clusters, version : Nat \ {0}]]

(* The event the listener queues for a notification: none for an update    *)
(* that leaves the spec.                                                   *)
EventOf(n) == IF n.old = 0 THEN "create" ELSE IF n.new = 0 THEN "delete"
              ELSE IF n.old # n.new THEN "update" ELSE "none"
Asks(n, item) == n.name = item.key /\ EventOf(n) = item.event

InQueue(q, item) == \E k \in DOMAIN q.queue : q.queue[k] = item
Known(q, item) == item \in q.dirty \/ item \in q.processing \/ InQueue(q, item)

(* The listener has queued the item before.                                *)
Used(item) ==
    \/ Known(queue, item) \/ item \in delayed
    \/ \E w \in Workers : worker[w].step # "idle" /\ worker[w].item = item

(* How often the users made the change that the item is about.             *)
Times(item) == IF item.event = "create" THEN creates[item.key]
               ELSE IF item.event = "update" THEN updates[item.key]
               ELSE deletes[item.key]

(* Versions of a name are counted, and none that waits is beyond the last. *)
VersionsCounted ==
    /\ \A c \in Clusters :
           /\ store[c] <= lastVersion[c] /\ lastVersion[c] = creates[c] + updates[c]
           /\ creates[c] <= MaxCreate /\ updates[c] <= MaxUpdate
           /\ creates[c] # 0 /\ deletes[c] = 0 => store[c] # 0
           /\ deletedClusters[c] <= lastVersion[c]
    /\ \A i \in DOMAIN notes : /\ notes[i].old <= lastVersion[notes[i].name]
                               /\ notes[i].old # 0 \/ notes[i].new # 0
    /\ pending # NoDeletion => pending.version <= lastVersion[pending.name]

(* Done with a key leaves the item in processing, so an item that was used *)
(* once is not queued again.  A change that was made once is still to be   *)
(* notified or has used its item, not both.                                *)
OnceInv ==
    \A item \in Items :
        /\ Times(item) = 0 => /\ ~Used(item)
                              /\ \A i \in DOMAIN notes : ~Asks(notes[i], item)
        /\ Times(item) = 1 /\ Used(item) => \A i \in DOMAIN notes : ~Asks(notes[i], item)
        /\ Times(item) = 1 => \A i, j \in DOMAIN notes :
               Asks(notes[i], item) /\ Asks(notes[j], item) => i = j

Fresh(c) == creates[c] = 1 /\ updates[c] <= 1 /\ deletes[c] = 0

(* The worker will handle an item of the cluster and read its spec then.   *)
Coming(c) ==
    \E item \in Items :
        /\ item.key = c /\ item.event # "delete"
        /\ \/ \E i \in DOMAIN notes : Asks(notes[i], item)
           \/ InQueue(queue, item)
           \/ \E w \in Workers : worker[w].step = "sync" /\ worker[w].item = item

Kept(c) == Shown(c) \/ TakenOver(c)

ShownInv == \A c \in Clusters : Fresh(c) => Kept(c) \/ Coming(c)

SitesInv == Shapes /\ SiteShapes /\ VersionsCounted /\ OnceInv /\ ShownInv
-----------------------------------------------------------------------------
(* What the operations of the queue do to the items in it.                 *)
LEMMA QueueItems ==
    ASSUME NEW q \in Queues, NEW item \in Items
    PROVE  /\ \A x \in Items :
                  /\ Known(WQ!Add(q, x), item) => Known(q, item) \/ item = x
                  /\ InQueue(q, item) => InQueue(WQ!Add(q, x), item)
                  /\ item = x /\ ~Known(q, x) => InQueue(WQ!Add(q, x), item)
           /\ q.queue # <<>> =>
                  /\ Known(WQ!Get(q), item) => Known(q, item)
                  /\ InQueue(q, item) => InQueue(WQ!Get(q), item) \/ item = WQ!Next(q)
                  /\ item = WQ!Next(q) => Known(q, item)
           /\ \A key : /\ Known(WQ!Done(q, key), item) => Known(q, item)
                       /\ InQueue(q, item) => InQueue(WQ!Done(q, key), item)
<1> DEFINE I == Items
           s == q.queue
<1>0. s \in Seq(I) /\ q = [queue |-> s, dirty |-> q.dirty, processing |-> q.processing]
  BY DEF Queues
<1>1. DOMAIN s = 1..Len(s) /\ Len(s) \in Nat
  BY <1>0
<1> HIDE DEF I
<1>A. ASSUME NEW x
      PROVE  /\ \A k \in DOMAIN s : k \in DOMAIN Append(s, x) /\ Append(s, x)[k] = s[k]
             /\ \A k \in DOMAIN Append(s, x) :
                    (k \in DOMAIN s /\ Append(s, x)[k] = s[k]) \/ Append(s, x)[k] = x
             /\ \E k \in DOMAIN Append(s, x) : Append(s, x)[k] = x
  <2>1. /\ DOMAIN Append(s, x) = 1..(Len(s) + 1)
        /\ \A k \in 1..Len(s) : Append(s, x)[k] = s[k]
        /\ Append(s, x)[Len(s) + 1] = x
    BY <1>0, <1>1
  <2>. QED
    BY <1>1, <2>1
<1> HIDE DEF s
<1>2. ASSUME NEW x \in Items
      PROVE  /\ Known(WQ!Add(q, x), item) => Known(q, item) \/ item = x
             /\ InQueue(q, item) => InQueue(WQ!Add(q, x), item)
             /\ item = x /\ ~Known(q, x) => InQueue(WQ!Add(q, x), item)
  <2>1. CASE x \in q.dirty
    BY <2>1 DEF WQ!Add, Known
  <2>2. CASE x \notin q.dirty
    <3>1. /\ WQ!Add(q, x).dirty = q.dirty \cup {x}
          /\ WQ!Add(q, x).processing = q.processing
          /\ WQ!Add(q, x).queue = IF x \in q.processing THEN s ELSE Append(s, x)
      BY <1>0, <2>2 DEF WQ!Add, s
    <3>2. InQueue(q, item) => InQueue(WQ!Add(q, x), item)
      BY <1>A, <3>1 DEF InQueue, s
    <3>3. InQueue(WQ!Add(q, x), item) => InQueue(q, item) \/ item = x
      BY <1>A, <3>1 DEF InQueue, s
    <3>4. x \notin q.processing => InQueue(WQ!Add(q, x), x)
      BY <1>A, <3>1 DEF InQueue
    <3>. QED
      BY <3>1, <3>2, <3>3, <3>4 DEF Known
  <2>. QED
    BY <2>1, <2>2
<1>3. ASSUME s # <<>>
      PROVE  /\ Known(WQ!Get(q), item) => Known(q, item)
             /\ InQueue(q, item) => InQueue(WQ!Get(q), item) \/ item = WQ!Next(q)
             /\ item = WQ!Next(q) => Known(q, item)
  <2>1. /\ WQ!Get(q).queue = Tail(s) /\ WQ!Next(q) = Head(s)
        /\ WQ!Get(q).dirty = q.dirty \ {Head(s)}
        /\ WQ!Get(q).processing = q.processing \cup {Head(s)}
    BY DEF WQ!Get, WQ!Next, s
  <2>2. /\ Head(s) = s[1] /\ 1 \in DOMAIN s
        /\ DOMAIN Tail(s) = 1..(Len(s) - 1)
        /\ \A k \in 1..(Len(s) - 1) : Tail(s)[k] = s[k + 1]
    BY <1>0, <1>1, <1>3
  <2>3. /\ \A k \in 1..(Len(s) - 1) : k + 1 \in DOMAIN s
        /\ \A k \in DOMAIN s : k # 1 => k - 1 \in 1..(Len(s) - 1) /\ (k - 1) + 1 = k
    BY <1>1
  <2>4. InQueue(q, Head(s))
    BY <2>2 DEF InQueue, s
  <2>5. InQueue(WQ!Get(q), item) => InQueue(q, item)
    BY <2>1, <2>2, <2>3 DEF InQueue, s
  <2>6. InQueue(q, item) => InQueue(WQ!Get(q), item) \/ item = Head(s)
    <3>1. ASSUME NEW k \in DOMAIN s, s[k] = item, k # 1 PROVE InQueue(WQ!Get(q), item)
      <4>1. k - 1 \in DOMAIN Tail(s) /\ Tail(s)[k - 1] = item
        BY <2>2, <2>3, <3>1
      <4>. QED
        BY <2>1, <4>1 DEF InQueue
    <3>. QED
      BY <2>2, <3>1 DEF InQueue, s
  <2>. QED
    BY <2>1, <2>4, <2>5, <2>6 DEF Known
<1>4. ASSUME NEW key
      PROVE  /\ Known(WQ!Done(q, key), item) => Known(q, item)
             /\ InQueue(q, item) => InQueue(WQ!Done(q, key), item)
  <2>1. /\ WQ!Done(q, key).dirty = q.dirty
        /\ WQ!Done(q, key).processing = q.processing \ {key}
        /\ WQ!Done(q, key).queue = IF key \in q.dirty THEN Append(s, key) ELSE s
    BY <1>0 DEF WQ!Done, s
  <2>. QED
    BY <1>A, <2>1 DEF Known, InQueue, s
<1>. QED
  BY <1>2, <1>3, <1>4 DEF s

(* What the users' changes ask for: each is counted once and asks for the  *)
(* item it is counted for.                                                 *)
LEMMA UsersAsk ==
    ASSUME Shapes, VersionsCounted, Users
    PROVE  \E c \in Clusters, v \in Nat :
             /\ Change(c, v)
             /\ \A d \in Clusters : d # c => /\ creates'[d] = creates[d]
                                             /\ updates'[d] = updates[d]
                                             /\ deletes'[d] = deletes[d]
             /\ \A item \in Items :
                    Times(item)' = IF Asks([name |-> c, old |-> store[c], new |-> v], item)
                                   THEN Times(item) + 1 ELSE Times(item)
             /\ creates'[c] <= MaxCreate /\ updates'[c] <= MaxUpdate
             /\ \/ /\ v = lastVersion[c] + 1 /\ deletes'[c] = deletes[c]
                   /\ creates'[c] + updates'[c] = creates[c] + updates[c] + 1
                \/ v = store[c] /\ v # 0 /\ UNCHANGED <<creates, updates, deletes>>
                \/ v = 0 /\ store[c] # 0 /\ deletes'[c] # 0 /\ UNCHANGED <<creates, updates>>
<1> DEFINE
      Asked(c, v) == \A item \in Items :
          Times(item)' = IF Asks([name |-> c, old |-> store[c], new |-> v], item)
                         THEN Times(item) + 1 ELSE Times(item)
      Counted(c, v) ==
             /\ Change(c, v)
             /\ \A d \in Clusters : d # c => /\ creates'[d] = creates[d]
                                             /\ updates'[d] = updates[d]
                                             /\ deletes'[d] = deletes[d]
             /\ creates'[c] <= MaxCreate /\ updates'[c] <= MaxUpdate
             /\ \/ /\ v = lastVersion[c] + 1 /\ deletes'[c] = deletes[c]
                   /\ creates'[c] + updates'[c] = creates[c] + updates[c] + 1
                \/ v = store[c] /\ v # 0 /\ UNCHANGED <<creates, updates, deletes>>
                \/ v = 0 /\ store[c] # 0 /\ deletes'[c] # 0 /\ UNCHANGED <<creates, updates>>
<1> SUFFICES \E c \in Clusters, v \in Nat : Asked(c, v) /\ Counted(c, v)
  OBVIOUS
<1>1. PICK c \in Clusters : CreateCluster(c) \/ UpdateCluster(c) \/ RemoveCluster(c)
  BY DEF Users
<1>0. /\ creates \in [Clusters -> Nat] /\ updates \in [Clusters -> Nat]
      /\ deletes \in [Clusters -> Nat]
      /\ store[c] \in Nat /\ lastVersion[c] \in Nat /\ store[c] <= lastVersion[c]
      /\ creates[c] <= MaxCreate /\ updates[c] <= MaxUpdate
      /\ MaxCreate \in Nat /\ MaxUpdate \in Nat
  BY EventsAssumption DEF Shapes, VersionsCounted
<1>t. \A item \in Items : item.key \in Clusters /\ item.event \in {"create", "update", "delete"}
  BY DEF Items
<1>2. CASE CreateCluster(c)
  <2>1. /\ Change(c, lastVersion[c] + 1) /\ store[c] = 0 /\ creates[c] < MaxCreate
        /\ creates' = [creates EXCEPT ![c] = creates[c] + 1] /\ UNCHANGED <<updates, deletes>>
    BY <1>2 DEF CreateCluster
  <2>2. PICK v \in Nat : v = lastVersion[c] + 1
    BY <1>0
  <2>3. ASSUME NEW item \in Items
        PROVE  /\ Asks([name |-> c, old |-> store[c], new |-> v], item)
                      <=> item.key = c /\ item.event = "create"
    BY <1>t, <2>1 DEF Asks, EventOf
  <2>4. ASSUME NEW item \in Items
        PROVE  Times(item)' = IF item.key = c /\ item.event = "create"
                              THEN Times(item) + 1 ELSE Times(item)
    BY <1>0, <1>t, <2>1 DEF Times
  <2>5. Asked(c, v)
    BY <2>3, <2>4
  <2>6. Counted(c, v)
    BY <1>0, <2>1, <2>2
  <2> HIDE DEF Asked, Counted
  <2>. QED
    BY <2>5, <2>6
<1>3. CASE RemoveCluster(c)
  <2>1. /\ Change(c, 0) /\ store[c] # 0
        /\ deletes' = [deletes EXCEPT ![c] = deletes[c] + 1] /\ UNCHANGED <<creates, updates>>
    BY <1>3 DEF RemoveCluster
  <2>3. ASSUME NEW item \in Items
        PROVE  /\ Asks([name |-> c, old |-> store[c], new |-> 0], item)
                      <=> item.key = c /\ item.event = "delete"
    BY <1>t, <2>1 DEF Asks, EventOf
  <2>4. ASSUME NEW item \in Items
        PROVE  Times(item)' = IF item.key = c /\ item.event = "delete"
                              THEN Times(item) + 1 ELSE Times(item)
    BY <1>0, <1>t, <2>1 DEF Times
  <2>5. Asked(c, 0)
    BY <2>3, <2>4
  <2>6. Counted(c, 0)
    BY <1>0, <2>1
  <2> HIDE DEF Asked, Counted
  <2>. QED
    BY <2>5, <2>6
<1>4. CASE UpdateCluster(c)
  <2>1. PICK v \in {store[c], lastVersion[c] + 1} :
            /\ updates' = [updates EXCEPT ![c] = IF v = store[c] THEN updates[c]
                                                 ELSE updates[c] + 1]
            /\ Change(c, v)
    BY <1>4 DEF UpdateCluster
  <2>2. /\ store[c] # 0 /\ updates[c] < MaxUpdate /\ UNCHANGED <<creates, deletes>>
        /\ v \in Nat /\ v # 0
    BY <1>0, <1>4, <2>1 DEF UpdateCluster
  <2>3. ASSUME NEW item \in Items
        PROVE  /\ Asks([name |-> c, old |-> store[c], new |-> v], item)
                      <=> v # store[c] /\ item.key = c /\ item.event = "update"
    BY <1>t, <2>2 DEF Asks, EventOf
  <2>4. ASSUME NEW item \in Items
        PROVE  Times(item)' = IF v # store[c] /\ item.key = c /\ item.event = "update"
                              THEN Times(item) + 1 ELSE Times(item)
    BY <1>0, <1>t, <2>1, <2>2 DEF Times
  <2>5. v = store[c] => UNCHANGED updates
    BY <1>0, <2>1
  <2>6. v # store[c] => v = lastVersion[c] + 1 /\ updates'[c] = updates[c] + 1
    BY <1>0, <2>1
  <2>7. Asked(c, v)
    BY <2>3, <2>4
  <2>8. Counted(c, v)
    <3>1. /\ Change(c, v) /\ creates'[c] <= MaxCreate /\ updates'[c] <= MaxUpdate
          /\ \A d \in Clusters : d # c => /\ creates'[d] = creates[d]
                                          /\ updates'[d] = updates[d]
                                          /\ deletes'[d] = deletes[d]
      BY <1>0, <2>1, <2>2
    <3>2. CASE v = store[c]
      BY <2>2, <2>5, <3>1, <3>2
    <3>3. CASE v # store[c]
      <4>1. creates'[c] + updates'[c] = creates[c] + updates[c] + 1
        BY <1>0, <2>2, <2>6, <3>3
      <4>. QED
        BY <2>2, <2>6, <3>1, <3>3, <4>1
    <3>. QED
      BY <3>2, <3>3
  <2> HIDE DEF Asked, Counted
  <2>. QED
    BY <2>2, <2>7, <2>8
<1> HIDE DEF Asked, Counted
<1>. QED
  BY <1>1, <1>2, <1>3, <1>4

LEMMA TimesType ==
    ASSUME Shapes, NEW item \in Items
    PROVE  Times(item) \in Nat /\ item.key \in Clusters
  BY DEF Shapes, Times, Items

(* The changes of users leave the queue alone.                             *)
LEMMA SameUsed ==
    ASSUME UNCHANGED <<workqueue, worker>>, NEW item
    PROVE  Used(item)' <=> Used(item)
  BY DEF workqueue, Used, Known, InQueue

(* While the map stays, so does what it shows of a cluster that is not     *)
(* changed: versions and deletions of the others only get more.            *)
LEMMA KeptStays ==
    ASSUME UNCHANGED siteMap, Shapes, NEW c \in Clusters, store'[c] = store[c],
           \A d \in Clusters : /\ lastVersion'[d] \in Nat /\ lastVersion[d] <= lastVersion'[d]
                               /\ deletes[d] > 0 => deletes'[d] > 0,
           Kept(c)
    PROVE  Kept(c)'
<1>1. CASE Shown(c)
  BY <1>1 DEF Shown, Kept
<1>2. CASE TakenOver(c)
  <2>1. PICK s : s = SiteOf(c, store[c])
    OBVIOUS
  <2>2. PICK d \in Clusters \ {c} :
            /\ \E v \in 1..lastVersion[d] : SiteOf(d, v) = s
            /\ IF siteMap[s] = NoSite THEN deletes[d] > 0 ELSE siteMap[s].cluster = d
    BY <1>2, <2>1 DEF TakenOver
  <2>3. PICK v \in 1..lastVersion[d] : SiteOf(d, v) = s
    BY <2>2
  <2>4. v \in 1..lastVersion'[d]
    <3>0. d \in Clusters
      BY <2>2
    <3>1. lastVersion[d] \in Nat /\ lastVersion'[d] \in Nat /\ lastVersion[d] <= lastVersion'[d]
      BY <3>0 DEF Shapes
    <3>. QED
      BY <2>3, <3>1
  <2>5. IF siteMap'[s] = NoSite THEN deletes'[d] > 0 ELSE siteMap'[s].cluster = d
    <3>1. siteMap'[s] = siteMap[s] /\ d \in Clusters
      BY <2>2
    <3>. QED
      BY <2>2, <3>1
  <2>6. TakenOver(c)'
    BY <2>1, <2>2, <2>3, <2>4, <2>5 DEF TakenOver
  <2>. QED
    BY <2>6 DEF Kept
<1>. QED
  BY <1>1, <1>2 DEF Kept

LEMMA SameKept ==
    ASSUME UNCHANGED <<users, siteMap>>, NEW c
    PROVE  Kept(c)' <=> Kept(c)
  BY DEF users, Kept, Shown, TakenOver

LEMMA UsersSites ==
    ASSUME Shapes, VersionsCounted, OnceInv, ShownInv, Users, UNCHANGED siteMap
    PROVE  VersionsCounted' /\ OnceInv' /\ ShownInv'
<1>1. PICK c \in Clusters, v \in Nat :
         /\ Change(c, v)
         /\ \A d \in Clusters : d # c => /\ creates'[d] = creates[d]
                                         /\ updates'[d] = updates[d]
                                         /\ deletes'[d] = deletes[d]
         /\ \A item \in Items :
                Times(item)' = IF Asks([name |-> c, old |-> store[c], new |-> v], item)
                               THEN Times(item) + 1 ELSE Times(item)
         /\ creates'[c] <= MaxCreate /\ updates'[c] <= MaxUpdate
         /\ \/ /\ v = lastVersion[c] + 1 /\ deletes'[c] = deletes[c]
               /\ creates'[c] + updates'[c] = creates[c] + updates[c] + 1
            \/ v = store[c] /\ v # 0 /\ UNCHANGED <<creates, updates, deletes>>
            \/ v = 0 /\ store[c] # 0 /\ deletes'[c] # 0 /\ UNCHANGED <<creates, updates>>
  BY UsersAsk
<1>2. PICK n : n = [name |-> c, old |-> store[c], new |-> v]
  OBVIOUS
<1>3. /\ store'[c] = v
      /\ lastVersion'[c] = IF v > lastVersion[c] THEN v ELSE lastVersion[c]
      /\ \A d \in Clusters \ {c} : store'[d] = store[d] /\ lastVersion'[d] = lastVersion[d]
      /\ DOMAIN notes' = 1..(Len(notes) + 1)
      /\ \A i \in DOMAIN notes : notes'[i] = notes[i]
      /\ notes'[Len(notes) + 1] = n
  BY <1>1, <1>2, ChangeShape
<1>4. DOMAIN notes = 1..Len(notes) /\ Len(notes) \in Nat
  BY DEF Shapes
<1>5. /\ \A i \in DOMAIN notes' : i \in DOMAIN notes \/ i = Len(notes) + 1
      /\ \A i \in DOMAIN notes : i \in DOMAIN notes' /\ i # Len(notes) + 1
      /\ Len(notes) + 1 \in DOMAIN notes'
  BY <1>3, <1>4
<1>6. UNCHANGED <<pending, queue, delayed, worker, deletedClusters>>
  BY <1>1 DEF Change, workqueue
<1>7. \A item \in Items : Used(item)' <=> Used(item)
  BY <1>6, SameUsed DEF workqueue
<1>8. /\ \A d \in Clusters : store[d] \in Nat /\ lastVersion[d] \in Nat
      /\ \A d \in Clusters : creates[d] \in Nat /\ updates[d] \in Nat /\ deletes[d] \in Nat
      /\ \A d \in Clusters : deletedClusters[d] \in Nat
  BY DEF Shapes
<1>9. VersionsCounted'
  <2>1. \A d \in Clusters : lastVersion'[d] \in Nat /\ lastVersion[d] <= lastVersion'[d]
    BY <1>3, <1>8
  <2>2. ASSUME NEW d \in Clusters
        PROVE  /\ store'[d] <= lastVersion'[d] /\ lastVersion'[d] = creates'[d] + updates'[d]
               /\ creates'[d] <= MaxCreate /\ updates'[d] <= MaxUpdate
               /\ creates'[d] # 0 /\ deletes'[d] = 0 => store'[d] # 0
    <3>1. CASE d # c
      BY <1>1, <1>3, <3>1 DEF VersionsCounted
    <3>2. CASE d = c
      <4>1. /\ store[c] <= lastVersion[c] /\ lastVersion[c] = creates[c] + updates[c]
            /\ store[c] \in Nat /\ lastVersion[c] \in Nat
        BY <1>8 DEF VersionsCounted
      <4>2. store'[c] <= lastVersion'[c] /\ lastVersion'[c] = creates'[c] + updates'[c]
        BY <1>1, <1>3, <4>1
      <4>3. creates'[c] # 0 /\ deletes'[c] = 0 => store'[c] # 0
        BY <1>1, <1>3, <4>1
      <4>. QED
        BY <1>1, <3>2, <4>2, <4>3
    <3>. QED
      BY <3>1, <3>2
  <2>3. \A d \in Clusters : deletedClusters'[d] <= lastVersion'[d]
    BY <1>6, <1>8, <2>1 DEF VersionsCounted
  <2>4. \A i \in DOMAIN notes' : /\ notes'[i].old <= lastVersion'[notes'[i].name]
                                 /\ notes'[i].old # 0 \/ notes'[i].new # 0
    <3>1. ASSUME NEW i \in DOMAIN notes
          PROVE  /\ notes'[i].old <= lastVersion'[notes'[i].name]
                 /\ notes'[i].old # 0 \/ notes'[i].new # 0
      <4>1. /\ notes[i].name \in Clusters /\ notes[i].old \in Nat
            /\ notes[i].old <= lastVersion[notes[i].name]
            /\ notes[i].old # 0 \/ notes[i].new # 0
        BY <3>1, NoteTypes DEF VersionsCounted
      <4>. QED
        BY <1>3, <1>8, <2>1, <3>1, <4>1
    <3>2. n.old <= lastVersion'[n.name]
      <4>1. store[c] <= lastVersion[c]
        BY DEF VersionsCounted
      <4>. QED
        BY <1>2, <1>8, <2>1, <4>1
    <3>3. n.old # 0 \/ n.new # 0
      BY <1>1, <1>2, <1>8
    <3>. QED
      BY <1>3, <1>5, <3>1, <3>2, <3>3
  <2>5. pending' # NoDeletion => pending'.version <= lastVersion'[pending'.name]
    <3>1. ASSUME pending # NoDeletion
          PROVE  /\ pending.name \in Clusters /\ pending.version \in Nat
                 /\ pending.version <= lastVersion[pending.name]
      BY <3>1 DEF Shapes, VersionsCounted
    <3>. QED
      BY <1>6, <1>8, <2>1, <3>1
  <2>. QED
    BY <2>2, <2>3, <2>4, <2>5 DEF VersionsCounted
<1>10. \A item \in Items :
          Times(item)' = IF Asks(n, item) THEN Times(item) + 1 ELSE Times(item)
  BY <1>1, <1>2
<1>11. OnceInv'
  <2> SUFFICES ASSUME NEW item \in Items
               PROVE  /\ Times(item)' = 0 => /\ ~Used(item)'
                                             /\ \A i \in DOMAIN notes' : ~Asks(notes'[i], item)
                      /\ Times(item)' = 1 /\ Used(item)'
                             => \A i \in DOMAIN notes' : ~Asks(notes'[i], item)
                      /\ Times(item)' = 1 => \A i, j \in DOMAIN notes' :
                             Asks(notes'[i], item) /\ Asks(notes'[j], item) => i = j
    BY DEF OnceInv, Asks, EventOf
  <2>0. Times(item) \in Nat
    BY TimesType
  <2>1. CASE ~Asks(n, item)
    <3>1. Times(item)' = Times(item)
      BY <1>10, <2>1
    <3>2. \A i \in DOMAIN notes' : Asks(notes'[i], item)
              => i \in DOMAIN notes /\ Asks(notes[i], item)
      BY <1>3, <1>5, <2>1
    <3>. QED
      BY <1>7, <3>1, <3>2 DEF OnceInv
  <2>2. CASE Asks(n, item)
    <3>1. Times(item)' = Times(item) + 1
      BY <1>10, <2>2
    <3>2. Times(item)' # 0 /\ (Times(item)' = 1 => Times(item) = 0)
      BY <2>0, <3>1
    <3>3. Times(item) = 0 => /\ ~Used(item)'
                             /\ \A i \in DOMAIN notes' : Asks(notes'[i], item)
                                    => i = Len(notes) + 1
      BY <1>3, <1>5, <1>7 DEF OnceInv
    <3>. QED
      BY <3>2, <3>3
  <2>. QED
    BY <2>1, <2>2
<1>D. \A d \in Clusters : deletes'[d] \in Nat /\ (deletes[d] # 0 => deletes'[d] # 0)
  <2>1. deletes' \in [Clusters -> Nat]
    BY UsersChange
  <2>2. deletes[c] # 0 => deletes'[c] # 0
    BY <1>1
  <2>. QED
    BY <1>1, <2>1, <2>2
<1>12. ShownInv'
  <2>1. \A d \in Clusters : Coming(d) => Coming(d)'
    <3>1. ASSUME NEW item, NEW i \in DOMAIN notes, Asks(notes[i], item)
          PROVE  \E k \in DOMAIN notes' : Asks(notes'[k], item)
      BY <1>3, <1>5, <3>1
    <3>2. \A item : InQueue(queue', item) <=> InQueue(queue, item)
      BY <1>6
    <3>. QED
      BY <1>6, <3>1, <3>2 DEF Coming, Asks, EventOf, InQueue
  <2>2. ASSUME NEW d \in Clusters, UNCHANGED <<store[d], creates[d], updates[d], deletes[d]>>
        PROVE  Fresh(d)' => Kept(d)' \/ Coming(d)'
    <3>1. ASSUME NEW e \in Clusters
          PROVE  /\ lastVersion'[e] \in Nat /\ lastVersion[e] <= lastVersion'[e]
                 /\ deletes[e] > 0 => deletes'[e] > 0
      <4>1. lastVersion'[e] \in Nat /\ lastVersion[e] <= lastVersion'[e]
        BY <1>3, <1>8
      <4>2. deletes[e] > 0 => deletes'[e] > 0
        BY <1>1, <1>8, <1>D
      <4>. QED
        BY <4>1, <4>2
    <3>2. Kept(d) => Kept(d)'
      BY <2>2, <3>1, KeptStays
    <3>. QED
      BY <2>1, <2>2, <3>2 DEF ShownInv, Fresh
  <2>3. CASE v # store[c] /\ v # 0
    <3>1. PICK item : item = [event |-> IF store[c] = 0 THEN "create" ELSE "update", key |-> c]
      OBVIOUS
    <3>2. item \in Items /\ item.key = c /\ item.event # "delete" /\ Asks(n, item)
      BY <1>2, <2>3, <3>1 DEF Items, Asks, EventOf
    <3>3. Asks(notes'[Len(notes) + 1], item)
      BY <1>3, <3>2
    <3>4. Coming(c)'
      BY <1>5, <3>2, <3>3 DEF Coming, Asks, EventOf
    <3>. QED
      BY <1>1, <1>3, <2>2, <3>4 DEF ShownInv
  <2>4. CASE v = 0
    <3>1. v = lastVersion[c] + 1 => FALSE
      BY <1>8, <2>4
    <3>2. deletes'[c] # 0
      BY <1>1, <2>4, <3>1
    <3>. QED
      BY <1>1, <1>3, <2>2, <3>2 DEF ShownInv, Fresh
  <2>5. CASE v = store[c] /\ v # 0
    <3>1. store[c] <= lastVersion[c] /\ v # lastVersion[c] + 1
      BY <1>8, <2>5 DEF VersionsCounted
    <3>2. UNCHANGED <<creates, updates, deletes>>
      BY <1>1, <2>5, <3>1
    <3>. QED
      BY <1>1, <1>3, <2>2, <2>5, <3>2 DEF ShownInv
  <2>. QED
    BY <2>3, <2>4, <2>5
<1>. QED
  BY <1>9, <1>11, <1>12

(* The listener queues what the notification asks for; the deletion of a   *)
(* cluster that is not verified it may drop.                               *)
LEMMA ListenerAsk ==
    ASSUME Shapes, VersionsCounted, Listener
    PROVE  \/ UNCHANGED <<notes, queue>>
           \/ /\ notes # <<>> /\ notes' = Tail(notes)
              /\ \/ /\ UNCHANGED queue
                    /\ \A item \in Items : Asks(Head(notes), item) => item.event = "delete"
                 \/ \E x \in Items :
                       /\ queue' = WQ!Add(queue, x) /\ Asks(Head(notes), x)
                       /\ \A item \in Items : Asks(Head(notes), item) => item = x
<1>1. ASSUME NEW kind, Notified(kind)
      PROVE  /\ notes # <<>> /\ notes' = Tail(notes) /\ Head(notes).name \in Clusters
             /\ kind = (IF Head(notes).old = 0 THEN "add"
                        ELSE IF Head(notes).new = 0 THEN "delete" ELSE "update")
  <2>1. notes # <<>> /\ notes' = Tail(notes)
    BY <1>1 DEF Notified
  <2>2. Head(notes).name \in Clusters
    BY <2>1, NotesLeft DEF Notes
  <2>3. kind = (IF Head(notes).old = 0 THEN "add"
                ELSE IF Head(notes).new = 0 THEN "delete" ELSE "update")
    <3>1. kind = (CASE Head(notes).old = 0 -> "add"
                    [] Head(notes).new = 0 -> "delete"
                    [] OTHER -> "update")
      BY <1>1 DEF Notified
    <3>2. ~(Head(notes).old = 0 /\ Head(notes).new = 0)
      BY <2>1, NotesLeft DEF VersionsCounted
    <3>. QED
      BY <3>1, <3>2
  <2>. QED
    BY <2>1, <2>2, <2>3
<1>2. ASSUME NEW e \in {"create", "update", "delete"}, Head(notes).name \in Clusters,
             EventOf(Head(notes)) = e, Enqueue(Head(notes).name, e)
      PROVE  \E x \in Items :
                 /\ queue' = WQ!Add(queue, x) /\ Asks(Head(notes), x)
                 /\ \A item \in Items : Asks(Head(notes), item) => item = x
  <2>1. PICK x : x = [event |-> e, key |-> Head(notes).name]
    OBVIOUS
  <2>2. x \in Items /\ queue' = WQ!Add(queue, x)
    BY <1>2, <2>1 DEF Items, Enqueue
  <2>3. Asks(Head(notes), x)
    BY <1>2, <2>1 DEF Asks
  <2>4. \A item \in Items : Asks(Head(notes), item) => item = x
    BY <1>2, <2>1 DEF Asks, Items
  <2>. QED
    BY <2>2, <2>3, <2>4
<1>3. CASE addCluster
  <2>1. EventOf(Head(notes)) = "create"
    BY <1>1, <1>3 DEF addCluster, EventOf
  <2>. QED
    BY <1>1, <1>2, <1>3, <2>1 DEF addCluster
<1>4. CASE updateCluster
  <2>1. Notified("update")
    BY <1>4 DEF updateCluster
  <2>2. CASE Head(notes).old = Head(notes).new
    <3>1. EventOf(Head(notes)) = "none" /\ UNCHANGED queue
      BY <1>1, <1>4, <2>1, <2>2 DEF updateCluster, EventOf
    <3>. QED
      BY <1>1, <2>1, <3>1 DEF Asks, Items
  <2>3. CASE Head(notes).old # Head(notes).new
    <3>1. EventOf(Head(notes)) = "update" /\ Enqueue(Head(notes).name, "update")
      BY <1>1, <1>4, <2>1, <2>3 DEF updateCluster, EventOf
    <3>. QED
      BY <1>1, <1>2, <2>1, <3>1
  <2>. QED
    BY <2>2, <2>3
<1>5. CASE deleteCluster
  <2>1. Notified("delete") /\ EventOf(Head(notes)) = "delete"
    BY <1>1, <1>5 DEF deleteCluster, EventOf
  <2>2. CASE UNCHANGED queue
    BY <1>1, <2>1, <2>2 DEF Asks
  <2>3. CASE Enqueue(Head(notes).name, "delete")
    BY <1>1, <1>2, <2>1, <2>3
  <2>. QED
    BY <1>5, <2>2, <2>3 DEF deleteCluster
<1>6. CASE SaveDeleted
  BY <1>6 DEF SaveDeleted, workqueue
<1>. QED
  BY <1>3, <1>4, <1>5, <1>6 DEF Listener

LEMMA ListenerSites ==
    ASSUME Shapes, VersionsCounted, OnceInv, ShownInv, Listener, UNCHANGED siteMap
    PROVE  VersionsCounted' /\ OnceInv' /\ ShownInv'
<1>1. /\ UNCHANGED <<store, lastVersion, creates, updates, deletes>>
      /\ UNCHANGED <<delayed, worker, siteMap>>
  BY ListenerShape DEF users
<1>2. /\ \A item : Times(item)' = Times(item)
      /\ \A c \in Clusters : (Fresh(c)' <=> Fresh(c)) /\ (Kept(c)' <=> Kept(c))
  BY <1>1, SameKept DEF Times, Fresh, users
<1>3. VersionsCounted'
  <2>1. \A i \in DOMAIN notes' : /\ notes'[i].old <= lastVersion'[notes'[i].name]
                                 /\ notes'[i].old # 0 \/ notes'[i].new # 0
    <3>1. CASE UNCHANGED notes
      BY <1>1, <3>1 DEF VersionsCounted
    <3>2. CASE notes # <<>> /\ notes' = Tail(notes)
      BY <1>1, <3>2, NotesLeft DEF VersionsCounted
    <3>. QED
      BY <3>1, <3>2, ListenerAsk
  <2>2. pending' # NoDeletion => pending'.version <= lastVersion'[pending'.name]
    <3>1. CASE deleteCluster
      <4>1. notes # <<>> /\ notes' = Tail(notes)
        BY <3>1 DEF deleteCluster, Notified
      <4>2. Head(notes).old <= lastVersion[Head(notes).name]
        BY <4>1, NotesLeft DEF VersionsCounted
      <4>3. \/ pending' = [name |-> Head(notes).name, version |-> Head(notes).old]
            \/ UNCHANGED pending
        BY <3>1 DEF deleteCluster
      <4>. QED
        BY <1>1, <4>2, <4>3 DEF VersionsCounted
    <3>2. CASE UNCHANGED pending \/ pending' = NoDeletion
      BY <1>1, <3>2 DEF VersionsCounted
    <3>. QED
      BY <3>1, <3>2 DEF Listener, addCluster, updateCluster, SaveDeleted
  <2>3. \A c \in Clusters : deletedClusters'[c] <= lastVersion'[c]
    <3>1. CASE SaveDeleted
      <4>1. /\ pending \in [name : Clusters, version : Nat]
            /\ pending.version <= lastVersion[pending.name]
            /\ deletedClusters' = [deletedClusters EXCEPT ![pending.name] = pending.version]
            /\ deletedClusters \in [Clusters -> Nat]
        BY <3>1 DEF SaveDeleted, Shapes, VersionsCounted
      <4>. QED
        BY <1>1, <4>1 DEF VersionsCounted
    <3>2. CASE UNCHANGED deletedClusters
      BY <1>1, <3>2 DEF VersionsCounted
    <3>. QED
      BY <3>1, <3>2 DEF Listener, addCluster, updateCluster, deleteCluster, Notified
  <2>. QED
    BY <1>1, <2>1, <2>2, <2>3 DEF VersionsCounted
<1>4. CASE UNCHANGED <<notes, queue>>
  <2>1. \A item : Used(item)' <=> Used(item)
    BY <1>1, <1>4, SameUsed DEF workqueue
  <2>2. OnceInv'
    BY <1>2, <1>4, <2>1 DEF OnceInv, Asks, EventOf
  <2>3. \A c \in Clusters : Coming(c) => Coming(c)'
    BY <1>1, <1>4 DEF Coming, Asks, EventOf, InQueue
  <2>. QED
    BY <1>2, <1>3, <2>2, <2>3 DEF ShownInv
<1>5. CASE notes # <<>> /\ notes' = Tail(notes)
  <2>1. /\ Head(notes) = notes[1] /\ 1 \in DOMAIN notes
        /\ \A i \in DOMAIN notes' : i + 1 \in DOMAIN notes /\ notes'[i] = notes[i + 1]
    BY <1>5, NotesLeft
  <2>2. \A i \in DOMAIN notes' : i + 1 # 1
    <3>1. notes' \in Seq(Notes)
      BY <1>5, NotesLeft
    <3>. QED
      BY <3>1
  <2>3. ASSUME NEW i \in DOMAIN notes, i # 1
        PROVE  i - 1 \in DOMAIN notes' /\ notes'[i - 1] = notes[i]
    <3>1. notes \in Seq(Notes)
      BY DEF Shapes
    <3>. QED
      BY <1>5, <2>3, <3>1
  <2>4. ASSUME NEW item \in Items, ~Asks(Head(notes), item), Used(item)' => Used(item)
        PROVE  /\ Times(item)' = 0 => /\ ~Used(item)'
                                      /\ \A i \in DOMAIN notes' : ~Asks(notes'[i], item)
               /\ Times(item)' = 1 /\ Used(item)'
                      => \A i \in DOMAIN notes' : ~Asks(notes'[i], item)
               /\ Times(item)' = 1 => \A i, j \in DOMAIN notes' :
                      Asks(notes'[i], item) /\ Asks(notes'[j], item) => i = j
    <3>1. \A i \in DOMAIN notes' : Asks(notes'[i], item)
              => i + 1 \in DOMAIN notes /\ Asks(notes[i + 1], item)
      BY <2>1
    <3>2. \A i, j \in DOMAIN notes' : i + 1 = j + 1 => i = j
      <4>1. notes' \in Seq(Notes)
        BY <1>5, NotesLeft
      <4>. QED
        BY <4>1
    <3>. QED
      BY <1>2, <2>4, <3>1, <3>2 DEF OnceInv
  <2>5. ASSUME NEW item \in Items, Asks(Head(notes), item)
        PROVE  /\ Times(item) # 0
               /\ Times(item) = 1 => /\ ~Used(item)
                                     /\ \A i \in DOMAIN notes' : ~Asks(notes'[i], item)
    BY <2>1, <2>2, <2>5 DEF OnceInv
  <2>6. ASSUME \A item \in Items : Used(item)' => Used(item) \/ Asks(Head(notes), item)
        PROVE  OnceInv'
    <3>1. ASSUME NEW item \in Items
          PROVE  /\ Times(item)' = 0 => /\ ~Used(item)'
                                        /\ \A i \in DOMAIN notes' : ~Asks(notes'[i], item)
                 /\ Times(item)' = 1 /\ Used(item)'
                        => \A i \in DOMAIN notes' : ~Asks(notes'[i], item)
                 /\ Times(item)' = 1 => \A i, j \in DOMAIN notes' :
                        Asks(notes'[i], item) /\ Asks(notes'[j], item) => i = j
      <4>1. CASE Asks(Head(notes), item)
        BY <1>2, <2>5, <4>1
      <4>2. CASE ~Asks(Head(notes), item)
        BY <2>4, <2>6, <4>2
      <4>. QED
        BY <4>1, <4>2
    <3>. QED
      BY <3>1 DEF OnceInv, Asks, EventOf
  <2>7. ASSUME \A item \in Items : InQueue(queue, item) => InQueue(queue, item)',
               \A item \in Items : Asks(Head(notes), item) /\ item.event # "delete"
                   /\ ~Used(item) => InQueue(queue, item)'
        PROVE  ShownInv'
    <3> SUFFICES ASSUME NEW c \in Clusters, Fresh(c), Coming(c) PROVE Coming(c)'
      BY <1>2 DEF ShownInv
    <3>1. PICK item \in Items :
              /\ item.key = c /\ item.event # "delete"
              /\ \/ \E i \in DOMAIN notes : Asks(notes[i], item)
                 \/ InQueue(queue, item)
                 \/ \E w \in Workers : worker[w].step = "sync" /\ worker[w].item = item
      BY DEF Coming
    <3>2. ASSUME InQueue(queue, item) PROVE Coming(c)'
      BY <2>7, <3>1, <3>2 DEF Coming
    <3>3. ASSUME NEW w \in Workers, worker[w].step = "sync", worker[w].item = item
          PROVE  Coming(c)'
      BY <1>1, <3>1, <3>3 DEF Coming
    <3>4. ASSUME NEW i \in DOMAIN notes, Asks(notes[i], item), i # 1 PROVE Coming(c)'
      <4>1. PICK k \in DOMAIN notes' : notes'[k] = notes[i]
        BY <2>3, <3>4
      <4>2. Asks(notes'[k], item)
        BY <3>4, <4>1
      <4>. QED
        BY <3>1, <4>2 DEF Coming, Asks, EventOf
    <3>5. ASSUME Asks(notes[1], item) PROVE Coming(c)'
      <4>1. Asks(Head(notes), item) /\ Times(item) # 0
        BY <2>1, <2>5, <3>5
      <4>2. Times(item) = 1
        <5>1. Times(item) \in Nat /\ updates[c] \in Nat
          BY TimesType DEF Shapes
        <5>. QED
          BY <3>1, <4>1, <5>1 DEF Times, Fresh, Items
      <4>3. InQueue(queue, item)'
        BY <2>5, <2>7, <3>1, <4>1, <4>2
      <4>. QED
        BY <3>1, <4>3 DEF Coming
    <3>. QED
      BY <3>1, <3>2, <3>3, <3>4, <3>5
  <2>8. CASE /\ UNCHANGED queue
             /\ \A item \in Items : Asks(Head(notes), item) => item.event = "delete"
    <3>1. \A item \in Items : Used(item)' => Used(item)
      BY <1>1, <2>8, SameUsed DEF workqueue
    <3>2. \A item \in Items : InQueue(queue, item) => InQueue(queue, item)'
      BY <2>8 DEF InQueue
    <3>. QED
      BY <1>3, <2>6, <2>7, <2>8, <3>1, <3>2
  <2>9. ASSUME NEW x \in Items, queue' = WQ!Add(queue, x), Asks(Head(notes), x),
               \A item \in Items : Asks(Head(notes), item) => item = x
        PROVE  OnceInv' /\ ShownInv'
    <3>0. queue \in Queues
      BY DEF Shapes
    <3>1. \A item \in Items :
             /\ Known(queue', item) => Known(queue, item) \/ item = x
             /\ InQueue(queue, item) => InQueue(queue', item)
             /\ item = x /\ ~Known(queue, x) => InQueue(queue', item)
      BY <2>9, <3>0, QueueItems
    <3>2. \A item \in Items : Used(item)' => Used(item) \/ Asks(Head(notes), item)
      BY <1>1, <2>9, <3>1 DEF Used, Known, InQueue
    <3>3. \A item \in Items : InQueue(queue, item) => InQueue(queue, item)'
      BY <3>1 DEF InQueue
    <3>4. \A item \in Items : Asks(Head(notes), item) /\ item.event # "delete"
              /\ ~Used(item) => InQueue(queue, item)'
      BY <2>9, <3>1 DEF Used, InQueue
    <3>. QED
      BY <2>6, <2>7, <3>2, <3>3, <3>4
  <2>. QED
    BY <1>3, <1>5, <2>8, <2>9, ListenerAsk
<1>. QED
  BY <1>4, <1>5, ListenerAsk

(* Steps of the queue and the worker: the users' counters and the          *)
(* notifications stay, and no item is used for the first time.             *)
LEMMA WorkKeepsOnce ==
    ASSUME VersionsCounted, OnceInv, UNCHANGED <<users, notes, pending>>,
           \A item \in Items : Used(item)' => Used(item),
           \A c \in Clusters : deletedClusters'[c] = deletedClusters[c] \/ deletedClusters'[c] = 0,
           Shapes
    PROVE  VersionsCounted' /\ OnceInv'
<1>1. UNCHANGED <<store, lastVersion, creates, updates, deletes>>
  BY DEF users
<1>2. ASSUME NEW c \in Clusters PROVE deletedClusters'[c] <= lastVersion'[c]
  <2>1. lastVersion[c] \in Nat /\ lastVersion'[c] = lastVersion[c]
    BY <1>1 DEF Shapes
  <2>2. deletedClusters[c] <= lastVersion[c]
    BY DEF VersionsCounted
  <2>. QED
    BY <2>1, <2>2
<1>3. VersionsCounted'
  BY <1>1, <1>2 DEF VersionsCounted
<1>4. \A item : Times(item)' = Times(item)
  BY <1>1 DEF Times
<1>5. OnceInv'
  BY <1>4 DEF OnceInv, Asks, EventOf
<1>. QED
  BY <1>3, <1>5

LEMMA RetrySites ==
    ASSUME Shapes, VersionsCounted, OnceInv, ShownInv, Retry, UNCHANGED siteMap
    PROVE  VersionsCounted' /\ OnceInv' /\ ShownInv'
<1>1. PICK x \in delayed : delayed' = delayed \ {x} /\ queue' = WQ!Add(queue, x)
  BY DEF Retry
<1>2. UNCHANGED <<users, notes, pending, deletedClusters, worker>> /\ queue \in Queues
      /\ x \in Items
  BY <1>1 DEF Retry, listener, Shapes
<1>3. \A item \in Items :
         /\ Known(queue', item) => Known(queue, item) \/ item = x
         /\ InQueue(queue, item) => InQueue(queue', item)
  BY <1>1, <1>2, QueueItems
<1>4. \A item \in Items : Used(item)' => Used(item)
  BY <1>1, <1>2, <1>3 DEF Used, Known, InQueue
<1>5. \A c \in Clusters : (Fresh(c)' <=> Fresh(c)) /\ (Kept(c)' <=> Kept(c))
  BY <1>2, SameKept DEF Fresh, users
<1>6. \A c \in Clusters : Coming(c) => Coming(c)'
  BY <1>2, <1>3 DEF Coming, Asks, EventOf, InQueue
<1>. QED
  BY <1>2, <1>4, <1>5, <1>6, WorkKeepsOnce DEF ShownInv

(* Versions are within the bounds, so every cluster has a site.            *)
LEMMA ClusterSite ==
    ASSUME Shapes, VersionsCounted, NEW c \in Clusters,
           NEW v \in Nat \ {0}, v <= lastVersion[c]
    PROVE  v \in 1..(MaxCreate + MaxUpdate) /\ SiteOf(c, v) \in Sites
<1>1. /\ lastVersion[c] \in Nat /\ creates[c] \in Nat /\ updates[c] \in Nat
      /\ lastVersion[c] = creates[c] + updates[c]
      /\ creates[c] <= MaxCreate /\ updates[c] <= MaxUpdate
  BY DEF Shapes, VersionsCounted
<1>2. v \in 1..(MaxCreate + MaxUpdate)
  BY <1>1, EventsAssumption
<1>. QED
  BY <1>2, SitesAssumption

(* What the worker leaves Coming: everything but the item it handles.      *)
LEMMA WorkerComing ==
    ASSUME Shapes, NEW w \in Workers, UNCHANGED <<users, notes>>,
           \A item \in Items : InQueue(queue, item) => InQueue(queue, item)',
           \A u \in Workers \ {w} : worker'[u] = worker[u],
           NEW c \in Clusters, Coming(c),
           ~(worker[w].step = "sync" /\ worker[w].item.key = c
                /\ worker[w].item.event # "delete")
    PROVE  Coming(c)'
<1>1. PICK item \in Items :
          /\ item.key = c /\ item.event # "delete"
          /\ \/ \E i \in DOMAIN notes : Asks(notes[i], item)
             \/ InQueue(queue, item)
             \/ \E u \in Workers : worker[u].step = "sync" /\ worker[u].item = item
  BY DEF Coming
<1>2. ASSUME NEW u \in Workers, worker[u].step = "sync", worker[u].item = item
      PROVE  worker'[u] = worker[u]
  BY <1>1, <1>2
<1>. QED
  BY <1>1, <1>2 DEF Coming, Asks, EventOf

LEMMA WorkerSites ==
    ASSUME Shapes, SiteShapes, VersionsCounted, OnceInv, ShownInv,
           NEW w \in Workers, ClusterWorker(w)
    PROVE  Shapes' /\ SiteShapes' /\ VersionsCounted' /\ OnceInv' /\ ShownInv'
<1> DEFINE c == worker[w].item.key
<1>0. /\ queue \in Queues /\ worker \in [Workers -> Steps] /\ worker[w] \in Steps
      /\ worker[w].step # "idle" => worker[w].item \in Items /\ c \in Clusters
      /\ worker[w].step = "sync" => worker[w] = [step |-> "sync", item |-> worker[w].item]
      /\ \A item \in Items : item.key \in Clusters
      /\ delayed \subseteq Items /\ store \in [Clusters -> Nat]
      /\ deletedClusters \in [Clusters -> Nat]
  BY StepShape, StepKinds DEF Shapes
<1>u. ASSUME worker[w].step # "idle" PROVE Used(worker[w].item)
  BY <1>u DEF Used
<1> HIDE DEF c
(* FinishItem: the item leaves the worker, and nothing new is queued.      *)
<1>F. ASSUME FinishItem(w), worker[w].step # "idle"
      PROVE  /\ queue' \in Queues /\ worker' \in [Workers -> Steps]
             /\ \A item \in Items : /\ Known(queue', item) => Known(queue, item)
                                    /\ InQueue(queue, item) => InQueue(queue, item)'
             /\ worker'[w] = Idle /\ \A u \in Workers \ {w} : worker'[u] = worker[u]
  <2>1. queue' \in Queues /\ worker' \in [Workers -> Steps]
    BY <1>F, FinishShape
  <2>2. queue' = WQ!Done(queue, worker[w].item.key) /\ worker' = [worker EXCEPT ![w] = Idle]
    BY <1>F DEF FinishItem
  <2>3. \A item \in Items : /\ Known(queue', item) => Known(queue, item)
                            /\ InQueue(queue, item) => InQueue(queue', item)
    BY <1>0, <2>2, QueueItems
  <2>. QED
    BY <1>0, <2>1, <2>2, <2>3 DEF InQueue
<1>i. Idle.step = "idle"
  BY DEF Idle
<1>1. ASSUME Take(w), UNCHANGED siteMap
      PROVE  Shapes' /\ SiteShapes' /\ VersionsCounted' /\ OnceInv' /\ ShownInv'
  <2>1. /\ worker[w] = Idle /\ queue.queue # <<>> /\ queue' = WQ!Get(queue)
        /\ worker' = [worker EXCEPT ![w] = [step |-> "sync", item |-> WQ!Next(queue)]]
        /\ UNCHANGED <<users, notes, pending, delayed, deletedClusters, up>>
    BY <1>1 DEF Take, listener
  <2>2. PICK x \in Items : x = WQ!Next(queue)
    BY <1>0, <2>1, QueueOps
  <2>3. queue' \in Queues /\ [step |-> "sync", item |-> x] \in Steps
    BY <1>0, <2>1, <2>2, QueueOps, StepKinds
  <2>4. \A item \in Items :
            /\ Known(queue', item) => Known(queue, item)
            /\ InQueue(queue, item) => InQueue(queue', item) \/ item = x
            /\ item = x => Known(queue, item)
    BY <1>0, <2>1, <2>2, QueueItems
  <2>5. /\ worker' \in [Workers -> Steps]
        /\ worker'[w].step = "sync" /\ worker'[w].item = x
        /\ \A u \in Workers \ {w} : worker'[u] = worker[u]
    BY <1>0, <2>1, <2>2, <2>3
  <2>6. Shapes' /\ SiteShapes'
    BY <1>1, <2>1, <2>3, <2>5 DEF Shapes, SiteShapes, users
  <2>7. \A item \in Items : Used(item)' => Used(item)
    BY <2>1, <2>4, <2>5 DEF Used, Known, InQueue
  <2>8. VersionsCounted' /\ OnceInv'
    BY <2>1, <2>7, WorkKeepsOnce
  <2>9. \A d \in Clusters : (Fresh(d)' <=> Fresh(d)) /\ (Kept(d)' <=> Kept(d))
    BY <1>1, <2>1, SameKept DEF Fresh, users
  <2>10. ASSUME NEW d \in Clusters, Coming(d) PROVE Coming(d)'
    <3>1. PICK item \in Items :
              /\ item.key = d /\ item.event # "delete"
              /\ \/ \E i \in DOMAIN notes : Asks(notes[i], item)
                 \/ InQueue(queue, item)
                 \/ \E u \in Workers : worker[u].step = "sync" /\ worker[u].item = item
      BY <2>10 DEF Coming
    <3>2. ASSUME NEW u \in Workers, worker[u].step = "sync" PROVE worker'[u] = worker[u]
      BY <1>i, <2>1, <2>5, <3>2
    <3>3. InQueue(queue, item) =>
              InQueue(queue, item)' \/ (worker'[w].step = "sync" /\ worker'[w].item = item)
      BY <2>4, <2>5 DEF InQueue
    <3>. QED
      BY <2>1, <3>1, <3>2, <3>3 DEF Coming, Asks, EventOf
  <2>. QED
    BY <2>6, <2>8, <2>9, <2>10 DEF ShownInv
<1>2. ASSUME CheckAgain(w), UNCHANGED siteMap
      PROVE  Shapes' /\ SiteShapes' /\ VersionsCounted' /\ OnceInv' /\ ShownInv'
  <2>1. /\ UNCHANGED <<users, notes, pending, delayed, deletedClusters>>
        /\ worker[w].step = "check" /\ up \in BOOLEAN
    BY <1>2 DEF CheckAgain, listener, Shapes
  <2>2. /\ queue' \in Queues /\ worker' \in [Workers -> Steps] /\ up' \in BOOLEAN
        /\ \A item \in Items : /\ Known(queue', item) => Known(queue, item)
                               /\ InQueue(queue, item) => InQueue(queue, item)'
        /\ worker'[w] = worker[w] \/ worker'[w] = Idle
        /\ \A u \in Workers \ {w} : worker'[u] = worker[u]
    <3>1. CASE up' = FALSE /\ UNCHANGED <<queue, worker>>
      BY <1>0, <3>1 DEF Known, InQueue
    <3>2. CASE FinishItem(w) /\ UNCHANGED up
      BY <1>F, <2>1, <3>2
    <3>. QED
      BY <1>2, <3>1, <3>2 DEF CheckAgain
  <2>3. Shapes' /\ SiteShapes'
    BY <1>2, <2>1, <2>2 DEF Shapes, SiteShapes, users
  <2>4. \A item \in Items : Used(item)' => Used(item)
    BY <1>i, <2>1, <2>2 DEF Used, Known, InQueue
  <2>5. VersionsCounted' /\ OnceInv'
    BY <2>1, <2>4, WorkKeepsOnce
  <2>6. \A d \in Clusters : (Fresh(d)' <=> Fresh(d)) /\ (Kept(d)' <=> Kept(d))
    BY <1>2, <2>1, SameKept DEF Fresh, users
  <2>7. \A d \in Clusters : Coming(d) => Coming(d)'
    BY <2>1, <2>2, WorkerComing
  <2>. QED
    BY <2>3, <2>5, <2>6, <2>7 DEF ShownInv
(* Handled: what the two handlers have in common.                          *)
<1>H. ASSUME worker[w].step = "sync", NEW ok \in BOOLEAN, Handled(w, ok),
             deletedClusters' \in [Clusters -> Nat],
             \A d \in Clusters : deletedClusters'[d] = deletedClusters[d] \/ deletedClusters'[d] = 0
      PROVE  /\ Shapes' /\ VersionsCounted' /\ OnceInv'
             /\ \A d \in Clusters : d # c /\ Coming(d) => Coming(d)'
             /\ \A d \in Clusters : Fresh(d)' <=> Fresh(d)
             /\ UNCHANGED users
  <2>1. /\ delayed' = IF ok THEN delayed ELSE delayed \cup {worker[w].item}
        /\ UNCHANGED <<users, notes, pending, up>>
        /\ \/ FinishItem(w)
           \/ worker' = [worker EXCEPT ![w].step = "check"] /\ UNCHANGED queue
    BY <1>H DEF Handled, listener
  <2>2. /\ queue' \in Queues /\ worker' \in [Workers -> Steps]
        /\ \A item \in Items : /\ Known(queue', item) => Known(queue, item)
                               /\ InQueue(queue, item) => InQueue(queue, item)'
        /\ worker'[w].step # "idle" => worker'[w].item = worker[w].item
        /\ \A u \in Workers \ {w} : worker'[u] = worker[u]
    <3>1. CASE FinishItem(w)
      BY <1>F, <1>H, <1>i, <3>1
    <3>2. CASE worker' = [worker EXCEPT ![w].step = "check"] /\ UNCHANGED queue
      <4>1. [worker[w] EXCEPT !.step = "check"] = [step |-> "check", item |-> worker[w].item]
        BY <1>0, <1>H
      <4>2. worker' = [worker EXCEPT ![w] = [step |-> "check", item |-> worker[w].item]]
        BY <3>2, <4>1
      <4>3. [step |-> "check", item |-> worker[w].item] \in Steps
        BY <1>0, <1>H, StepKinds
      <4>4. /\ worker' \in [Workers -> Steps] /\ worker'[w].item = worker[w].item
            /\ \A u \in Workers \ {w} : worker'[u] = worker[u]
        BY <1>0, <4>2, <4>3
      <4>. QED
        BY <1>0, <3>2, <4>4 DEF InQueue
    <3>. QED
      BY <2>1, <3>1, <3>2
  <2>3. delayed' \subseteq Items
    BY <1>0, <1>H, <2>1
  <2>4. Shapes'
    BY <1>H, <2>1, <2>2, <2>3 DEF Shapes, users
  <2>5. \A item \in Items : Used(item)' => Used(item)
    BY <1>H, <2>1, <2>2 DEF Used, Known, InQueue
  <2>6. VersionsCounted' /\ OnceInv'
    BY <1>H, <2>1, <2>5, WorkKeepsOnce
  <2>7. \A d \in Clusters : Fresh(d)' <=> Fresh(d)
    BY <2>1 DEF Fresh, users
  <2>8. \A d \in Clusters : d # c /\ Coming(d) => Coming(d)'
    BY <2>1, <2>2, WorkerComing DEF c
  <2>. QED
    BY <2>1, <2>4, <2>6, <2>7, <2>8
(* The handler writes an entry of the cluster of its item: the clusters    *)
(* that share the site are taken over by it, the others stay as they are.  *)
<1>S. ASSUME NEW v \in Nat \ {0}, c \in Clusters, v <= lastVersion[c], NEW r,
             \/ r = NoSite /\ deletes[c] > 0
             \/ r \in [cluster : {c}, version : Nat \ {0}],
             siteMap' = [siteMap EXCEPT ![SiteOf(c, v)] = r], UNCHANGED users
      PROVE  \A d \in Clusters : d # c /\ store[d] # 0 /\ Kept(d) => Kept(d)'
  <2> SUFFICES ASSUME NEW d \in Clusters, d # c, store[d] # 0, Kept(d) PROVE Kept(d)'
    OBVIOUS
  <2>1. PICK s : s = SiteOf(d, store[d])
    OBVIOUS
  <2>2. UNCHANGED <<store, lastVersion, deletes>>
    BY <1>S DEF users
  <2>3. siteMap \in [Sites -> {NoSite} \cup [cluster : Clusters, version : Nat \ {0}]]
    BY DEF SiteShapes
  <2>4. SiteOf(c, v) \in Sites
    BY <1>S, ClusterSite
  <2>5. CASE SiteOf(c, v) # s
    <3>1. siteMap'[s] = siteMap[s]
      BY <1>S, <2>3, <2>5
    <3>2. CASE Shown(d)
      BY <2>1, <2>2, <3>1, <3>2 DEF Shown, Kept
    <3>3. CASE TakenOver(d)
      <4>1. TakenOver(d)'
        BY <2>1, <2>2, <3>1, <3>3 DEF TakenOver
      <4>. QED
        BY <4>1 DEF Kept
    <3>. QED
      BY <3>2, <3>3 DEF Kept
  <2>6. CASE SiteOf(c, v) = s
    <3>1. siteMap'[s] = r
      BY <1>S, <2>3, <2>4, <2>6
    <3>2. v \in 1..lastVersion[c]
      <4>1. lastVersion[c] \in Nat
        BY <1>S DEF Shapes
      <4>. QED
        BY <1>S, <4>1
    <3>3. IF siteMap'[s] = NoSite THEN deletes'[c] > 0 ELSE siteMap'[s].cluster = c
      <4>1. CASE r = NoSite /\ deletes[c] > 0
        BY <2>2, <3>1, <4>1
      <4>2. CASE r \in [cluster : {c}, version : Nat \ {0}]
        <5>1. r.cluster = c /\ r.version # 0
          BY <4>2
        <5>2. r # NoSite
          BY <5>1 DEF NoSite
        <5>. QED
          BY <3>1, <5>1, <5>2
      <4>. QED
        BY <1>S, <4>1, <4>2
    <3>4. c \in Clusters \ {d} /\ (\E u \in 1..lastVersion'[c] : SiteOf(c, u) = s)
      BY <1>S, <2>2, <2>6, <3>2
    <3>5. s = SiteOf(d, store'[d])
      BY <2>1, <2>2
    <3>6. TakenOver(d)'
      BY <3>3, <3>4, <3>5 DEF TakenOver
    <3>. QED
      BY <3>6 DEF Kept
  <2>. QED
    BY <2>5, <2>6
<1>K. \A d \in Clusters : Fresh(d) => store[d] # 0
  BY DEF Fresh, VersionsCounted
<1>3. ASSUME updateStaticSite(w)
      PROVE  Shapes' /\ SiteShapes' /\ VersionsCounted' /\ OnceInv' /\ ShownInv'
  <2>1. /\ worker[w].step = "sync" /\ worker[w].item.event # "delete" /\ c \in Clusters
        /\ siteMap' = IF store[c] = 0 THEN siteMap
                      ELSE [siteMap EXCEPT ![SiteOf(c, store[c])] =
                                               [cluster |-> c, version |-> store[c]]]
        /\ Handled(w, store[c] # 0) /\ deletedClusters' = deletedClusters
    BY <1>0, <1>3 DEF updateStaticSite, c
  <2>2. PICK ok \in BOOLEAN : Handled(w, ok)
    BY <2>1
  <2>3. /\ Shapes' /\ VersionsCounted' /\ OnceInv'
        /\ \A d \in Clusters : d # c /\ Coming(d) => Coming(d)'
        /\ \A d \in Clusters : Fresh(d)' <=> Fresh(d)
        /\ UNCHANGED users
    BY <1>0, <1>H, <2>1, <2>2
  <2>4. CASE store[c] = 0
    <3>1. \A d \in Clusters : Kept(d) => Kept(d)'
      BY <2>1, <2>3, <2>4, SameKept
    <3>2. SiteShapes'
      BY <2>1, <2>4 DEF SiteShapes
    <3>. QED
      BY <1>K, <2>3, <2>4, <3>1, <3>2 DEF ShownInv
  <2>5. CASE store[c] # 0
    <3>1. PICK v \in Nat \ {0} : v = store[c]
      BY <1>0, <2>1, <2>5
    <3>2. v <= lastVersion[c]
      BY <2>1, <3>1 DEF VersionsCounted
    <3>3. PICK r : r = [cluster |-> c, version |-> v]
      OBVIOUS
    <3>4. r \in [cluster : {c}, version : Nat \ {0}]
      BY <2>1, <3>1, <3>3
    <3>5. siteMap' = [siteMap EXCEPT ![SiteOf(c, v)] = r]
      BY <2>1, <2>5, <3>1, <3>3
    <3>6. \A d \in Clusters : d # c /\ store[d] # 0 /\ Kept(d) => Kept(d)'
      BY <1>S, <2>1, <2>3, <3>2, <3>4, <3>5
    <3>7. SiteOf(c, v) \in Sites
      BY <2>1, <3>2, ClusterSite
    <3>8. SiteShapes'
      BY <2>1, <3>4, <3>5 DEF SiteShapes
    <3>9. ASSUME NEW d \in Clusters, d = c PROVE Kept(d)'
      <4>1. siteMap'[SiteOf(d, v)] = r
        BY <3>5, <3>7, <3>9 DEF SiteShapes
      <4>2. store'[d] = v /\ r = [cluster |-> d, version |-> v]
        BY <2>3, <3>1, <3>3, <3>9 DEF users
      <4>. QED
        BY <4>1, <4>2 DEF Shown, Kept
    <3>. QED
      BY <1>K, <2>1, <2>3, <3>6, <3>8, <3>9 DEF ShownInv
  <2>. QED
    BY <2>4, <2>5
<1>4. ASSUME deleteStaticSite(w)
      PROVE  Shapes' /\ SiteShapes' /\ VersionsCounted' /\ OnceInv' /\ ShownInv'
  <2>1. /\ worker[w].step = "sync" /\ worker[w].item.event = "delete" /\ c \in Clusters
        /\ \/ UNCHANGED <<siteMap, deletedClusters>>
           \/ /\ siteMap' = IF deletedClusters[c] = 0 THEN siteMap
                            ELSE [siteMap EXCEPT ![SiteOf(c, deletedClusters[c])] = NoSite]
              /\ deletedClusters' = [deletedClusters EXCEPT ![c] = 0]
        /\ Handled(w, store[c] # 0)
    BY <1>0, <1>4 DEF deleteStaticSite, c
  <2>2. PICK ok \in BOOLEAN : Handled(w, ok)
    BY <2>1
  <2>3. /\ deletedClusters' \in [Clusters -> Nat]
        /\ \A d \in Clusters : deletedClusters'[d] = deletedClusters[d] \/ deletedClusters'[d] = 0
    BY <1>0, <2>1
  <2>4. /\ Shapes' /\ VersionsCounted' /\ OnceInv'
        /\ \A d \in Clusters : d # c /\ Coming(d) => Coming(d)'
        /\ \A d \in Clusters : Fresh(d)' <=> Fresh(d)
        /\ UNCHANGED users
    BY <1>H, <2>1, <2>2, <2>3
  <2>5. ~Fresh(c) /\ deletes[c] > 0
    <3>1. Times(worker[w].item) # 0
      BY <1>0, <1>u, <2>1 DEF OnceInv
    <3>2. deletes[c] # 0 /\ deletes[c] \in Nat
      BY <2>1, <3>1 DEF Times, Shapes, c
    <3>. QED
      BY <3>2 DEF Fresh
  <2>6. CASE siteMap' = siteMap
    <3>1. \A d \in Clusters : Kept(d) => Kept(d)'
      BY <2>4, <2>6, SameKept
    <3>. QED
      BY <2>4, <2>5, <2>6, <3>1 DEF ShownInv, SiteShapes
  <2>7. CASE /\ deletedClusters[c] # 0
             /\ siteMap' = [siteMap EXCEPT ![SiteOf(c, deletedClusters[c])] = NoSite]
    <3>1. PICK v \in Nat \ {0} : v = deletedClusters[c]
      BY <1>0, <2>1, <2>7
    <3>2. v <= lastVersion[c]
      BY <2>1, <3>1 DEF VersionsCounted
    <3>3. siteMap' = [siteMap EXCEPT ![SiteOf(c, v)] = NoSite]
      BY <2>7, <3>1
    <3>4. \A d \in Clusters : d # c /\ store[d] # 0 /\ Kept(d) => Kept(d)'
      BY <1>S, <2>1, <2>4, <2>5, <3>2, <3>3
    <3>5. SiteShapes'
      BY <3>3 DEF SiteShapes
    <3>. QED
      BY <1>K, <2>4, <2>5, <3>4, <3>5 DEF ShownInv
  <2>. QED
    BY <2>1, <2>6, <2>7
<1>. QED
  BY <1>1, <1>2, <1>3, <1>4 DEF ClusterWorker

(* SitesInv is inductive.                                                  *)
LEMMA SitesInitially == SitesInit => SitesInv
<1> SUFFICES ASSUME SitesInit PROVE SitesInv
  OBVIOUS
<1>1. /\ store = [c \in Clusters |-> 0] /\ store \in [Clusters -> Nat]
      /\ lastVersion = store /\ deletedClusters = store
      /\ creates = store /\ updates = store /\ deletes = store
  BY DEF SitesInit, EventsInit
<1>2. /\ notes = <<>> /\ pending = NoDeletion /\ up = TRUE /\ delayed = {}
      /\ worker = [w \in Workers |-> Idle] /\ queue = WQ!Empty
      /\ siteMap = [s \in Sites |-> NoSite]
  BY DEF SitesInit, EventsInit
<1>3. WQ!Empty \in Queues /\ Idle.step = "idle"
  BY DEF Queues, WQ!Empty, Idle
<1>4. worker \in [Workers -> Steps]
  BY <1>2 DEF Steps
<1>5. Shapes /\ SiteShapes
  BY <1>1, <1>2, <1>3, <1>4 DEF Shapes, SiteShapes
<1>6. VersionsCounted
  BY <1>1, <1>2, EventsAssumption DEF VersionsCounted
<1>7. \A item \in Items : ~Used(item)
  BY <1>2, <1>3 DEF Used, Known, InQueue, WQ!Empty
<1>8. ASSUME NEW item \in Items PROVE Times(item) = 0
  BY <1>1, TimesType, <1>5 DEF Times
<1>9. OnceInv
  BY <1>2, <1>7, <1>8 DEF OnceInv
<1>10. ShownInv
  BY <1>1 DEF ShownInv, Fresh
<1>. QED
  BY <1>5, <1>6, <1>9, <1>10 DEF SitesInv

LEMMA SitesStep ==
    ASSUME SitesInv, [SitesNext]_siteVars
    PROVE  SitesInv'
<1>0. Shapes /\ SiteShapes /\ VersionsCounted /\ OnceInv /\ ShownInv
  BY DEF SitesInv
<1>1. CASE Users /\ UNCHANGED siteMap
  <2>1. PICK c \in Clusters, v \in Nat : Change(c, v)
    BY <1>0, <1>1, UsersChange
  <2>2. /\ store' \in [Clusters -> Nat] /\ lastVersion' \in [Clusters -> Nat]
        /\ notes' \in Seq(Notes)
    BY <1>0, <2>1, ChangeShape
  <2>3. /\ UNCHANGED <<pending, workqueue, deletedClusters, worker, up>>
        /\ creates' \in [Clusters -> Nat] /\ updates' \in [Clusters -> Nat]
        /\ deletes' \in [Clusters -> Nat]
    BY <1>0, <1>1, UsersChange
  <2>4. Shapes' /\ SiteShapes'
    BY <1>0, <1>1, <2>2, <2>3 DEF Shapes, SiteShapes, workqueue
  <2>. QED
    BY <1>0, <1>1, <2>4, UsersSites DEF SitesInv
<1>2. CASE Listener /\ UNCHANGED siteMap
  <2>1. Shapes' /\ SiteShapes'
    BY <1>0, <1>2, ListenerShape DEF Shapes, SiteShapes, users
  <2>. QED
    BY <1>0, <1>2, <2>1, ListenerSites DEF SitesInv
<1>3. CASE Retry /\ UNCHANGED siteMap
  <2>1. queue' \in Queues /\ delayed' \subseteq Items
    BY <1>0, <1>3, QueueOps DEF Retry, Shapes
  <2>2. Shapes' /\ SiteShapes'
    BY <1>0, <1>3, <2>1 DEF Shapes, SiteShapes, Retry, users, listener
  <2>. QED
    BY <1>0, <1>3, <2>2, RetrySites DEF SitesInv
<1>4. ASSUME NEW w \in Workers, ClusterWorker(w) PROVE SitesInv'
  BY <1>0, <1>4, WorkerSites DEF SitesInv
<1>5. CASE UNCHANGED siteVars
  <2>1. /\ UNCHANGED <<store, lastVersion, creates, updates, deletes, notes, pending>>
        /\ UNCHANGED <<queue, delayed, deletedClusters, worker, up, siteMap>>
    BY <1>5 DEF siteVars, eventVars, users, listener, workqueue
  <2>2. Shapes' /\ SiteShapes' /\ VersionsCounted'
    BY <1>0, <2>1 DEF Shapes, SiteShapes, VersionsCounted
  <2>3. OnceInv'
    BY <1>0, <2>1 DEF OnceInv, Times, Used, Known, InQueue, Asks, EventOf
  <2>4. ShownInv'
    BY <1>0, <2>1 DEF ShownInv, Fresh, Kept, Shown, TakenOver, Coming, InQueue, Asks, EventOf
  <2>. QED
    BY <2>2, <2>3, <2>4 DEF SitesInv
<1>. QED
  BY <1>1, <1>2, <1>3, <1>4, <1>5 DEF SitesNext

(* A cluster that was created once, updated at most once and not deleted   *)
(* is shown with its current spec when nothing is left to do, unless       *)
(* another cluster of the same region and zone took its entry over.  The   *)
(* queue never takes an item for a second time, but the first create and   *)
(* the first update each bring an item of their own, and a worker reads    *)
(* the spec when it handles one.                                           *)
THEOREM FirstUpdateShown == SitesSpec => []SyncInv
<1>1. SitesInv => SyncInv
  <2> SUFFICES ASSUME SitesInv PROVE SyncInv
    OBVIOUS
  <2>1. Shapes /\ SiteShapes /\ ShownInv
    BY DEF SitesInv
  <2>2. \A w \in Workers : worker[w].step # "idle" => worker[w].item \in Items
    BY <2>1, StepShape DEF Shapes
  <2>3. /\ queue.queue \in Seq(Items)
        /\ queue.dirty \subseteq Items /\ queue.processing \subseteq Items
    BY <2>1 DEF Shapes, Queues
  <2>4. SitesTypeOK
    BY <2>1, <2>2, <2>3 DEF SitesTypeOK, EventsTypeOK, Shapes, SiteShapes, Notes
  <2>5. ASSUME Settled, NEW c \in Clusters PROVE ~Coming(c)
    <3>1. notes = <<>> /\ queue.queue = <<>> /\ \A w \in Workers : worker[w] = Idle
      BY <2>5 DEF Settled
    <3>2. Idle.step = "idle"
      BY DEF Idle
    <3>. QED
      BY <3>1, <3>2 DEF Coming, InQueue
  <2>6. FirstUpdateApplied
    BY <2>1, <2>5 DEF FirstUpdateApplied, ShownInv, Fresh, Kept
  <2>. QED
    BY <2>4, <2>6 DEF SyncInv
<1>. QED
  BY <1>1, SitesInitially, SitesStep, PTL DEF SitesSpec
=============================================================================
