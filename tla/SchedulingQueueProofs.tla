------------------------ MODULE SchedulingQueueProofs ------------------------
(***************************************************************************)
(* Proofs about the scheduling queue, for any number of stacks, versions,  *)
(* cycles and sites.  What depends on the worker being the only one says   *)
(* so; the rest holds for any number of workers.                           *)
(***************************************************************************)
EXTENDS SchedulingQueue, TLAPS

(* A pair of maps that are typed and describe the same nominations.        *)
Agree(m) ==
    /\ m[1] \in [Stacks -> Sites \cup {NoSite}]
    /\ m[2] \in [Sites -> SUBSET Stacks]
    /\ \A s \in Stacks, n \in Sites : m[1][s] = n <=> s \in m[2][n]

(* nominatedStackMap.delete keeps the two maps in agreement.               *)
LEMMA DeleteAgrees ==
    ASSUME NEW m, NEW s \in Stacks, Agree(m)
    PROVE  Agree(nominatedDelete(m, s)) /\ nominatedDelete(m, s)[1][s] = NoSite
<1>1. CASE m[1][s] = NoSite
  BY <1>1 DEF nominatedDelete
<1>2. CASE m[1][s] # NoSite
  <2> DEFINE f == [m[1] EXCEPT ![s] = NoSite]
             g == [m[2] EXCEPT ![m[1][s]] = @ \ {s}]
  <2>0. nominatedDelete(m, s) = <<f, g>>
    BY <1>2 DEF nominatedDelete
  <2>1. f \in [Stacks -> Sites \cup {NoSite}] /\ f[s] = NoSite
    BY DEF Agree
  <2>2. m[1][s] \in Sites
    BY <1>2 DEF Agree
  <2>3. g \in [Sites -> SUBSET Stacks]
    BY <2>2 DEF Agree
  <2>4. ASSUME NEW t \in Stacks, NEW n \in Sites
        PROVE  f[t] = n <=> t \in g[n]
    BY <2>2, ConstantsAssumption DEF Agree
  <2>. QED
    BY <2>0, <2>1, <2>3, <2>4 DEF Agree
<1>. QED
  BY <1>1, <1>2

(* So does nominatedStackMap.add.                                          *)
LEMMA AddAgrees ==
    ASSUME NEW m, NEW s \in Stacks, NEW n \in Sites \cup {NoSite}, Agree(m)
    PROVE  Agree(nominatedAdd(m, s, n))
<1> DEFINE d == nominatedDelete(m, s)
<1>1. Agree(d) /\ d[1][s] = NoSite
  BY DeleteAgrees
<1> HIDE DEF d
<1>2. CASE n = NoSite
  BY <1>1, <1>2 DEF nominatedAdd, d
<1>3. CASE n # NoSite
  <2> DEFINE f == [d[1] EXCEPT ![s] = n]
             g == [d[2] EXCEPT ![n] = @ \cup {s}]
  <2>0. nominatedAdd(m, s, n) = <<f, g>>
    BY <1>3 DEF nominatedAdd, d
  <2>1. f \in [Stacks -> Sites \cup {NoSite}] /\ g \in [Sites -> SUBSET Stacks]
    BY <1>1, <1>3 DEF Agree
  <2>2. ASSUME NEW t \in Stacks, NEW k \in Sites
        PROVE  f[t] = k <=> t \in g[k]
    BY <1>1, <1>3, ConstantsAssumption DEF Agree
  <2>. QED
    BY <2>0, <2>1, <2>2 DEF Agree
<1>. QED
  BY <1>2, <1>3

(* And nominatedStackMap.update.                                           *)
LEMMA UpdateAgrees ==
    ASSUME NEW m, NEW s \in Stacks, Agree(m)
    PROVE  Agree(nominatedUpdate(m, s))
<1>1. m[1][s] \in Sites \cup {NoSite}
  BY DEF Agree
<1>. QED
  BY <1>1, DeleteAgrees, AddAgrees DEF nominatedUpdate

(* No method of the queue lets the two maps differ.                        *)
LEMMA NominationStep ==
    ASSUME Agree(nominated), held \in [Workers -> Work], [Next]_vars
    PROVE  Agree(nominated)'
<1>1. ASSUME NEW m, Agree(m), Nominate(m)
      PROVE  Agree(nominated)'
  BY <1>1 DEF Nominate, Agree, nominated
<1>2. ASSUME UNCHANGED nominated
      PROVE  Agree(nominated)'
  BY <1>2 DEF Agree, nominated
<1>3. ASSUME NEW s \in Stacks, NEW n \in Sites \cup {NoSite},
             \/ Nominate(nominatedAdd(nominated, s, n))
             \/ Nominate(nominatedDelete(nominated, s))
             \/ Nominate(nominatedUpdate(nominated, s))
      PROVE  Agree(nominated)'
  BY <1>1, <1>3, AddAgrees, DeleteAgrees, UpdateAgrees
<1> HIDE DEF nominated
<1>4. ASSUME NEW s \in Stacks,
             Add(s) \/ Update(s) \/ Delete(s) \/ BackoffExpires(s)
                \/ DeleteNominatedStackIfExists(s)
      PROVE  Agree(nominated)'
  BY <1>2, <1>3, <1>4 DEF Add, Update, UpdateActive, UpdateBackoff, UpdateAbsent,
     UpdateUnschedulable, Delete, BackoffExpires, DeleteNominatedStackIfExists
<1>5. ASSUME NEW w \in Workers, WorkerStep(w)
      PROVE  Agree(nominated)'
  <2>1. held[w] # NoStack => held[w].stack \in Stacks
    BY DEF Work
  <2>2. CASE AddUnschedulableIfNotPresent(w)
    BY <1>2, <1>3, <2>1, <2>2 DEF AddUnschedulableIfNotPresent
  <2>3. CASE AddIfNotPresent(w)
    BY <1>2, <1>3, <2>1, <2>3 DEF AddIfNotPresent
  <2>. QED
    BY <1>2, <1>5, <2>2, <2>3 DEF WorkerStep, PopWait, PopClosed, SchedulingCycle,
       Done, Pop
<1>6. ASSUME NEW s \in Stacks, NEW n \in Sites, UpdateNominatedStackForSite(s, n)
      PROVE  Agree(nominated)'
  BY <1>3, <1>6 DEF UpdateNominatedStackForSite
<1>7. ASSUME MoveAllToActiveQueue \/ flushUnschedulableQLeftover
                \/ flushBackoffQCompleted \/ Close \/ UNCHANGED vars
      PROVE  Agree(nominated)'
  BY <1>2, <1>7 DEF MoveAllToActiveQueue, flushUnschedulableQLeftover, Move,
     flushBackoffQCompleted, Close, vars
<1>. QED
  BY <1>4, <1>5, <1>6, <1>7 DEF Next

-----------------------------------------------------------------------------
(* OneQueue without the sum.                                               *)
Apart(s) ==
    /\ Has(activeQ, s) => ~Has(stackBackoffQ, s) /\ ~Has(unschedulableQ, s)
    /\ Has(stackBackoffQ, s) => ~Has(unschedulableQ, s)

(* A stack is in one sub-queue when it is in no two.                       *)
LEMMA OneQueueApart == OneQueue <=> \A s \in Stacks : Apart(s)
  BY DEF OneQueue, Apart, Count

(* The versions in a sub-queue stay within the bound.                      *)
LEMMA PutTyped ==
    ASSUME NEW q \in Queue, NEW s \in Stacks, NEW v \in 0..MaxVersion
    PROVE  Put(q, s, v) \in Queue /\ Take(q, s) \in Queue
  BY ConstantsAssumption DEF Queue, Put, Take

(* What the informer delivers is a version.                                *)
LEMMA DeliverTyped ==
    ASSUME TypeOK, NEW s \in Stacks, Deliver(s)
    PROVE  /\ latest' \in Queue /\ live' \subseteq Stacks
           /\ latest'[s] = latest[s] + 1 /\ latest'[s] \in 1..MaxVersion
           /\ \A t \in Stacks \ {s} : latest'[t] = latest[t]
<1>1. latest[s] \in 0..MaxVersion /\ latest[s] < MaxVersion
  BY DEF TypeOK, Queue, Deliver
<1>2. latest[s] + 1 \in 0..MaxVersion /\ latest[s] + 1 \in 1..MaxVersion
  BY <1>1, ConstantsAssumption
<1>. QED
  BY <1>2 DEF TypeOK, Queue, Deliver

(* New timestamps relate stacks.                                           *)
LEMMA StampTyped ==
    ASSUME TypeOK, NEW s \in Stacks
    PROVE  Stamp(s) \subseteq Stacks \X Stacks
  BY DEF TypeOK, Stamp

(* The part of TypeOK that the nominations are not concerned with.         *)
RestTyped ==
    /\ latest \in Queue /\ live \subseteq Stacks
    /\ activeQ \in Queue /\ stackBackoffQ \in Queue /\ unschedulableQ \in Queue
    /\ older \subseteq Stacks \X Stacks
    /\ stackBackoff \in [Stacks -> {"none", "running", "over"}]
    /\ schedulingCycle \in 0..MaxCycle /\ moveRequestCycle \in -1..MaxCycle
    /\ closed \in BOOLEAN /\ waiting \subseteq Workers
    /\ held \in [Workers -> Work] /\ stopped \subseteq Workers
    /\ passed \subseteq Stacks \X Stacks

(* Every step of the queue leaves its fields in their types.               *)
LEMMA TypeStep ==
    ASSUME TypeOK, [Next]_vars
    PROVE  RestTyped'
<1>0. RestTyped
  BY DEF TypeOK, RestTyped
<1> USE <1>0, ConstantsAssumption
<1>1. ASSUME NEW s \in Stacks, Add(s) \/ UpdateAbsent(s)
      PROVE  RestTyped'
  <2>1. Deliver(s) /\ activeQ' = Put(activeQ, s, latest'[s]) /\ older' = Stamp(s)
    BY <1>1 DEF Add, UpdateAbsent
  <2>2. activeQ' \in Queue /\ older' \subseteq Stacks \X Stacks
    BY <2>1, DeliverTyped, PutTyped, StampTyped DEF RestTyped
  <2>3. stackBackoffQ' \in Queue /\ unschedulableQ' \in Queue
    BY <1>1, PutTyped DEF RestTyped, Add, UpdateAbsent
  <2>4. passed' \subseteq Stacks \X Stacks
    BY <1>1 DEF RestTyped, Add, UpdateAbsent
  <2>. QED
    BY <1>1, <2>1, <2>2, <2>3, <2>4, DeliverTyped
       DEF RestTyped, Add, UpdateAbsent, Broadcast
<1>2. ASSUME NEW s \in Stacks, UpdateActive(s) \/ UpdateBackoff(s)
      PROVE  RestTyped'
  <2>1. Deliver(s) /\ activeQ' = Put(activeQ, s, latest'[s])
    BY <1>2 DEF UpdateActive, UpdateBackoff
  <2>2. activeQ' \in Queue
    BY <2>1, DeliverTyped, PutTyped DEF RestTyped
  <2>3. stackBackoffQ' \in Queue
    BY <1>2, PutTyped DEF RestTyped, UpdateActive, UpdateBackoff
  <2>. QED
    BY <1>2, <2>1, <2>2, <2>3, DeliverTyped
       DEF RestTyped, UpdateActive, UpdateBackoff, Broadcast
<1>3. ASSUME NEW s \in Stacks, NEW changed \in BOOLEAN,
             UpdateUnschedulable(s, changed)
      PROVE  RestTyped'
  <2>1. Deliver(s)
    BY <1>3 DEF UpdateUnschedulable
  <2>2. activeQ' \in Queue /\ unschedulableQ' \in Queue
    BY <1>3, <2>1, DeliverTyped, PutTyped DEF RestTyped, UpdateUnschedulable
  <2>3. stackBackoff' \in [Stacks -> {"none", "running", "over"}]
    BY <1>3 DEF RestTyped, UpdateUnschedulable
  <2>. QED
    BY <1>3, <2>1, <2>2, <2>3, DeliverTyped
       DEF RestTyped, UpdateUnschedulable, Broadcast
<1>4. ASSUME NEW s \in Stacks, Delete(s)
      PROVE  RestTyped'
  <2>1. activeQ' \in Queue /\ stackBackoffQ' \in Queue /\ unschedulableQ' \in Queue
    BY <1>4, PutTyped DEF RestTyped, Delete
  <2>2. stackBackoff' \in [Stacks -> {"none", "running", "over"}]
    BY <1>4 DEF RestTyped, Delete
  <2>. QED
    BY <1>4, <2>1, <2>2 DEF RestTyped, Delete
<1>5. ASSUME NEW s \in Stacks, BackoffExpires(s) \/ DeleteNominatedStackIfExists(s)
      PROVE  RestTyped'
  BY <1>5 DEF RestTyped, BackoffExpires, DeleteNominatedStackIfExists, queues
<1>6. ASSUME NEW w \in Workers, WorkerStep(w)
      PROVE  RestTyped'
  <2>1. CASE PopWait(w) \/ PopClosed(w)
    BY <2>1 DEF RestTyped, PopWait, PopClosed, queues
  <2>2. CASE SchedulingCycle(w)
    <3>1. held[w] \in [stack : Stacks, version : 1..MaxVersion,
                       cycle : -1..MaxCycle, moved : BOOLEAN]
      BY <2>2 DEF RestTyped, Work, SchedulingCycle
    <3>2. [held[w] EXCEPT !.cycle = schedulingCycle] \in Work
      BY <3>1 DEF RestTyped, Work
    <3>3. held' \in [Workers -> Work]
      BY <2>2, <3>2 DEF RestTyped, SchedulingCycle
    <3>. QED
      BY <2>2, <3>3 DEF RestTyped, SchedulingCycle, queues
  <2>3. CASE Done(w)
    BY <2>3 DEF RestTyped, Done, Work, queues
  <2>4. CASE AddUnschedulableIfNotPresent(w)
    <3>1. held[w].stack \in Stacks /\ held[w].version \in 0..MaxVersion
      BY <2>4 DEF RestTyped, Work, AddUnschedulableIfNotPresent
    <3>2. held' \in [Workers -> Work]
      BY <2>4 DEF RestTyped, Work, AddUnschedulableIfNotPresent
    <3>3. /\ stackBackoffQ' \in Queue /\ unschedulableQ' \in Queue
          /\ activeQ' \in Queue /\ older' \subseteq Stacks \X Stacks
      BY <2>4, <3>1, PutTyped, StampTyped
         DEF RestTyped, AddUnschedulableIfNotPresent, queues
    <3>4. stackBackoff' \in [Stacks -> {"none", "running", "over"}]
      BY <2>4 DEF RestTyped, AddUnschedulableIfNotPresent, backoffStack
    <3>. QED
      BY <2>4, <3>2, <3>3, <3>4 DEF RestTyped, AddUnschedulableIfNotPresent
  <2>5. CASE AddIfNotPresent(w)
    <3>1. held[w].stack \in Stacks /\ held[w].version \in 0..MaxVersion
      BY <2>5 DEF RestTyped, Work, AddIfNotPresent
    <3>2. held' \in [Workers -> Work]
      BY <2>5 DEF RestTyped, Work, AddIfNotPresent
    <3>3. activeQ' \in Queue /\ older' \subseteq Stacks \X Stacks
      BY <2>5, <3>1, PutTyped, StampTyped DEF RestTyped, AddIfNotPresent
    <3>. QED
      BY <2>5, <3>2, <3>3 DEF RestTyped, AddIfNotPresent, Broadcast
  <2>6. ASSUME NEW s \in Stacks, Pop(w, s)
        PROVE  RestTyped'
    <3>1. activeQ[s] \in 1..MaxVersion
      BY <2>6 DEF RestTyped, Queue, Pop, Head, Has
    <3>2. held' \in [Workers -> Work]
      BY <2>6, <3>1 DEF RestTyped, Work, Pop
    <3>3. activeQ' \in Queue /\ schedulingCycle' \in 0..MaxCycle
      BY <2>6, PutTyped DEF RestTyped, Pop
    <3>4. passed' \subseteq Stacks \X Stacks
      BY <2>6 DEF RestTyped, Pop
    <3>. QED
      BY <2>6, <3>2, <3>3, <3>4 DEF RestTyped, Pop
  <2>. QED
    BY <1>6, <2>1, <2>2, <2>3, <2>4, <2>5, <2>6 DEF WorkerStep
<1>7. ASSUME NEW s \in Stacks, NEW n \in Sites, UpdateNominatedStackForSite(s, n)
      PROVE  RestTyped'
  BY <1>7 DEF RestTyped, UpdateNominatedStackForSite, queues
<1>8. ASSUME NEW ss \in SUBSET Stacks, Move(ss)
      PROVE  RestTyped'
  <2>1. held' \in [Workers -> Work]
    <3>1. ASSUME NEW w \in Workers, held[w] # NoStack
          PROVE  [held[w] EXCEPT !.moved = TRUE] \in Work
      BY <3>1 DEF RestTyped, Work
    <3>. QED
      BY <1>8, <3>1 DEF Move, Work
  <2>2. activeQ' \in Queue /\ stackBackoffQ' \in Queue /\ unschedulableQ' \in Queue
    BY <1>8 DEF RestTyped, Move, Queue
  <2>. QED
    BY <1>8, <2>1, <2>2 DEF RestTyped, Move, Broadcast
<1>9. CASE flushBackoffQCompleted
  <2>1. activeQ' \in Queue /\ stackBackoffQ' \in Queue
    BY <1>9 DEF RestTyped, flushBackoffQCompleted, Queue
  <2>. QED
    BY <1>9, <2>1 DEF RestTyped, flushBackoffQCompleted, Broadcast
<1>10. CASE Close \/ UNCHANGED vars
  BY <1>10 DEF RestTyped, Close, Broadcast, vars, queues
<1>. QED
  BY <1>1, <1>2, <1>3, <1>4, <1>5, <1>6, <1>7, <1>8, <1>9, <1>10
     DEF Next, Update, MoveAllToActiveQueue, Unschedulable,
         flushUnschedulableQLeftover

(* No step puts a stack into a second sub-queue.                           *)
LEMMA ApartStep ==
    ASSUME TypeOK, \A s \in Stacks : Apart(s), [Next]_vars, NEW t \in Stacks
    PROVE  Apart(t)'
<1>0. /\ activeQ \in [Stacks -> 0..MaxVersion]
      /\ stackBackoffQ \in [Stacks -> 0..MaxVersion]
      /\ unschedulableQ \in [Stacks -> 0..MaxVersion]
      /\ Apart(t)
  BY DEF TypeOK, Queue
<1> USE <1>0 DEF Apart, Has, Put, Take
<1>1. ASSUME NEW s \in Stacks, Add(s) \/ UpdateAbsent(s)
      PROVE  Apart(t)'
  BY <1>1 DEF Add, UpdateAbsent, InQueue
<1>2. ASSUME NEW s \in Stacks, UpdateActive(s) \/ UpdateBackoff(s)
      PROVE  Apart(t)'
  BY <1>2 DEF UpdateActive, UpdateBackoff
<1>3. ASSUME NEW s \in Stacks, NEW changed \in BOOLEAN,
             UpdateUnschedulable(s, changed)
      PROVE  Apart(t)'
  BY <1>3 DEF UpdateUnschedulable
<1>4. ASSUME NEW s \in Stacks, Delete(s)
      PROVE  Apart(t)'
  BY <1>4 DEF Delete
<1>5. ASSUME NEW w \in Workers, NEW s \in Stacks, Pop(w, s)
      PROVE  Apart(t)'
  BY <1>5 DEF Pop
<1>6. ASSUME NEW w \in Workers,
             AddUnschedulableIfNotPresent(w) \/ AddIfNotPresent(w)
      PROVE  Apart(t)'
  BY <1>6 DEF AddUnschedulableIfNotPresent, AddIfNotPresent, InQueue, queues
<1>7. ASSUME NEW ss \in SUBSET Unschedulable, Move(ss)
      PROVE  Apart(t)'
  BY <1>7 DEF Move, Unschedulable
<1>8. CASE flushBackoffQCompleted
  BY <1>8 DEF flushBackoffQCompleted
<1>9. ASSUME UNCHANGED queues
      PROVE  Apart(t)'
  BY <1>9 DEF queues
<1>. QED
  BY <1>1, <1>2, <1>3, <1>4, <1>5, <1>6, <1>7, <1>8, <1>9
     DEF Next, Update, WorkerStep, PopWait, PopClosed, SchedulingCycle, Done,
         BackoffExpires, DeleteNominatedStackIfExists, UpdateNominatedStackForSite,
         MoveAllToActiveQueue, flushUnschedulableQLeftover, Close, vars

(* Whatever the callers of the queue do, and in whichever order they get   *)
(* p.lock: a stack is in one sub-queue at most, and the two maps of        *)
(* nominations agree (scheduling_queue.go).                                *)
THEOREM QueueConsistent == Spec => []QueueInv
<1>1. Init => QueueInv
  <2> SUFFICES ASSUME Init PROVE QueueInv
    OBVIOUS
  <2>1. TypeOK
    <3>1. Empty \in Queue /\ 0 \in 0..MaxCycle /\ -1 \in -1..MaxCycle
      BY ConstantsAssumption DEF Queue, Empty
    <3>2. [w \in Workers |-> NoStack] \in [Workers -> Work]
      BY Zenon DEF Work
    <3> DEFINE nowhere == [n \in Sites |-> {}]
               none == [s \in Stacks |-> "none"]
               noSite == [s \in Stacks |-> NoSite]
    <3>3. /\ nowhere \in [Sites -> SUBSET Stacks]
          /\ none \in [Stacks -> {"none", "running", "over"}]
          /\ noSite \in [Stacks -> Sites \cup {NoSite}]
      OBVIOUS
    <3>. QED
      BY <3>1, <3>2, <3>3, Zenon DEF Init, TypeOK
  <2>2. OneQueue /\ NominationsAgree
    BY ConstantsAssumption
       DEF Init, Empty, OneQueue, Count, Has, NominationsAgree
  <2>. QED
    BY <2>1, <2>2 DEF QueueInv
<1>2. QueueInv /\ [Next]_vars => QueueInv'
  <2> SUFFICES ASSUME QueueInv, [Next]_vars PROVE QueueInv'
    OBVIOUS
  <2>1. /\ TypeOK /\ held \in [Workers -> Work] /\ Agree(nominated)
        /\ \A s \in Stacks : Apart(s)
    BY OneQueueApart DEF QueueInv, TypeOK, NominationsAgree, Agree, nominated
  <2>2. Agree(nominated)'
    BY <2>1, NominationStep
  <2>3. RestTyped'
    BY <2>1, TypeStep
  <2>4. TypeOK' /\ NominationsAgree'
    BY <2>2, <2>3 DEF TypeOK, RestTyped, NominationsAgree, Agree, nominated
  <2>5. (\A s \in Stacks : Apart(s))'
    BY <2>1, ApartStep
  <2>6. OneQueue'
    BY <2>5 DEF OneQueue, Apart, Count
  <2>. QED
    BY <2>4, <2>6 DEF QueueInv
<1>. QED
  BY <1>1, <1>2, PTL DEF Spec

(* A worker that waits in cond.Wait has nothing to pop: every call that    *)
(* fills activeQ, or closes the queue, wakes the workers.                  *)
THEOREM WakeupsNotLost == Spec => []NoLostWakeup
<1>1. Init => NoLostWakeup
  BY DEF Init, NoLostWakeup
<1>2. QueueInv /\ NoLostWakeup /\ [Next]_vars => NoLostWakeup'
  <2> SUFFICES ASSUME TypeOK, NoLostWakeup, [Next]_vars PROVE NoLostWakeup'
    BY DEF QueueInv
  <2> USE DEF NoLostWakeup
  <2>0. activeQ \in [Stacks -> 0..MaxVersion]
    BY DEF TypeOK, Queue
  <2>1. ASSUME Broadcast PROVE NoLostWakeup'
    BY <2>1 DEF Broadcast
  <2>2. ASSUME UNCHANGED <<waiting, closed>>, activeQ = Empty => activeQ' = Empty
        PROVE  NoLostWakeup'
    BY <2>2
  <2>3. ASSUME NEW s \in Stacks PROVE activeQ = Empty => Take(activeQ, s) = Empty
    BY <2>0 DEF Empty, Take
  <2>4. ASSUME NEW s \in Stacks, Update(s) \/ Delete(s) PROVE NoLostWakeup'
    BY <2>1, <2>2, <2>3, <2>4 DEF Update, UpdateActive, UpdateBackoff,
       UpdateAbsent, UpdateUnschedulable, Delete, Has, Empty
  <2>5. ASSUME NEW w \in Workers, WorkerStep(w) PROVE NoLostWakeup'
    BY <2>1, <2>2, <2>3, <2>5 DEF WorkerStep, PopWait, PopClosed, SchedulingCycle,
       Done, AddUnschedulableIfNotPresent, AddIfNotPresent, Pop, queues
  <2>. QED
    BY <2>1, <2>2, <2>4, <2>5 DEF Next, Add, BackoffExpires,
       DeleteNominatedStackIfExists, UpdateNominatedStackForSite,
       MoveAllToActiveQueue, flushUnschedulableQLeftover, Move,
       flushBackoffQCompleted, Close, vars, queues
<1>. QED
  BY <1>1, <1>2, QueueConsistent, PTL DEF Spec

(* No call drops a stack: it leaves the sub-queues to a worker or because  *)
(* it is deleted, and what the informer delivers is queued.                *)
THEOREM StacksNotLost == Spec => NoStackLost
<1> DEFINE Kept(s) == InQueue(s) \/ latest'[s] # latest[s] =>
               \/ InQueue(s)' \/ s \notin live'
               \/ \E w \in Workers : held[w] = NoStack /\ held'[w].stack = s
<1>1. QueueInv /\ [Next]_vars => [\A s \in Stacks : Kept(s)]_vars
  <2> SUFFICES ASSUME QueueInv, Next, NEW t \in Stacks PROVE Kept(t)
    BY DEF vars
  <2>0. /\ TypeOK /\ Apart(t)
        /\ activeQ \in [Stacks -> 0..MaxVersion]
        /\ stackBackoffQ \in [Stacks -> 0..MaxVersion]
        /\ unschedulableQ \in [Stacks -> 0..MaxVersion]
        /\ held \in [Workers -> Work] /\ latest \in [Stacks -> 0..MaxVersion]
    BY OneQueueApart DEF QueueInv, TypeOK, Queue
  <2>d. ASSUME NEW s \in Stacks, Deliver(s)
        PROVE  /\ latest'[s] # 0
               /\ t # s => latest'[t] = latest[t]
    BY <2>0, <2>d, DeliverTyped
  <2> USE <2>0 DEF InQueue, Has, Put, Take
  <2>1. ASSUME NEW s \in Stacks, Add(s) \/ UpdateAbsent(s) PROVE Kept(t)
    BY <2>1, <2>d DEF Add, UpdateAbsent
  <2>2. ASSUME NEW s \in Stacks, UpdateActive(s) \/ UpdateBackoff(s)
        PROVE  Kept(t)
    BY <2>2, <2>d DEF UpdateActive, UpdateBackoff
  <2>3. ASSUME NEW s \in Stacks, NEW changed \in BOOLEAN,
               UpdateUnschedulable(s, changed)
        PROVE  Kept(t)
    BY <2>3, <2>d DEF UpdateUnschedulable
  <2>4. ASSUME NEW s \in Stacks, Delete(s) PROVE Kept(t)
    BY <2>4 DEF Delete
  <2>5. ASSUME NEW w \in Workers, NEW s \in Stacks, Pop(w, s) PROVE Kept(t)
    BY <2>5 DEF Pop, Free
  <2>6. ASSUME NEW w \in Workers,
               AddUnschedulableIfNotPresent(w) \/ AddIfNotPresent(w)
        PROVE  Kept(t)
    <3>1. held[w].stack \in Stacks /\ held[w].version \in 1..MaxVersion
      BY <2>6 DEF Work, AddUnschedulableIfNotPresent, AddIfNotPresent
    <3>. QED
      BY <2>6, <3>1 DEF AddUnschedulableIfNotPresent, AddIfNotPresent, queues
  <2>7. ASSUME NEW ss \in SUBSET Unschedulable, Move(ss) PROVE Kept(t)
    BY <2>7 DEF Move, Unschedulable
  <2>8. CASE flushBackoffQCompleted
    BY <2>8 DEF flushBackoffQCompleted
  <2>9. ASSUME UNCHANGED <<queues, latest>> PROVE Kept(t)
    BY <2>9 DEF queues
  <2>. QED
    BY <2>1, <2>2, <2>3, <2>4, <2>5, <2>6, <2>7, <2>8, <2>9
       DEF Next, Update, WorkerStep, PopWait, PopClosed, SchedulingCycle, Done,
           BackoffExpires, DeleteNominatedStackIfExists,
           UpdateNominatedStackForSite, MoveAllToActiveQueue,
           flushUnschedulableQLeftover, Close
<1>. QED
  BY <1>1, QueueConsistent, PTL DEF Spec, NoStackLost
-----------------------------------------------------------------------------
(* What passed and older say about each other: a stack that was popped     *)
(* ahead of another one is younger than it if it is queued again.          *)
PassedInv ==
    \A s, t \in Stacks :
        <<s, t>> \in passed => /\ s # t /\ Has(activeQ, t)
                               /\ InQueue(s) => <<t, s>> \in older

(* The entry that is stored for s gets the latest timestamp; the order of  *)
(* the others stays.                                                       *)
LEMMA StampOrders ==
    ASSUME NEW s \in Stacks, TypeOK
    PROVE  /\ \A t \in Stacks : t # s => <<t, s>> \in Stamp(s)
           /\ \A t, u \in Stacks : t # s /\ u # s /\ <<t, u>> \in older
                 => <<t, u>> \in Stamp(s)
  BY DEF Stamp

(* A pair that stays in passed keeps PassedInv when the younger stack is   *)
(* stamped, or neither is touched.                                         *)
LEMMA PassedStep ==
    ASSUME QueueInv, PassedInv, [Next]_vars
    PROVE  PassedInv'
<1> SUFFICES ASSUME NEW a \in Stacks, NEW b \in Stacks, <<a, b>> \in passed'
             PROVE  /\ a # b /\ Has(activeQ', b)
                    /\ InQueue(a)' => <<b, a>> \in older'
  BY DEF PassedInv, Has, InQueue
<1>0. /\ TypeOK /\ Apart(a) /\ Apart(b)
      /\ activeQ \in [Stacks -> 0..MaxVersion]
      /\ stackBackoffQ \in [Stacks -> 0..MaxVersion]
      /\ unschedulableQ \in [Stacks -> 0..MaxVersion]
      /\ held \in [Workers -> Work] /\ latest \in [Stacks -> 0..MaxVersion]
  BY OneQueueApart DEF QueueInv, TypeOK, Queue
<1>1. <<a, b>> \in passed => /\ a # b /\ Has(activeQ, b)
                             /\ InQueue(a) => <<b, a>> \in older
  BY DEF PassedInv
<1> USE <1>0 DEF InQueue, Has, Put, Take
<1> DEFINE Goal == /\ a # b /\ Has(activeQ', b)
                   /\ InQueue(a)' => <<b, a>> \in older'
<1>d. ASSUME NEW s \in Stacks, Deliver(s) PROVE latest'[s] # 0
  BY <1>d, DeliverTyped
<1>2. ASSUME NEW s \in Stacks, Add(s) \/ UpdateAbsent(s) PROVE Goal
  BY <1>1, <1>2, <1>d, StampOrders DEF Add, UpdateAbsent
<1>3. ASSUME NEW s \in Stacks, UpdateActive(s) \/ UpdateBackoff(s) PROVE Goal
  BY <1>1, <1>3, <1>d DEF UpdateActive, UpdateBackoff
<1>4. ASSUME NEW s \in Stacks, NEW changed \in BOOLEAN,
             UpdateUnschedulable(s, changed)
      PROVE  Goal
  BY <1>1, <1>4, <1>d DEF UpdateUnschedulable
<1>5. ASSUME NEW s \in Stacks, Delete(s) PROVE Goal
  BY <1>1, <1>5 DEF Delete
<1>6. ASSUME NEW w \in Workers, NEW s \in Stacks, Pop(w, s) PROVE Goal
  <2>1. /\ activeQ' = [activeQ EXCEPT ![s] = 0] /\ older' = older
        /\ UNCHANGED <<stackBackoffQ, unschedulableQ>> /\ activeQ[s] # 0
    BY <1>6 DEF Pop, Head
  <2>2. \/ <<a, b>> \in passed /\ b # s
        \/ a = s /\ b # s /\ activeQ[b] # 0
    BY <1>6 DEF Pop
  <2>. QED
    BY <1>1, <2>1, <2>2 DEF Apart
<1>7. ASSUME NEW w \in Workers,
             AddUnschedulableIfNotPresent(w) \/ AddIfNotPresent(w)
      PROVE  Goal
  <2>1. held[w].stack \in Stacks /\ held[w].version \in 1..MaxVersion
    BY <1>7 DEF Work, AddUnschedulableIfNotPresent, AddIfNotPresent
  <2>. QED
    BY <1>1, <1>7, <2>1, StampOrders
       DEF AddUnschedulableIfNotPresent, AddIfNotPresent, queues
<1>8. ASSUME NEW ss \in SUBSET Unschedulable, Move(ss) PROVE Goal
  BY <1>1, <1>8 DEF Move, Unschedulable
<1>9. CASE flushBackoffQCompleted
  BY <1>1, <1>9 DEF flushBackoffQCompleted
<1>10. ASSUME UNCHANGED <<queues, older, passed>> PROVE Goal
  BY <1>1, <1>10 DEF queues
<1>. QED
  BY <1>2, <1>3, <1>4, <1>5, <1>6, <1>7, <1>8, <1>9, <1>10
     DEF Next, Update, WorkerStep, PopWait, PopClosed, SchedulingCycle, Done,
         BackoffExpires, DeleteNominatedStackIfExists,
         UpdateNominatedStackForSite, MoveAllToActiveQueue,
         flushUnschedulableQLeftover, Close, vars

(* Only Pop gives a worker that has no stack one: the head of activeQ.     *)
LEMMA HeldByPop ==
    ASSUME QueueInv, [Next]_vars, NEW w \in Workers, NEW s \in Stacks,
           held[w] = NoStack, held'[w].stack = s
    PROVE  Pop(w, s)
<1>0. held \in [Workers -> Work] /\ NoStack.stack # s
  BY ConstantsAssumption DEF QueueInv, TypeOK, NoStack
<1>1. ASSUME NEW v \in Workers, WorkerStep(v) PROVE Pop(w, s)
  <2>1. ASSUME NEW t \in Stacks, Pop(v, t) PROVE Pop(w, s)
    <3>1. held' = [held EXCEPT ![v] = [stack |-> t, version |-> activeQ[t],
                                       cycle |-> -1, moved |-> FALSE]]
      BY <2>1 DEF Pop
    <3>2. v = w
      BY <1>0, <3>1
    <3>3. t = s
      BY <1>0, <3>1, <3>2
    <3>. QED
      BY <2>1, <3>2, <3>3
  <2>2. CASE UNCHANGED held
    BY <1>0, <2>2
  <2>3. CASE held' = [held EXCEPT ![v] = NoStack]
    BY <1>0, <2>3
  <2>4. CASE SchedulingCycle(v)
    BY <1>0, <2>4 DEF SchedulingCycle
  <2>. QED
    BY <1>1, <2>1, <2>2, <2>3, <2>4
       DEF WorkerStep, PopWait, PopClosed, Done, AddUnschedulableIfNotPresent,
           AddIfNotPresent
<1>2. ASSUME NEW ss, Move(ss) PROVE FALSE
  BY <1>0, <1>2 DEF Move
<1>3. ASSUME UNCHANGED held PROVE FALSE
  BY <1>0, <1>3
<1>. QED
  BY <1>1, <1>2, <1>3
     DEF Next, Add, Update, UpdateActive, UpdateBackoff, UpdateAbsent,
         UpdateUnschedulable, Delete, BackoffExpires,
         DeleteNominatedStackIfExists, UpdateNominatedStackForSite,
         MoveAllToActiveQueue, flushUnschedulableQLeftover,
         flushBackoffQCompleted, Close, vars

(* However many workers bring stacks back, and whatever the informer does: *)
(* while a stack waits in activeQ, another one overtakes it at most once.  *)
THEOREM NoStarvation == Spec => OvertakenOnce
<1>1. Init => PassedInv
  BY DEF Init, PassedInv
<1>2. QueueInv /\ PassedInv /\ [Next]_vars => PassedInv'
  BY PassedStep
<1> DEFINE Once == \A w \in Workers : \A s, t \in Stacks :
              held[w] = NoStack /\ held'[w].stack = s /\ t # s /\ Has(activeQ, t)
                 => <<s, t>> \notin passed
<1>3. QueueInv /\ PassedInv /\ [Next]_vars => [Once]_vars
  <2> SUFFICES ASSUME QueueInv, PassedInv, [Next]_vars, NEW w \in Workers,
                      NEW s \in Stacks, NEW t \in Stacks,
                      held[w] = NoStack, held'[w].stack = s, t # s,
                      Has(activeQ, t), <<s, t>> \in passed
               PROVE  FALSE
    OBVIOUS
  <2>1. Head(s)
    BY HeldByPop DEF Pop
  <2>2. <<t, s>> \in older
    BY <2>1 DEF PassedInv, Head, InQueue
  <2>. QED
    BY <2>1, <2>2 DEF Head
<1>. QED
  BY <1>1, <1>2, <1>3, QueueConsistent, PTL DEF Spec, OvertakenOnce
-----------------------------------------------------------------------------
(* What the scheduler relies on when it runs one pod worker.               *)
OneWorker == \E w : Workers = {w}

(* QueuesAreCurrent, with the version of the stack that the worker has:    *)
(* it may be outdated only while a newer one is queued.                    *)
CurrentInv ==
    \A s \in live :
        /\ Has(activeQ, s) => activeQ[s] = latest[s]
        /\ Has(stackBackoffQ, s) => stackBackoffQ[s] = latest[s]
        /\ Has(unschedulableQ, s) => unschedulableQ[s] = latest[s]
        /\ \A w \in Workers : held[w].stack = s /\ ~InQueue(s)
                                => held[w].version = latest[s]

(* CurrentInv for the stack t.                                             *)
LEMMA CurrentStep ==
    ASSUME OneWorker, QueueInv, CurrentInv, [Next]_vars
    PROVE  CurrentInv'
<1> SUFFICES ASSUME NEW t \in Stacks, t \in live', NEW x \in Workers
             PROVE  /\ Has(activeQ', t) => activeQ'[t] = latest'[t]
                    /\ Has(stackBackoffQ', t) => stackBackoffQ'[t] = latest'[t]
                    /\ Has(unschedulableQ', t) => unschedulableQ'[t] = latest'[t]
                    /\ held'[x].stack = t /\ ~InQueue(t)'
                          => held'[x].version = latest'[t]
  <2>1. live' \subseteq Stacks /\ \E w : w \in Workers
    BY TypeStep DEF QueueInv, RestTyped, OneWorker
  <2>. QED
    BY <2>1 DEF CurrentInv, Has, InQueue
<1>0. /\ TypeOK /\ Apart(t)
      /\ activeQ \in [Stacks -> 0..MaxVersion]
      /\ stackBackoffQ \in [Stacks -> 0..MaxVersion]
      /\ unschedulableQ \in [Stacks -> 0..MaxVersion]
      /\ held \in [Workers -> Work] /\ latest \in [Stacks -> 0..MaxVersion]
      /\ live \subseteq Stacks
  BY OneQueueApart DEF QueueInv, TypeOK, Queue
<1> USE <1>0 DEF InQueue, Has, Put, Take
<1>1. t \in live => /\ Has(activeQ, t) => activeQ[t] = latest[t]
                    /\ Has(stackBackoffQ, t) => stackBackoffQ[t] = latest[t]
                    /\ Has(unschedulableQ, t) => unschedulableQ[t] = latest[t]
                    /\ held[x].stack = t /\ ~InQueue(t)
                          => held[x].version = latest[t]
  BY DEF CurrentInv
<1>o. \A w \in Workers : w = x
  BY DEF OneWorker
<1> DEFINE Goal == /\ Has(activeQ', t) => activeQ'[t] = latest'[t]
                   /\ Has(stackBackoffQ', t) => stackBackoffQ'[t] = latest'[t]
                   /\ Has(unschedulableQ', t) => unschedulableQ'[t] = latest'[t]
                   /\ held'[x].stack = t /\ ~InQueue(t)'
                         => held'[x].version = latest'[t]
<1>d. ASSUME NEW s \in Stacks, Deliver(s)
      PROVE  /\ latest'[s] # 0 /\ live' = live \cup {s}
             /\ t # s => latest'[t] = latest[t]
  BY <1>d, DeliverTyped DEF Deliver
<1>2. ASSUME NEW s \in Stacks, Add(s) \/ UpdateAbsent(s) PROVE Goal
  BY <1>1, <1>2, <1>d DEF Add, UpdateAbsent
<1>3. ASSUME NEW s \in Stacks, UpdateActive(s) \/ UpdateBackoff(s) PROVE Goal
  BY <1>1, <1>3, <1>d DEF UpdateActive, UpdateBackoff, Apart
<1>4. ASSUME NEW s \in Stacks, NEW changed \in BOOLEAN,
             UpdateUnschedulable(s, changed)
      PROVE  Goal
  BY <1>1, <1>4, <1>d DEF UpdateUnschedulable
<1>5. ASSUME NEW s \in Stacks, Delete(s) PROVE Goal
  BY <1>1, <1>5 DEF Delete
<1>6. ASSUME NEW w \in Workers, NEW s \in Stacks, Pop(w, s) PROVE Goal
  <2>1. /\ held' = [held EXCEPT ![x] = [stack |-> s, version |-> activeQ[s],
                                        cycle |-> -1, moved |-> FALSE]]
        /\ activeQ' = Take(activeQ, s) /\ activeQ[s] # 0
        /\ UNCHANGED <<latest, live, stackBackoffQ, unschedulableQ>>
    BY <1>6, <1>o DEF Pop, Head
  <2>. QED
    BY <1>1, <2>1
<1>7. ASSUME NEW w \in Workers,
             AddUnschedulableIfNotPresent(w) \/ AddIfNotPresent(w)
      PROVE  Goal
  <2>1. /\ held[x].stack \in Stacks /\ held[x].version \in 1..MaxVersion
        /\ held' = [held EXCEPT ![x] = NoStack] /\ NoStack.stack # t
    BY <1>7, <1>o, ConstantsAssumption
       DEF Work, AddUnschedulableIfNotPresent, AddIfNotPresent, NoStack
  <2>. QED
    BY <1>1, <1>7, <1>o, <2>1
       DEF AddUnschedulableIfNotPresent, AddIfNotPresent, queues
<1>8. ASSUME NEW ss \in SUBSET Unschedulable, Move(ss) PROVE Goal
  <2>1. held'[x].stack = held[x].stack /\ held'[x].version = held[x].version
    BY <1>8 DEF Move, Work
  <2>. QED
    BY <1>1, <1>8, <2>1 DEF Move, Unschedulable, Apart
<1>9. CASE flushBackoffQCompleted
  BY <1>1, <1>9 DEF flushBackoffQCompleted, Apart
<1>10. ASSUME NEW w \in Workers, SchedulingCycle(w) \/ Done(w) PROVE Goal
  <2>1. \/ held' = [held EXCEPT ![x] = NoStack]
        \/ held' = [held EXCEPT ![x].cycle = schedulingCycle] /\ held[x] # NoStack
    BY <1>10, <1>o DEF SchedulingCycle, Done
  <2>2. NoStack.stack # t
    BY ConstantsAssumption DEF NoStack
  <2>3. held'[x].stack = t => /\ held[x].stack = t
                              /\ held'[x].version = held[x].version
    BY <2>1, <2>2 DEF Work
  <2>. QED
    BY <1>1, <1>10, <2>3 DEF SchedulingCycle, Done, queues
<1>11. ASSUME UNCHANGED <<queues, latest, live, held>> PROVE Goal
  BY <1>1, <1>11 DEF queues
<1>. QED
  BY <1>2, <1>3, <1>4, <1>5, <1>6, <1>7, <1>8, <1>9, <1>10, <1>11
     DEF Next, Update, WorkerStep, PopWait, PopClosed, BackoffExpires,
         DeleteNominatedStackIfExists, UpdateNominatedStackForSite,
         MoveAllToActiveQueue, flushUnschedulableQLeftover, Close, vars

(* With one pod worker the sub-queues never hold an outdated version of a  *)
(* stack, although that worker brings back the version it popped while the *)
(* informer may have delivered later ones.                                 *)
THEOREM QueuedVersionsCurrent ==
    ASSUME OneWorker
    PROVE  Spec => []QueuesAreCurrent
<1>1. Init => CurrentInv
  BY DEF Init, CurrentInv
<1>2. QueueInv /\ CurrentInv /\ [Next]_vars => CurrentInv'
  BY CurrentStep
<1>3. CurrentInv => QueuesAreCurrent
  BY DEF CurrentInv, QueuesAreCurrent
<1>. QED
  BY <1>1, <1>2, <1>3, QueueConsistent, PTL DEF Spec

(* The move request that came while the worker has a stack is not older    *)
(* than the cycle in which the worker popped it.                           *)
MoveInv ==
    \A w \in Workers : held[w] # NoStack =>
        /\ held[w].cycle <= schedulingCycle
        /\ held[w].moved => moveRequestCycle = schedulingCycle

(* One worker pops no other stack, and starts no cycle, before it is done. *)
LEMMA MoveStep ==
    ASSUME OneWorker, QueueInv, MoveInv, [Next]_vars
    PROVE  MoveInv'
<1> SUFFICES ASSUME NEW x \in Workers, held'[x] # NoStack
             PROVE  /\ held'[x].cycle <= schedulingCycle'
                    /\ held'[x].moved => moveRequestCycle' = schedulingCycle'
  BY DEF MoveInv
<1>0. /\ held \in [Workers -> Work] /\ schedulingCycle \in 0..MaxCycle
      /\ \A w \in Workers : w = x
  BY DEF QueueInv, TypeOK, OneWorker
<1>1. held[x] # NoStack =>
          /\ held[x].cycle <= schedulingCycle /\ held[x].cycle \in -1..MaxCycle
          /\ held[x].moved => moveRequestCycle = schedulingCycle
  BY <1>0 DEF MoveInv, Work
<1> DEFINE Goal == /\ held'[x].cycle <= schedulingCycle'
                   /\ held'[x].moved => moveRequestCycle' = schedulingCycle'
<1> USE <1>0, ConstantsAssumption
<1>2. ASSUME NEW w \in Workers, NEW s \in Stacks, Pop(w, s) PROVE Goal
  <2>1. /\ held' = [held EXCEPT ![x] = [stack |-> s, version |-> activeQ[s],
                                        cycle |-> -1, moved |-> FALSE]]
        /\ schedulingCycle' = schedulingCycle + 1
    BY <1>2 DEF Pop
  <2>2. held'[x].cycle = -1 /\ held'[x].moved = FALSE
    BY <2>1
  <2>. QED
    BY <2>1, <2>2
<1>3. ASSUME NEW w \in Workers, SchedulingCycle(w) PROVE Goal
  <2>1. /\ held' = [held EXCEPT ![x].cycle = schedulingCycle]
        /\ held[x] # NoStack
        /\ UNCHANGED <<schedulingCycle, moveRequestCycle>>
    BY <1>3 DEF SchedulingCycle
  <2>2. held'[x].cycle = schedulingCycle /\ held'[x].moved = held[x].moved
    BY <2>1 DEF Work
  <2>. QED
    BY <1>1, <2>1, <2>2
<1>4. ASSUME NEW ss, Move(ss) PROVE Goal
  <2>1. /\ held'[x].cycle = held[x].cycle /\ held[x] # NoStack
        /\ UNCHANGED schedulingCycle /\ moveRequestCycle' = schedulingCycle
    BY <1>4 DEF Move, Work
  <2>. QED
    BY <1>1, <2>1
<1>5. ASSUME UNCHANGED <<schedulingCycle, moveRequestCycle>>,
             held'[x] = held[x] \/ held'[x] = NoStack
      PROVE  Goal
  BY <1>1, <1>5
<1>6. ASSUME NEW w \in Workers,
             Done(w) \/ AddUnschedulableIfNotPresent(w) \/ AddIfNotPresent(w)
      PROVE  Goal
  <2>1. held' = [held EXCEPT ![x] = NoStack]
    BY <1>6 DEF Done, AddUnschedulableIfNotPresent, AddIfNotPresent
  <2>. QED
    BY <2>1
<1>. QED
  BY <1>2, <1>3, <1>4, <1>5, <1>6
     DEF Next, Add, Update, UpdateActive, UpdateBackoff, UpdateAbsent,
         UpdateUnschedulable, Delete, WorkerStep, PopWait, PopClosed,
         BackoffExpires, DeleteNominatedStackIfExists,
         UpdateNominatedStackForSite, MoveAllToActiveQueue,
         flushUnschedulableQLeftover, flushBackoffQCompleted, Close, vars

(* With one pod worker, a stack that was being tried when a move request   *)
(* came is not parked in unschedulableQ: AddUnschedulableIfNotPresent sees *)
(* that the request is not older than the cycle the worker read.           *)
THEOREM MovesNotMissed ==
    ASSUME OneWorker
    PROVE  Spec => NoMissedMove
<1> DEFINE Seen == \A w \in Workers : \A s \in Stacks :
              held[w].stack = s /\ held[w].moved /\ ~Has(unschedulableQ, s)
                 => ~Has(unschedulableQ', s)
<1>1. Init => MoveInv
  BY DEF Init, MoveInv
<1>2. QueueInv /\ MoveInv /\ [Next]_vars => MoveInv'
  BY MoveStep
<1>3. QueueInv /\ MoveInv /\ [Next]_vars => [Seen]_vars
  <2> SUFFICES ASSUME QueueInv, MoveInv, Next, NEW x \in Workers,
                      NEW t \in Stacks, held[x].stack = t, held[x].moved,
                      ~Has(unschedulableQ, t)
               PROVE  ~Has(unschedulableQ', t)
    BY DEF vars
  <2>0. /\ TypeOK /\ unschedulableQ \in [Stacks -> 0..MaxVersion]
        /\ held \in [Workers -> Work] /\ schedulingCycle \in 0..MaxCycle
        /\ \A w \in Workers : w = x
    BY DEF QueueInv, TypeOK, OneWorker, Queue
  <2>1. /\ held[x] # NoStack /\ held[x].cycle \in -1..MaxCycle
        /\ moveRequestCycle >= held[x].cycle
    <3>1. NoStack.stack # t
      BY ConstantsAssumption DEF NoStack
    <3>2. held[x] # NoStack /\ held[x].cycle \in -1..MaxCycle
      BY <2>0, <3>1 DEF Work
    <3>. QED
      BY <2>0, <3>2, ConstantsAssumption DEF MoveInv
  <2> USE <2>0 DEF Has, Put, Take
  <2>2. ASSUME NEW s \in Stacks, NEW changed \in BOOLEAN,
               UpdateUnschedulable(s, changed)
        PROVE  ~Has(unschedulableQ', t)
    BY <2>2 DEF UpdateUnschedulable
  <2>3. ASSUME NEW s \in Stacks, Add(s) \/ Delete(s)
        PROVE  ~Has(unschedulableQ', t)
    BY <2>3 DEF Add, Delete
  <2>4. ASSUME NEW w \in Workers, AddUnschedulableIfNotPresent(w)
        PROVE  ~Has(unschedulableQ', t)
    BY <2>1, <2>4 DEF AddUnschedulableIfNotPresent, queues
  <2>5. ASSUME NEW ss, Move(ss) PROVE ~Has(unschedulableQ', t)
    BY <2>5 DEF Move
  <2>6. ASSUME UNCHANGED unschedulableQ PROVE ~Has(unschedulableQ', t)
    BY <2>6
  <2>. QED
    BY <2>2, <2>3, <2>4, <2>5, <2>6
       DEF Next, Update, UpdateActive, UpdateBackoff, UpdateAbsent, WorkerStep,
           PopWait, PopClosed, SchedulingCycle, Done, AddIfNotPresent, Pop,
           BackoffExpires, DeleteNominatedStackIfExists,
           UpdateNominatedStackForSite, MoveAllToActiveQueue,
           flushUnschedulableQLeftover, flushBackoffQCompleted, Close, queues
<1>. QED
  BY <1>1, <1>2, <1>3, QueueConsistent, PTL DEF Spec, NoMissedMove
=============================================================================
