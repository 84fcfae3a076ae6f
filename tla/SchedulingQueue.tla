--------------------------- MODULE SchedulingQueue ---------------------------
(***************************************************************************)
(* The scheduler's PriorityQueue of stacks (pkg/scheduler/internal/queue), *)
(* with the callers of its interface: the pod informer (Add, Update,       *)
(* Delete), the pod workers (Pop and, for a stack that did not fit,        *)
(* AddUnschedulableIfNotPresent), the two flush goroutines, and the event  *)
(* handlers that move or nominate stacks.  Every method runs under p.lock  *)
(* and is one action; Pop gives the lock up in cond.Wait.                  *)
(*                                                                         *)
(* The heaps are keyed by tenant/namespace/name, unschedulableQ by name    *)
(* and namespace: the two agree for the stacks of one tenant, which is     *)
(* what Stacks stands for.  All stacks have the same priority              *)
(* (GetStackPriority), so activeQ is ordered by timestamp.                 *)
(***************************************************************************)
EXTENDS Integers, FiniteSets

CONSTANTS Stacks, Workers, Sites,
          NoSite,       \* the empty site id
          MaxVersion,   \* bound: versions of a stack the informer delivers
          MaxCycle      \* bound: scheduling cycles

ASSUME ConstantsAssumption ==
    /\ MaxVersion \in Nat /\ MaxCycle \in Nat
    /\ NoSite \notin Sites /\ "none" \notin Stacks

VARIABLES
    latest,     \* version of each stack the informer delivered last, 0: none
    live,       \* the stacks that were added and not deleted
    activeQ, stackBackoffQ, unschedulableQ,
                \* version of each stack in the sub-queue, 0: not there
    older,      \* <<s, t>>: the entry of s has an earlier timestamp than t's
    stackBackoff,           \* state of each stack's backoff timer
    schedulingCycle, moveRequestCycle,
    nominatedStackToSite, nominatedStacks,
    closed,
    waiting,    \* the workers in cond.Wait
    held,       \* the stack each worker popped and still works on
    stopped,    \* the workers whose loop has ended
    passed      \* observation: <<s, t>>: s was popped since t is in activeQ

queues == <<activeQ, stackBackoffQ, unschedulableQ>>
nominated == <<nominatedStackToSite, nominatedStacks>>
vars == <<latest, live, queues, older, stackBackoff, schedulingCycle,
          moveRequestCycle, nominated, closed, waiting, held, stopped, passed>>

Queue == [Stacks -> 0..MaxVersion]

NoStack == [stack |-> "none", version |-> 0, cycle |-> 0, moved |-> FALSE]

\* cycle is -1 until the worker calls SchedulingCycle().  moved is an
\* observation: a move request came while the worker had the stack.
Work == [stack : Stacks, version : 1..MaxVersion, cycle : -1..MaxCycle,
         moved : BOOLEAN] \cup {NoStack}

TypeOK ==
    /\ latest \in Queue /\ live \subseteq Stacks
    /\ activeQ \in Queue /\ stackBackoffQ \in Queue /\ unschedulableQ \in Queue
    /\ older \subseteq Stacks \X Stacks
    /\ stackBackoff \in [Stacks -> {"none", "running", "over"}]
    /\ schedulingCycle \in 0..MaxCycle /\ moveRequestCycle \in -1..MaxCycle
    /\ nominatedStackToSite \in [Stacks -> Sites \cup {NoSite}]
    /\ nominatedStacks \in [Sites -> SUBSET Stacks]
    /\ closed \in BOOLEAN /\ waiting \subseteq Workers
    /\ held \in [Workers -> Work] /\ stopped \subseteq Workers
    /\ passed \subseteq Stacks \X Stacks

Empty == [s \in Stacks |-> 0]

Init ==
    /\ latest = Empty /\ live = {}
    /\ activeQ = Empty /\ stackBackoffQ = Empty /\ unschedulableQ = Empty
    /\ older = {} /\ stackBackoff = [s \in Stacks |-> "none"]
    /\ schedulingCycle = 0 /\ moveRequestCycle = -1
    /\ nominatedStackToSite = [s \in Stacks |-> NoSite]
    /\ nominatedStacks = [n \in Sites |-> {}]
    /\ closed = FALSE /\ waiting = {}
    /\ held = [w \in Workers |-> NoStack] /\ stopped = {} /\ passed = {}
-----------------------------------------------------------------------------
(* Helpers.                                                                *)

Has(q, s) == q[s] # 0
InQueue(s) == Has(activeQ, s) \/ Has(stackBackoffQ, s) \/ Has(unschedulableQ, s)

Put(q, s, v) == [q EXCEPT ![s] = v]
Take(q, s) == [q EXCEPT ![s] = 0]

\* newStackInfo: the entry stored for s is the youngest of all.
Stamp(s) == {p \in older : p[1] # s /\ p[2] # s}
                \cup {<<t, s>> : t \in Stacks \ {s}}

\* cond.Broadcast wakes every worker that waits in Pop.
Broadcast == waiting' = {}

\* nominatedStackMap.add and .delete, on the pair of maps m.  The stacks
\* carry no nominated site of their own (NominatedSiteID is "").
nominatedDelete(m, s) ==
    IF m[1][s] = NoSite THEN m
    ELSE <<[m[1] EXCEPT ![s] = NoSite],
           [m[2] EXCEPT ![m[1][s]] = @ \ {s}]>>

nominatedAdd(m, s, n) ==
    LET d == nominatedDelete(m, s)
    IN  IF n = NoSite THEN d
        ELSE <<[d[1] EXCEPT ![s] = n], [d[2] EXCEPT ![n] = @ \cup {s}]>>

\* nominatedStackMap.update keeps the site that is reserved for the stack.
nominatedUpdate(m, s) == nominatedAdd(nominatedDelete(m, s), s, m[1][s])

\* Both maps are assigned.
Nominate(m) == nominatedStackToSite' = m[1] /\ nominatedStacks' = m[2]

isStackBackingOff(s) == stackBackoff[s] = "running"
-----------------------------------------------------------------------------
(* The pod informer: each delivery is a new version of the stack.          *)

Deliver(s) ==
    /\ latest[s] < MaxVersion
    /\ latest' = [latest EXCEPT ![s] = @ + 1]
    /\ live' = live \cup {s}

\* Mutant of Add: an entry in unschedulableQ stays there.
AddKeepsUnschedulable(s) ==
    /\ s \notin live /\ Deliver(s)
    /\ activeQ' = Put(activeQ, s, latest'[s])
    /\ older' = Stamp(s)
    /\ stackBackoffQ' = Take(stackBackoffQ, s)
    /\ Nominate(nominatedAdd(nominated, s, NoSite))
    /\ Broadcast
    /\ passed' = {p \in passed : p[2] # s}
    /\ UNCHANGED <<unschedulableQ, stackBackoff, schedulingCycle,
                   moveRequestCycle, closed, held, stopped>>

Add(s) ==
    /\ s \notin live /\ Deliver(s)
    /\ activeQ' = Put(activeQ, s, latest'[s])
    /\ older' = Stamp(s)
    /\ unschedulableQ' = Take(unschedulableQ, s)
    /\ stackBackoffQ' = Take(stackBackoffQ, s)
    /\ Nominate(nominatedAdd(nominated, s, NoSite))
    /\ Broadcast
    /\ passed' = {p \in passed : p[2] # s}
    /\ UNCHANGED <<stackBackoff, schedulingCycle, moveRequestCycle, closed,
                   held, stopped>>

\* Update of a stack in activeQ: replaced there, with its timestamp.
UpdateActive(s) ==
    /\ s \in live /\ Deliver(s)
    /\ Has(activeQ, s)
    /\ Nominate(nominatedUpdate(nominated, s))
    /\ activeQ' = Put(activeQ, s, latest'[s])
    /\ UNCHANGED <<stackBackoffQ, unschedulableQ, older, stackBackoff,
                   schedulingCycle, moveRequestCycle, closed, waiting, held,
                   stopped, passed>>

\* Mutant of UpdateBackoff: taken from stackBackoffQ, not put into activeQ.
UpdateBackoffDrops(s) ==
    /\ s \in live /\ Deliver(s)
    /\ ~Has(activeQ, s) /\ Has(stackBackoffQ, s)
    /\ Nominate(nominatedUpdate(nominated, s))
    /\ stackBackoffQ' = Take(stackBackoffQ, s)
    /\ Broadcast
    /\ UNCHANGED <<activeQ, unschedulableQ, older, stackBackoff,
                   schedulingCycle, moveRequestCycle, closed, held, stopped,
                   passed>>

\* Update of a stack in stackBackoffQ: it goes to activeQ at once.
UpdateBackoff(s) ==
    /\ s \in live /\ Deliver(s)
    /\ ~Has(activeQ, s) /\ Has(stackBackoffQ, s)
    /\ Nominate(nominatedUpdate(nominated, s))
    /\ stackBackoffQ' = Take(stackBackoffQ, s)
    /\ activeQ' = Put(activeQ, s, latest'[s])
    /\ Broadcast
    /\ UNCHANGED <<unschedulableQ, older, stackBackoff, schedulingCycle,
                   moveRequestCycle, closed, held, stopped, passed>>

\* Mutant of UpdateUnschedulable: an unchanged stack is not replaced.
UpdateUnschedulableKeepsOld(s, changed) ==
    /\ s \in live /\ Deliver(s)
    /\ ~Has(activeQ, s) /\ ~Has(stackBackoffQ, s) /\ Has(unschedulableQ, s)
    /\ Nominate(nominatedUpdate(nominated, s))
    /\ IF changed
       THEN /\ stackBackoff' = [stackBackoff EXCEPT ![s] = "none"]
            /\ unschedulableQ' = Take(unschedulableQ, s)
            /\ activeQ' = Put(activeQ, s, latest'[s])
            /\ Broadcast
       ELSE UNCHANGED <<unschedulableQ, stackBackoff, activeQ, waiting>>
    /\ UNCHANGED <<stackBackoffQ, older, schedulingCycle, moveRequestCycle,
                   closed, held, stopped, passed>>

\* Update of a stack in unschedulableQ; changed is isStackUpdated.
UpdateUnschedulable(s, changed) ==
    /\ s \in live /\ Deliver(s)
    /\ ~Has(activeQ, s) /\ ~Has(stackBackoffQ, s) /\ Has(unschedulableQ, s)
    /\ Nominate(nominatedUpdate(nominated, s))
    /\ IF changed
       THEN /\ stackBackoff' = [stackBackoff EXCEPT ![s] = "none"]
            /\ unschedulableQ' = Take(unschedulableQ, s)
            /\ activeQ' = Put(activeQ, s, latest'[s])
            /\ Broadcast
       ELSE /\ unschedulableQ' = Put(unschedulableQ, s, latest'[s])
            /\ UNCHANGED <<stackBackoff, activeQ, waiting>>
    /\ UNCHANGED <<stackBackoffQ, older, schedulingCycle, moveRequestCycle,
                   closed, held, stopped, passed>>

\* Update of a stack in no queue (a worker has it, or is done with it).
UpdateAbsent(s) ==
    /\ s \in live /\ Deliver(s)
    /\ ~InQueue(s)
    /\ activeQ' = Put(activeQ, s, latest'[s])
    /\ older' = Stamp(s)
    /\ Nominate(nominatedAdd(nominated, s, NoSite))
    /\ Broadcast
    /\ UNCHANGED <<stackBackoffQ, unschedulableQ, stackBackoff,
                   schedulingCycle, moveRequestCycle, closed, held, stopped, passed>>

Update(s) ==
    \/ UpdateActive(s) \/ UpdateBackoff(s) \/ UpdateAbsent(s)
    \/ \E changed \in BOOLEAN : UpdateUnschedulable(s, changed)

\* The other queues are cleaned only when the stack is not in activeQ.
Delete(s) ==
    /\ s \in live
    /\ live' = live \ {s}
    /\ Nominate(nominatedDelete(nominated, s))
    /\ activeQ' = Take(activeQ, s)
    /\ IF Has(activeQ, s)
       THEN UNCHANGED <<stackBackoff, stackBackoffQ, unschedulableQ>>
       ELSE /\ stackBackoff' = [stackBackoff EXCEPT ![s] = "none"]
            /\ stackBackoffQ' = Take(stackBackoffQ, s)
            /\ unschedulableQ' = Take(unschedulableQ, s)
    /\ passed' = {p \in passed : p[2] # s}
    /\ UNCHANGED <<latest, older, schedulingCycle, moveRequestCycle, closed,
                   waiting, held, stopped>>
-----------------------------------------------------------------------------
(* The pod workers.                                                        *)

Free(w) == held[w] = NoStack /\ w \notin waiting /\ w \notin stopped

\* Pop blocks: a worker that is awake finds activeQ empty.
PopWait(w) ==
    /\ Free(w)
    /\ activeQ = Empty /\ ~closed
    /\ waiting' = waiting \cup {w}
    /\ UNCHANGED <<latest, live, queues, older, stackBackoff, schedulingCycle,
                   moveRequestCycle, nominated, closed, held, stopped, passed>>

\* Mutant of Head: the youngest entry first.
HeadYoungest(s) ==
    Has(activeQ, s) /\ \A t \in Stacks : Has(activeQ, t) => <<s, t>> \notin older

\* No other entry of activeQ has an earlier timestamp.
Head(s) == Has(activeQ, s) /\ \A t \in Stacks : Has(activeQ, t) => <<t, s>> \notin older

Pop(w, s) ==
    /\ Free(w)
    /\ Head(s)
    /\ schedulingCycle < MaxCycle
    /\ activeQ' = Take(activeQ, s)
    /\ schedulingCycle' = schedulingCycle + 1
    /\ held' = [held EXCEPT ![w] = [stack |-> s, version |-> activeQ[s],
                                    cycle |-> -1, moved |-> FALSE]]
    /\ passed' = {p \in passed : p[2] # s}
                    \cup {<<s, t>> : t \in {u \in Stacks \ {s} : Has(activeQ, u)}}
    /\ UNCHANGED <<latest, live, stackBackoffQ, unschedulableQ, older,
                   stackBackoff, moveRequestCycle, nominated, closed, waiting,
                   stopped>>

\* What scheduleOne returns when Pop returned no stack: TRUE, whether or not
\* there is an error, so runPodWorker calls it again.
scheduleOneContinues(err) == TRUE

\* Pop returns the error of a closed queue.
PopClosed(w) ==
    /\ Free(w)
    /\ activeQ = Empty /\ closed
    /\ stopped' = IF scheduleOneContinues("queueClosed") THEN stopped
                  ELSE stopped \cup {w}
    /\ UNCHANGED <<latest, live, queues, older, stackBackoff, schedulingCycle,
                   moveRequestCycle, nominated, closed, waiting, held, passed>>

\* The worker reads the cycle for a later AddUnschedulableIfNotPresent.
SchedulingCycle(w) ==
    /\ held[w] # NoStack /\ held[w].cycle = -1
    /\ held' = [held EXCEPT ![w].cycle = schedulingCycle]
    /\ UNCHANGED <<latest, live, queues, older, stackBackoff, schedulingCycle,
                   moveRequestCycle, nominated, closed, waiting, stopped, passed>>

\* The worker scheduled the stack, or gave it up.
Done(w) ==
    /\ held[w] # NoStack
    /\ held' = [held EXCEPT ![w] = NoStack]
    /\ UNCHANGED <<latest, live, queues, older, stackBackoff, schedulingCycle,
                   moveRequestCycle, nominated, closed, waiting, stopped, passed>>

\* backoffStack.  Cleaned are the timers that were over for so long that
\* CleanupStacksCompletesBackingoff removes them.
backoffStack(s, cleaned) ==
    stackBackoff' = [t \in Stacks |->
        IF t = s THEN "running"
        ELSE IF t \in cleaned THEN "none" ELSE stackBackoff[t]]

\* Mutant of AddUnschedulableIfNotPresent: > instead of >= (nominations and
\* timestamps left out).
AddUnschedulableTooStrict(w) ==
    LET s == held[w].stack
        v == held[w].version IN
    /\ held[w] # NoStack /\ held[w].cycle # -1
    /\ held' = [held EXCEPT ![w] = NoStack]
    /\ IF InQueue(s)
       THEN UNCHANGED <<queues, stackBackoff>>
       ELSE /\ backoffStack(s, {})
            /\ IF moveRequestCycle > held[w].cycle
               THEN /\ stackBackoffQ' = Put(stackBackoffQ, s, v)
                    /\ UNCHANGED unschedulableQ
               ELSE /\ unschedulableQ' = Put(unschedulableQ, s, v)
                    /\ UNCHANGED stackBackoffQ
            /\ UNCHANGED activeQ
    /\ UNCHANGED <<latest, live, older, schedulingCycle, moveRequestCycle,
                   nominated, closed, waiting, stopped, passed>>

AddUnschedulableIfNotPresent(w) ==
    LET s == held[w].stack
        v == held[w].version IN
    /\ held[w] # NoStack /\ held[w].cycle # -1
    /\ held' = [held EXCEPT ![w] = NoStack]
    /\ IF InQueue(s)
       THEN UNCHANGED <<queues, older, stackBackoff, nominated>>
       ELSE /\ \E cleaned \in SUBSET {t \in Stacks : stackBackoff[t] = "over"} :
                   backoffStack(s, cleaned)
            /\ IF moveRequestCycle >= held[w].cycle
               THEN /\ stackBackoffQ' = Put(stackBackoffQ, s, v)
                    /\ UNCHANGED unschedulableQ
               ELSE /\ unschedulableQ' = Put(unschedulableQ, s, v)
                    /\ UNCHANGED stackBackoffQ
            /\ older' = Stamp(s)
            /\ Nominate(nominatedAdd(nominated, s, NoSite))
            /\ UNCHANGED activeQ
    /\ UNCHANGED <<latest, live, schedulingCycle, moveRequestCycle, closed,
                   waiting, stopped, passed>>

\* The worker puts the stack back for another attempt.
AddIfNotPresent(w) ==
    LET s == held[w].stack IN
    /\ held[w] # NoStack
    /\ held' = [held EXCEPT ![w] = NoStack]
    /\ IF InQueue(s)
       THEN UNCHANGED <<activeQ, older, nominated, waiting>>
       ELSE /\ activeQ' = Put(activeQ, s, held[w].version)
            /\ older' = Stamp(s)
            /\ Nominate(nominatedAdd(nominated, s, NoSite))
            /\ Broadcast
    /\ UNCHANGED <<latest, live, stackBackoffQ, unschedulableQ, stackBackoff,
                   schedulingCycle, moveRequestCycle, closed, stopped, passed>>
-----------------------------------------------------------------------------
(* The flush goroutines, the event handlers and the clock.                 *)

\* The stacks of the set ss leave unschedulableQ.
Move(ss) ==
    /\ stackBackoffQ' = [s \in Stacks |->
           IF s \in ss /\ isStackBackingOff(s) THEN unschedulableQ[s]
           ELSE stackBackoffQ[s]]
    /\ activeQ' = [s \in Stacks |->
           IF s \in ss /\ ~isStackBackingOff(s) THEN unschedulableQ[s]
           ELSE activeQ[s]]
    /\ unschedulableQ' = [s \in Stacks |->
           IF s \in ss THEN 0 ELSE unschedulableQ[s]]
    /\ moveRequestCycle' = schedulingCycle
    /\ held' = [w \in Workers |->
           IF held[w] = NoStack THEN NoStack ELSE [held[w] EXCEPT !.moved = TRUE]]
    /\ Broadcast
    /\ UNCHANGED <<latest, live, older, stackBackoff, schedulingCycle,
                   nominated, closed, stopped, passed>>

Unschedulable == {s \in Stacks : Has(unschedulableQ, s)}

MoveAllToActiveQueue == Move(Unschedulable)

\* Some stacks stayed longer than unschedulableQTimeInterval, 60 s, which is
\* longer than any backoff, 10 s.
flushUnschedulableQLeftover ==
    \E ss \in SUBSET {s \in Unschedulable : ~isStackBackingOff(s)} :
        ss # {} /\ Move(ss)

\* Mutant of flushBackoffQCompleted: nobody is woken.
flushBackoffQSilent ==
    LET ready == {s \in Stacks : Has(stackBackoffQ, s) /\ ~isStackBackingOff(s)}
    IN  /\ ready # {}
        /\ activeQ' = [s \in Stacks |->
               IF s \in ready THEN stackBackoffQ[s] ELSE activeQ[s]]
        /\ stackBackoffQ' = [s \in Stacks |->
               IF s \in ready THEN 0 ELSE stackBackoffQ[s]]
        /\ UNCHANGED <<latest, live, unschedulableQ, older, stackBackoff,
                       schedulingCycle, moveRequestCycle, nominated, closed,
                       waiting, held, stopped, passed>>

\* The heap is popped from its root until the root is backing off.  Entries
\* are pushed with a running timer, so one whose timer is over, or was
\* removed, is never below one that is backing off: all of them are moved.
flushBackoffQCompleted ==
    LET ready == {s \in Stacks : Has(stackBackoffQ, s) /\ ~isStackBackingOff(s)}
    IN  /\ ready # {}
        /\ activeQ' = [s \in Stacks |->
               IF s \in ready THEN stackBackoffQ[s] ELSE activeQ[s]]
        /\ stackBackoffQ' = [s \in Stacks |->
               IF s \in ready THEN 0 ELSE stackBackoffQ[s]]
        /\ Broadcast
        /\ UNCHANGED <<latest, live, unschedulableQ, older, stackBackoff,
                       schedulingCycle, moveRequestCycle, nominated, closed,
                       held, stopped, passed>>

\* The clock passes the end of a backoff (at most maxDuration).
BackoffExpires(s) ==
    /\ stackBackoff[s] = "running"
    /\ stackBackoff' = [stackBackoff EXCEPT ![s] = "over"]
    /\ UNCHANGED <<latest, live, queues, older, schedulingCycle,
                   moveRequestCycle, nominated, closed, waiting, held, stopped, passed>>

UpdateNominatedStackForSite(s, n) ==
    /\ s \in live
    /\ Nominate(nominatedAdd(nominated, s, n))
    /\ UNCHANGED <<latest, live, queues, older, stackBackoff, schedulingCycle,
                   moveRequestCycle, closed, waiting, held, stopped, passed>>

DeleteNominatedStackIfExists(s) ==
    /\ Nominate(nominatedDelete(nominated, s))
    /\ UNCHANGED <<latest, live, queues, older, stackBackoff, schedulingCycle,
                   moveRequestCycle, closed, waiting, held, stopped, passed>>

Close ==
    /\ ~closed /\ closed' = TRUE
    /\ Broadcast
    /\ UNCHANGED <<latest, live, queues, older, stackBackoff, schedulingCycle,
                   moveRequestCycle, nominated, held, stopped, passed>>

WorkerStep(w) ==
    \/ PopWait(w) \/ PopClosed(w) \/ SchedulingCycle(w) \/ Done(w)
    \/ AddUnschedulableIfNotPresent(w) \/ AddIfNotPresent(w)
    \/ \E s \in Stacks : Pop(w, s)

Next ==
    \/ \E s \in Stacks : Add(s) \/ Update(s) \/ Delete(s) \/ BackoffExpires(s)
                            \/ DeleteNominatedStackIfExists(s)
    \/ \E w \in Workers : WorkerStep(w)
    \/ \E s \in Stacks, n \in Sites : UpdateNominatedStackForSite(s, n)
    \/ MoveAllToActiveQueue \/ flushUnschedulableQLeftover
    \/ flushBackoffQCompleted \/ Close

Spec == Init /\ [][Next]_vars
-----------------------------------------------------------------------------
Count(b) == IF b THEN 1 ELSE 0

\* Delete and Update assume that a stack is in one sub-queue only; a second
\* entry would be scheduled again after the stack is deleted.
OneQueue ==
    \A s \in Stacks : Count(Has(activeQ, s)) + Count(Has(stackBackoffQ, s))
                        + Count(Has(unschedulableQ, s)) <= 1

\* A worker sleeps in Pop only while there is nothing to pop and the queue
\* is open: no call that fills activeQ forgets to wake it.
NoLostWakeup == waiting # {} => activeQ = Empty /\ ~closed

\* The sub-queues hold the version of a stack that the informer delivered
\* last, although a worker may bring an outdated one back.
\* (With one worker; two workers can bring back versions out of order.)
QueuesAreCurrent ==
    \A s \in live : InQueue(s) =>
        \A q \in {activeQ, stackBackoffQ, unschedulableQ} :
            Has(q, s) => q[s] = latest[s]

\* A stack that was being tried when a move request came is not parked in
\* unschedulableQ afterwards, where nothing would retry it for a minute.
NoMissedMove ==
    [][\A w \in Workers : \A s \in Stacks :
          held[w].stack = s /\ held[w].moved /\ ~Has(unschedulableQ, s)
             => ~Has(unschedulableQ', s)]_vars

\* A stack leaves the sub-queues only to a worker or because it is deleted,
\* and what the informer delivers is in one of them afterwards.
NoStackLost ==
    [][\A s \in Stacks :
          InQueue(s) \/ latest'[s] # latest[s] =>
             \/ InQueue(s)' \/ s \notin live'
             \/ \E w \in Workers : held[w] = NoStack /\ held'[w].stack = s]_vars

\* No starvation: while a stack waits in activeQ, another one is popped
\* before it at most once, however often workers bring stacks back.
OvertakenOnce ==
    [][\A w \in Workers : \A s, t \in Stacks :
          held[w] = NoStack /\ held'[w].stack = s /\ t # s /\ Has(activeQ, t)
             => <<s, t>> \notin passed]_vars

\* The two maps of nominatedStackMap describe the same nominations.
NominationsAgree ==
    \A s \in Stacks, n \in Sites :
        nominatedStackToSite[s] = n <=> s \in nominatedStacks[n]

\* What every method of the queue relies on and restores before it gives p.lock
\* back.
QueueInv == TypeOK /\ OneQueue /\ NominationsAgree
=============================================================================
