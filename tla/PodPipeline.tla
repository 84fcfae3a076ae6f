---------------------------- MODULE PodPipeline ----------------------------
(***************************************************************************)
(* The way of a VM pod through the system: the distributor processes bind  *)
(* it to a scheduler (distributor_process.go), the schedulers bind it to a *)
(* cluster (eventhandlers.go, scheduler.go), and the dispatcher process    *)
(* whose range holds the cluster creates its VM in the cloud, and deletes  *)
(* it with the pod (dispatcher_process.go).                                *)
(*                                                                         *)
(* Unlike an allocation, a pod is handed on with a Binding, which the API  *)
(* server applies whatever the pod's phase and version are                 *)
(* (pkg/registry/core/pod/storage/storage.go), and with a patch of its     *)
(* status; only UpdateStatus compares the resource version.                *)
(***************************************************************************)
EXTENDS Integers

CONSTANTS Pods,
          Distributors,  \* the processes whose range holds the pods' hash keys
          Schedulers,    \* the scheduler processes
          None,          \* no scheduler, no pod
          Deletable,     \* bound: the pods users may delete
          MaxTouch,      \* bound: updates of a pod by users
          MaxExec,       \* bound: restarts of processes
          MaxError       \* bound: failed calls to the API server and the cloud

ASSUME ConstantsAssumption ==
    /\ None \notin Schedulers /\ None \notin Pods
    /\ Deletable \subseteq Pods
    /\ MaxTouch \in Nat /\ MaxExec \in Nat /\ MaxError \in Nat

VARIABLES
    pod,        \* the objects: Status.Phase, Status.AssignedScheduler,
                \* Status.ClusterInstanceId (0: none), ResourceVersion
    bindings,   \* distributors: ScheduleOne of a pod: its step, the scheduler
                \* found, and the resource version of its copy
    known,      \* schedulers: the version of each pod the informer reported
                \* as assigned to the scheduler, 0: not assigned to it
    queue,      \* schedulers: the stacks in StackQueue
    hand,       \* schedulers: the stack the pod worker popped
    jobs,       \* the dispatcher: the goroutines that run SendPodToCluster
    alive,      \* the schedulers whose process runs
    serving,    \* whether a process of the dispatcher runs
    dropped,    \* observation: the pods a scheduler took from its queue, wrote
                \* nothing for, and has not queued again
    cloud,      \* the instances that exist: <<pod, number>>
    created,    \* observation: the instances created for each pod
    touches, execs, restarts, errors    \* restarts: those of the dispatcher

schedulers == <<known, queue, hand>>
clouds == <<cloud, created>>
bounds == <<touches, execs, restarts, errors>>
life == <<alive, serving, dropped>>
vars == <<pod, bindings, schedulers, jobs, clouds, bounds, life>>

Phases == {"Absent", "Pending", "Assigned", "Bound", "NoSchedule",
           "Scheduled", "Failed", "Deleted"}

Objects == [phase : Phases, sched : Schedulers \cup {None}, inst : Nat, rv : Nat]

NoFields == [phase |-> FALSE, sched |-> FALSE, inst |-> FALSE]

Empty == [pod |-> None, step |-> "idle", fields |-> NoFields]

\* fields: those of the status that setPodScheduleErr will change, going by
\* what it has read.
Hands == [pod : Pods, step : {"bind", "get", "patch"},
          fields : [phase : BOOLEAN, sched : BOOLEAN, inst : BOOLEAN]]
             \cup {Empty}

\* deleted: the copy has a DeletionTimestamp.
Jobs == [pod : Pods, step : {"send", "report"}, deleted : BOOLEAN,
         copy : Objects]

TypeOK ==
    /\ pod \in [Pods -> Objects]
    /\ bindings \in [Distributors \X Pods ->
           [step : {"none", "bind", "fail", "done"},
            sched : Schedulers \cup {None}, rv : Nat]]
    /\ known \in [Schedulers -> [Pods -> Nat]]
    /\ queue \in [Schedulers -> SUBSET Pods]
    /\ hand \in [Schedulers -> Hands]
    /\ jobs \subseteq Jobs
    /\ alive \subseteq Schedulers /\ serving \in BOOLEAN /\ dropped \subseteq Pods
    /\ cloud \subseteq Pods \X Nat /\ created \in [Pods -> Nat]
    /\ touches \in 0..MaxTouch /\ execs \in 0..MaxExec
    /\ restarts \in 0..execs /\ errors \in 0..MaxError

NoBinding == [step |-> "none", sched |-> None, rv |-> 0]

Init ==
    /\ pod = [p \in Pods |->
                 [phase |-> "Absent", sched |-> None, inst |-> 0, rv |-> 0]]
    /\ bindings = [t \in Distributors \X Pods |-> NoBinding]
    /\ known = [s \in Schedulers |-> [p \in Pods |-> 0]]
    /\ queue = [s \in Schedulers |-> {}]
    /\ hand = [s \in Schedulers |-> Empty]
    /\ jobs = {} /\ cloud = {} /\ created = [p \in Pods |-> 0]
    /\ alive = Schedulers /\ serving = TRUE /\ dropped = {}
    /\ touches = 0 /\ execs = 0 /\ restarts = 0 /\ errors = 0
-----------------------------------------------------------------------------
(* The API server, and the dispatcher's informers (external).              *)

Exists(p) == pod[p].phase \notin {"Absent", "Deleted"}

\* The goroutines that the dispatcher's two informers start when pod p becomes
\* the object o, if its process runs.  AddFunc of the one for the phase Bound: a pod enters the
\* phase.  DeleteFunc of the one for the phase Scheduled: a pod leaves it; the
\* event holds the previous object with the new resource version
\* (cacher.go convertToWatchEvent).
Job(p, deleted, o) ==
    [pod |-> p, step |-> "send", deleted |-> deleted, copy |-> o]

Entered(p, o) ==
    IF serving /\ pod[p].phase # "Bound" /\ o.phase = "Bound" THEN {Job(p, FALSE, o)}
    ELSE {}

\* Mutant of Left: the event of a deleted pod has no DeletionTimestamp.
LeftBare(p, o) ==
    IF serving /\ pod[p].phase = "Scheduled" /\ o.phase # "Scheduled"
    THEN {Job(p, FALSE, [pod[p] EXCEPT !.rv = o.rv])} ELSE {}

\* Mutant of Left: an event for every change is taken for a deletion.
LeftDeleted(p, o) ==
    IF serving /\ pod[p].phase = "Scheduled"
    THEN {Job(p, TRUE, [pod[p] EXCEPT !.rv = o.rv])} ELSE {}

\* Only a pod that was deleted has a DeletionTimestamp.
Left(p, o) ==
    IF serving /\ pod[p].phase = "Scheduled" /\ o.phase # "Scheduled"
    THEN {Job(p, o.phase = "Deleted", [pod[p] EXCEPT !.rv = o.rv])} ELSE {}

\* Object p becomes o, with a new version, and the jobs become those of rest
\* and the ones the informers start.
Put(p, o, rest) ==
    LET new == [o EXCEPT !.rv = pod[p].rv + 1]
    IN  /\ pod' = [pod EXCEPT ![p] = new]
        /\ jobs' = rest \cup Entered(p, new) \cup Left(p, new)

Fault == errors < MaxError /\ errors' = errors + 1

\* A call that makes p the object o, if it is possible: it succeeds, ...
Succeeds(possible, p, o, rest) ==
    possible /\ Put(p, o, rest) /\ UNCHANGED errors

\* ... or returns an error: it is not possible, or fails before or after it
\* was applied.
Fails(possible, p, o, rest) ==
    \/ ~possible /\ pod' = pod /\ jobs' = rest /\ UNCHANGED errors
    \/ Fault /\ pod' = pod /\ jobs' = rest
    \/ Fault /\ possible /\ Put(p, o, rest)

\* UpdateStatus with a copy needs the current version.
Current(p, r) == Exists(p) /\ pod[p].rv = r

CreatePod(p) ==
    /\ pod[p].phase = "Absent"
    /\ Put(p, [pod[p] EXCEPT !.phase = "Pending"], jobs)
    /\ UNCHANGED <<bindings, schedulers, clouds, bounds, life>>

\* A VM pod has no node, so it is removed at once (strategy.go
\* CheckGracefulDelete).
DeletePod(p) ==
    /\ Exists(p) /\ p \in Deletable
    /\ Put(p, [pod[p] EXCEPT !.phase = "Deleted"], jobs)
    /\ UNCHANGED <<bindings, schedulers, clouds, bounds, life>>

\* A user changes a label or an annotation.
TouchPod(p) ==
    /\ Exists(p) /\ touches < MaxTouch
    /\ Put(p, pod[p], jobs)
    /\ touches' = touches + 1
    /\ UNCHANGED <<bindings, schedulers, clouds, execs, restarts, errors, life>>
-----------------------------------------------------------------------------
(* The distributors.                                                       *)

\* AddFunc for the phase Pending: ScheduleOne starts, and findFit returns a
\* scheduler or none; without one the handler returns.
ScheduleOne(d, p, s) ==
    /\ bindings[<<d, p>>].step = "none" /\ pod[p].phase = "Pending"
    /\ bindings' = [bindings EXCEPT ![<<d, p>>] =
           [step |-> IF s = None THEN "done" ELSE "bind",
            sched |-> s, rv |-> pod[p].rv]]
    /\ UNCHANGED <<pod, schedulers, jobs, clouds, bounds, life>>

ToScheduler(p, s) == [pod[p] EXCEPT !.phase = "Assigned", !.sched = s]

\* Bind with the kind Scheduler.
bindPod(d, p) ==
    LET b == bindings[<<d, p>>]
    IN  /\ b.step = "bind"
        /\ \/ /\ Succeeds(Exists(p), p, ToScheduler(p, b.sched), jobs)
              /\ bindings' = [bindings EXCEPT ![<<d, p>>].step = "done"]
           \/ /\ Fails(Exists(p), p, ToScheduler(p, b.sched), jobs)
              /\ bindings' = [bindings EXCEPT ![<<d, p>>].step = "fail"]
        /\ UNCHANGED <<schedulers, clouds, touches, execs, restarts, life>>

\* Mutant of FailPod: the phase is patched instead.
FailPodPatch(d, p) ==
    LET b == bindings[<<d, p>>]
        o == [pod[p] EXCEPT !.phase = "Failed"]
    IN  /\ b.step = "fail"
        /\ \/ Succeeds(Exists(p), p, o, jobs)
           \/ Fails(Exists(p), p, o, jobs)
        /\ bindings' = [bindings EXCEPT ![<<d, p>>].step = "done"]
        /\ UNCHANGED <<schedulers, clouds, touches, execs, restarts, life>>

\* Bind failed: UpdateStatus with the phase Failed in the copy.
FailPod(d, p) ==
    LET b == bindings[<<d, p>>]
        o == [phase |-> "Failed", sched |-> None, inst |-> 0, rv |-> b.rv]
    IN  /\ b.step = "fail"
        /\ \/ Succeeds(Current(p, b.rv), p, o, jobs)
           \/ Fails(Current(p, b.rv), p, o, jobs)
        /\ bindings' = [bindings EXCEPT ![<<d, p>>].step = "done"]
        /\ UNCHANGED <<schedulers, clouds, touches, execs, restarts, life>>

\* A new range: syscall.Exec, and the pods are listed again.
ExecDistributor(d) ==
    /\ execs < MaxExec /\ execs' = execs + 1
    /\ bindings' = [t \in Distributors \X Pods |->
                       IF t[1] = d THEN NoBinding ELSE bindings[t]]
    /\ UNCHANGED <<pod, schedulers, jobs, clouds, touches, restarts, errors, life>>
-----------------------------------------------------------------------------
(* The schedulers.  StackQueue is SchedulingQueue; scheduleOne puts nothing *)
(* back, so every stack of it is in activeQ.                               *)

needToSchedule(s, p) == pod[p].phase = "Assigned" /\ pod[p].sched = s

\* addPodToSchedulingQueue, updatePodInSchedulingQueue.  No stack is ever
\* assumed (AssumeStack has no caller), so skipStackUpdate returns false, and
\* Update adds a stack that is in none of the queues.
QueuePod(s, p) ==
    /\ s \in alive /\ needToSchedule(s, p) /\ known[s][p] # pod[p].rv
    /\ known' = [known EXCEPT ![s][p] = pod[p].rv]
    /\ queue' = [queue EXCEPT ![s] = @ \cup {p}]
    /\ dropped' = dropped \ {p}
    /\ UNCHANGED <<pod, bindings, hand, jobs, clouds, bounds, alive, serving>>

\* deletePodFromSchedulingQueue: the pod has left the phase or the scheduler.
UnqueuePod(s, p) ==
    /\ ~needToSchedule(s, p) /\ known[s][p] # 0
    /\ known' = [known EXCEPT ![s][p] = 0]
    /\ queue' = [queue EXCEPT ![s] = @ \ {p}]
    /\ UNCHANGED <<pod, bindings, hand, jobs, clouds, bounds, life>>

\* scheduleOne pops a stack; Schedule (SiteResources) finds a site or not.
scheduleOne(s, p, fits) ==
    /\ hand[s] = Empty /\ p \in queue[s]
    /\ queue' = [queue EXCEPT ![s] = @ \ {p}]
    /\ hand' = [hand EXCEPT ![s] = [Empty EXCEPT !.pod = p,
                     !.step = IF fits THEN "bind" ELSE "get"]]
    /\ UNCHANGED <<pod, bindings, known, jobs, clouds, bounds, life>>

\* The strategy fails after the filters passed: Schedule returns no error and
\* no stacks, so bindStacks writes nothing (scheduler.go:580, 286-300), and the
\* pod keeps its phase.
scheduleNothing(s, p) ==
    /\ hand[s] = Empty /\ p \in queue[s]
    /\ queue' = [queue EXCEPT ![s] = @ \ {p}]
    /\ dropped' = dropped \cup {p}
    /\ UNCHANGED <<pod, bindings, known, hand, jobs, clouds, bounds, alive, serving>>

\* Bind with the kind Cluster; its error is only logged.  A pod that is bound
\* to the same cluster already is not written.
bindToSite(s, p) ==
    LET o == [pod[p] EXCEPT !.phase = "Bound"]
    IN  /\ hand[s].pod = p /\ hand[s].step = "bind"
        /\ \/ Succeeds(Exists(p), p, o, jobs) \/ Fails(Exists(p), p, o, jobs)
           \/ pod[p].phase = "Bound" /\ UNCHANGED <<pod, jobs, errors>>
        /\ hand' = [hand EXCEPT ![s] = Empty]
        /\ UNCHANGED <<bindings, known, queue, clouds, touches, execs, restarts, life>>

\* Mutant of getPod: it gives up.
getPodSilently(s, p) ==
    /\ hand[s].pod = p /\ hand[s].step = "get"
    /\ hand' = [hand EXCEPT ![s] = Empty]
    /\ UNCHANGED <<pod, bindings, known, queue, jobs, clouds, bounds, life>>

\* setPodScheduleErr reads the pod; without it, it gives up.
getPod(s, p) ==
    /\ hand[s].pod = p /\ hand[s].step = "get"
    /\ \/ /\ Exists(p) /\ UNCHANGED errors
          /\ hand' = [hand EXCEPT ![s] = [pod |-> p, step |-> "patch",
                 fields |-> [phase |-> pod[p].phase # "NoSchedule",
                             sched |-> pod[p].sched # None,
                             inst |-> pod[p].inst # 0]]]
       \/ /\ ~Exists(p) /\ UNCHANGED errors
          /\ hand' = [hand EXCEPT ![s] = Empty]
       \/ Fault /\ hand' = [hand EXCEPT ![s] = Empty]
    /\ UNCHANGED <<pod, bindings, known, queue, jobs, clouds, touches, execs,
                   restarts, life>>

\* The patch sets the phase and removes the other fields that were read; it
\* applies to any version.  Its error is only logged.
Patched(p, fields) ==
    [pod[p] EXCEPT !.phase = IF fields.phase THEN "NoSchedule" ELSE @,
                   !.sched = IF fields.sched THEN None ELSE @,
                   !.inst = IF fields.inst THEN 0 ELSE @]

PatchPodStatus(s, p) ==
    LET o == Patched(p, hand[s].fields)
        writes == Exists(p) /\ o # pod[p]
    IN  /\ hand[s].pod = p /\ hand[s].step = "patch"
        /\ Succeeds(writes, p, o, jobs) \/ Fails(writes, p, o, jobs)
        /\ hand' = [hand EXCEPT ![s] = Empty]
        /\ UNCHANGED <<bindings, known, queue, clouds, touches, execs, restarts, life>>

\* The Scheduler object is deleted, which exits the process, or one of its
\* goroutines panics.
ExitScheduler(s) ==
    /\ s \in alive /\ alive' = alive \ {s}
    /\ known' = [known EXCEPT ![s] = [p \in Pods |-> 0]]
    /\ queue' = [queue EXCEPT ![s] = {}]
    /\ hand' = [hand EXCEPT ![s] = Empty]
    /\ UNCHANGED <<pod, bindings, jobs, clouds, bounds, serving, dropped>>

\* The scheduler controller starts a process for a scheduler it is notified of:
\* a new one of the name, or each one it finds after a restart of its own.  The
\* pods are listed again.
StartScheduler(s) ==
    /\ s \notin alive /\ alive' = alive \cup {s}
    /\ execs < MaxExec /\ execs' = execs + 1
    /\ UNCHANGED <<pod, bindings, schedulers, jobs, clouds, touches, restarts,
                   errors, serving, dropped>>
-----------------------------------------------------------------------------
(* The dispatcher.                                                         *)

\* SendPodToCluster gives up without a host or a token; DeleteInstance fails.
SendFails(j) ==
    /\ j \in jobs /\ j.step = "send" /\ Fault
    /\ jobs' = jobs \ {j}
    /\ UNCHANGED <<pod, bindings, schedulers, clouds, touches, execs, restarts, life>>

\* The goroutine goes on to report phase f and instance k.
ToReport(j, f, k) ==
    (jobs \ {j}) \cup
        {[j EXCEPT !.step = "report", !.copy.phase = f, !.copy.inst = k]}

\* Mutant of CreateServer: the copy keeps its instance id.
CreateServerForgets(j) ==
    LET k == created[j.pod] + 1
    IN  /\ j \in jobs /\ j.step = "send" /\ ~j.deleted
        /\ created' = [created EXCEPT ![j.pod] = k]
        /\ cloud' = cloud \cup {<<j.pod, k>>}
        /\ jobs' = ToReport(j, "Scheduled", j.copy.inst)
        /\ UNCHANGED <<pod, bindings, schedulers, bounds, life>>

\* openstack.ServerCreate returns the id of the new instance.
CreateServer(j) ==
    LET k == created[j.pod] + 1
    IN  /\ j \in jobs /\ j.step = "send" /\ ~j.deleted
        /\ created' = [created EXCEPT ![j.pod] = k]
        /\ cloud' = cloud \cup {<<j.pod, k>>}
        /\ jobs' = ToReport(j, "Scheduled", k)
        /\ UNCHANGED <<pod, bindings, schedulers, bounds, life>>

\* Mutant of CreateServerFails: the failure is not reported.
CreateServerFailsSilently(j) ==
    /\ j \in jobs /\ j.step = "send" /\ ~j.deleted
    /\ jobs' = jobs \ {j}
    /\ UNCHANGED <<pod, bindings, schedulers, clouds, bounds, life>>

\* openstack.ServerCreate returns an error: the cloud refuses the VM, or it
\* exists and the answer is lost.
CreateServerFails(j) ==
    LET k == created[j.pod] + 1
    IN  /\ j \in jobs /\ j.step = "send" /\ ~j.deleted
        /\ \/ UNCHANGED <<clouds, errors>>
           \/ /\ Fault /\ created' = [created EXCEPT ![j.pod] = k]
              /\ cloud' = cloud \cup {<<j.pod, k>>}
        /\ jobs' = ToReport(j, "Failed", j.copy.inst)
        /\ UNCHANGED <<pod, bindings, schedulers, touches, execs, restarts, life>>

\* UpdateStatus with the copy; its error is only logged.
ReportPod(j) ==
    /\ j \in jobs /\ j.step = "report"
    /\ \/ Succeeds(Current(j.pod, j.copy.rv), j.pod, j.copy, jobs \ {j})
       \/ Fails(Current(j.pod, j.copy.rv), j.pod, j.copy, jobs \ {j})
    /\ UNCHANGED <<bindings, schedulers, clouds, touches, execs, restarts, life>>

DeleteInstance(j) ==
    /\ j \in jobs /\ j.step = "send" /\ j.deleted
    /\ cloud' = cloud \ {<<j.pod, j.copy.inst>>}
    /\ jobs' = jobs \ {j}
    /\ UNCHANGED <<pod, bindings, schedulers, created, bounds, life>>

\* The process starts, and the pods that are Bound are listed.
ListBound ==
    /\ execs < MaxExec /\ execs' = execs + 1
    /\ restarts' = restarts + 1
    /\ jobs' = {Job(p, FALSE, pod[p]) : p \in {q \in Pods : pod[q].phase = "Bound"}}
    /\ UNCHANGED <<pod, bindings, schedulers, clouds, touches, errors, alive, dropped>>

\* A new range that holds the clusters: syscall.Exec, the goroutines are gone.
ExecDispatcher == serving /\ ListBound /\ UNCHANGED serving

\* The deletion of an allocation panics (AllocationPipeline), or the Dispatcher
\* object is deleted: the process ends.
ExitDispatcher ==
    /\ serving /\ serving' = FALSE
    /\ jobs' = {}
    /\ UNCHANGED <<pod, bindings, schedulers, clouds, bounds, alive, dropped>>

\* The dispatcher controller starts a process for each dispatcher it is notified
\* of, as the scheduler controller does.
StartDispatcher == ~serving /\ serving' = TRUE /\ ListBound

DistributorStep(d, p) ==
    \/ \E s \in Schedulers \cup {None} : ScheduleOne(d, p, s)
    \/ bindPod(d, p) \/ FailPod(d, p)

Informer(s, p) == QueuePod(s, p) \/ UnqueuePod(s, p)

PodWorker(s, p) ==
    \/ \E fits \in BOOLEAN : scheduleOne(s, p, fits)
    \/ scheduleNothing(s, p)
    \/ bindToSite(s, p) \/ getPod(s, p) \/ PatchPodStatus(s, p)

DispatcherStep(j) ==
    \/ SendFails(j) \/ CreateServer(j) \/ CreateServerFails(j)
    \/ ReportPod(j) \/ DeleteInstance(j)

Next ==
    \/ \E p \in Pods : CreatePod(p) \/ DeletePod(p) \/ TouchPod(p)
    \/ \E d \in Distributors : ExecDistributor(d)
    \/ \E d \in Distributors, p \in Pods : DistributorStep(d, p)
    \/ \E s \in Schedulers : ExitScheduler(s) \/ StartScheduler(s)
    \/ \E s \in Schedulers, p \in Pods : Informer(s, p) \/ PodWorker(s, p)
    \/ ExecDispatcher \/ ExitDispatcher \/ StartDispatcher
    \/ \E j \in jobs : DispatcherStep(j)

Spec == Init /\ [][Next]_vars

\* Notifications arrive, and every goroutine that is started runs to its end.
FairSpec ==
    /\ Spec
    /\ \A d \in Distributors, p \in Pods : WF_vars(DistributorStep(d, p))
    /\ \A s \in Schedulers, p \in Pods :
           WF_vars(Informer(s, p)) /\ WF_vars(PodWorker(s, p))
    /\ \A p \in Pods : WF_vars(\E j \in jobs : j.pod = p /\ DispatcherStep(j))
-----------------------------------------------------------------------------
(* Properties.                                                             *)

\* The phases of a pod as those of AllocationLifecycle.
Stage(f) == CASE f = "Pending" -> "New"
              [] f = "NoSchedule" -> "NotScheduled"
              [] OTHER -> f

Lifecycle == INSTANCE AllocationLifecycle
    WITH Allocs <- Pods, phase <- [p \in Pods |-> Stage(pod[p].phase)]

\* With one distributor responsible for a pod, and until a user changes a
\* pod, pods are handed on the way allocations are, although a Binding and a
\* patch apply to any version: whatever the interleaving, the restarts and
\* the failed calls, no decision is taken back.
PodsFollowLifecycle ==
    [][touches' = 0 => Lifecycle!Next]_[p \in Pods |-> Stage(pod[p].phase)]

\* Whoever else writes the pod, however many distributors and schedulers bind
\* it and users change it: the instance a pod records exists until the pod is
\* deleted, so no goroutine deletes or reports an instance that is not its own.
RecordedExists ==
    \A p \in Pods : pod[p].phase # "Deleted" /\ pod[p].inst # 0 =>
        <<p, pod[p].inst>> \in cloud

\* What the goroutines of the dispatcher know: one that deletes an instance
\* works for a pod that is gone, and the instance another one will report
\* exists.
JobsBacked ==
    \A j \in jobs :
        /\ j.deleted => pod[j.pod].phase = "Deleted"
        /\ pod[j.pod].phase # "Deleted" /\ j.copy.inst # 0 =>
               <<j.pod, j.copy.inst>> \in cloud

\* With one distributor a Scheduled pod has its instance, until a user
\* changes a pod.
PodIsBacked ==
    touches = 0 => \A p \in Pods : pod[p].phase = "Scheduled" => <<p, pod[p].inst>> \in cloud

\* Until a user changes a pod, a stack that the pod worker has popped, and whose
\* outcome is not written yet, is not queued again; one VM is created for a pod,
\* and another one only after a restart of the dispatcher, as SendPodToCluster
\* is started once.
HandledOnce ==
    touches = 0 =>
        /\ \A s \in Schedulers : hand[s].pod \notin queue[s]
        /\ \A p \in Pods : created[p] <= 1 + restarts

\* While no process is restarted, the dispatcher does not die, no call fails and
\* nobody changes a pod or deletes it while its VM is being created, every
\* instance is recorded in its pod or in the hands of a goroutine that will
\* record or delete it.
Undisturbed(p) ==
    execs = 0 /\ serving /\ errors = 0 /\ touches = 0
        /\ ~(pod[p].phase = "Deleted" /\ pod[p].inst = 0)

NoLeak ==
    \A v \in cloud : Undisturbed(v[1]) =>
        \/ pod[v[1]].phase = "Scheduled" /\ pod[v[1]].inst = v[2]
        \/ \E j \in jobs : j.pod = v[1] /\ j.copy.inst = v[2]

\* A pod that is assigned to a scheduler gets a decision, also when the process
\* that had it died and was started again, unless a call fails, the process is
\* dead, or the strategy failed: the pod is left as it is then, until an update
\* or a restart queues it again.
AssignedIsDecided ==
    \A p \in Pods :
        pod[p].phase = "Assigned" ~>
            \/ pod[p].phase # "Assigned" \/ pod[p].sched \notin alive
            \/ p \in dropped \/ errors > 0

\* A pod that is bound to a cluster gets its VM, or Failed, also when it was
\* bound while no dispatcher ran, unless a call fails, the dispatcher is dead or
\* a user changes a pod: a second Binding makes the dispatcher's UpdateStatus
\* fail, and no informer reports the pod as Bound again.
BoundIsDispatched ==
    \A p \in Pods :
        pod[p].phase = "Bound" ~>
            pod[p].phase # "Bound" \/ ~serving \/ errors + touches > 0
=============================================================================
