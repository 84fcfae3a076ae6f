------------------------- MODULE AllocationPipeline -------------------------
(***************************************************************************)
(* The way of an Allocation through the system: the distributor processes  *)
(* assign a scheduler (controllers/distributor/distributor_process.go),    *)
(* the scheduler places it on clusters (pkg/scheduler/scheduler.go), and   *)
(* the dispatcher processes create and delete its VMs in the clouds        *)
(* (controllers/dispatcher/dispatcher_process.go).  They share nothing but *)
(* the object in the API server: each watches the phase it is responsible  *)
(* for, works on the copy it was notified with, and writes it back; the    *)
(* API server refuses a write that does not carry the object's current     *)
(* resource version.                                                       *)
(*                                                                         *)
(* Every handler runs in a goroutine of its own (the scheduler's runs in   *)
(* the informer's), so any number of them interleave.  A process that      *)
(* learns of a new range replaces itself with syscall.Exec: its goroutines *)
(* are gone, and its informers list the objects again.  Ranges are moved   *)
(* one object at a time, so two processes may be responsible at once.      *)
(***************************************************************************)
EXTENDS Integers

CONSTANTS Allocs,
          Distributors, Dispatchers,    \* the processes
          VMs,          \* number of VMs of an allocation
          Deletable,    \* bound: the allocations users may delete
          MaxExec,      \* bound: restarts of processes
          MaxError      \* bound: failed calls to the API server and the clouds

ASSUME ConstantsAssumption ==
    /\ VMs \in Nat \ {0} /\ MaxExec \in Nat /\ MaxError \in Nat
    /\ Deletable \subseteq Allocs

VARIABLES
    phase, rv, ids,     \* the objects: Status.Phase, ResourceVersion and the
                        \* InstanceId of each VM (0: none)
    dpc, drv,           \* distributors: step of the handler of an allocation
                        \* and resource version of its copy
    seen, spc,          \* the scheduler: allocations notified, its handler,
    alive,              \* and whether its process runs
    pc, prv, pids,      \* dispatchers: likewise, with the copy's InstanceIds
    del,                \* dispatchers: allocations whose VMs are to be deleted
    up,                 \* dispatcher processes that run
    covers,             \* dispatchers whose range holds the clusters
    podDeleted,         \* dispatchers with totalPodDeleteNum > 0
    cloud, lastVM,      \* the instances that exist, the last one created
    execs, errors

object == <<phase, rv, ids>>
distributors == <<dpc, drv>>
scheduler == <<seen, spc, alive>>
dispatchers == <<pc, prv, pids, del, up, covers, podDeleted>>
clouds == <<cloud, lastVM>>
vars == <<object, distributors, scheduler, dispatchers, clouds, execs, errors>>

Phases == {"Absent", "New", "Assigned", "Bound", "NotScheduled",
           "Scheduled", "Failed", "Deleted"}

\* The steps of a dispatcher's handler before it has written its result.
Active == {"create", "undo", "scheduled", "failed"}

Ids == [1..VMs -> Nat]
NoIds == [k \in 1..VMs |-> 0]

Instances(i) == {i[k] : k \in 1..VMs} \ {0}

Idle == [alloc |-> "none", rv |-> 0, phase |-> "none"]

TypeOK ==
    /\ phase \in [Allocs -> Phases]
    /\ rv \in [Allocs -> Nat] /\ ids \in [Allocs -> Ids]
    /\ dpc \in [Distributors \X Allocs -> {"none", "assign", "fail", "done"}]
    /\ drv \in [Distributors \X Allocs -> Nat]
    /\ seen \subseteq Allocs /\ alive \in BOOLEAN
    /\ spc \in [alloc : Allocs, rv : Nat, phase : {"Bound", "NotScheduled"}]
                   \cup {Idle}
    /\ pc \in [Dispatchers \X Allocs ->
                  {"none", "create", "undo", "scheduled", "failed", "done"}]
    /\ prv \in [Dispatchers \X Allocs -> Nat]
    /\ pids \in [Dispatchers \X Allocs -> Ids]
    /\ del \subseteq Dispatchers \X Allocs
    /\ up \subseteq Dispatchers /\ covers \subseteq Dispatchers
    /\ podDeleted \subseteq Dispatchers
    /\ cloud \subseteq Nat /\ lastVM \in Nat
    /\ execs \in 0..MaxExec /\ errors \in 0..MaxError

Init ==
    /\ phase = [a \in Allocs |-> "Absent"]
    /\ rv = [a \in Allocs |-> 0] /\ ids = [a \in Allocs |-> NoIds]
    /\ dpc = [t \in Distributors \X Allocs |-> "none"]
    /\ drv = [t \in Distributors \X Allocs |-> 0]
    /\ seen = {} /\ spc = Idle /\ alive = TRUE
    /\ pc = [t \in Dispatchers \X Allocs |-> "none"]
    /\ prv = [t \in Dispatchers \X Allocs |-> 0]
    /\ pids = [t \in Dispatchers \X Allocs |-> NoIds]
    /\ del = {} /\ up = Dispatchers /\ podDeleted = {}
    /\ \E d \in Dispatchers : covers = {d}
    /\ cloud = {} /\ lastVM = 0 /\ execs = 0 /\ errors = 0
-----------------------------------------------------------------------------
(* The API server (external).                                              *)

Exists(a) == phase[a] \notin {"Absent", "Deleted"}

\* An Update with the copy (r, p, i) is applied.
Applied(a, r, p, i) ==
    /\ Exists(a) /\ rv[a] = r
    /\ phase' = [phase EXCEPT ![a] = p]
    /\ rv' = [rv EXCEPT ![a] = r + 1]
    /\ ids' = [ids EXCEPT ![a] = i]

Fault == errors < MaxError /\ errors' = errors + 1

\* An Update returns no error.
Succeeds(a, r, p, i) == Applied(a, r, p, i) /\ UNCHANGED errors

\* An Update returns an error: the object is gone or newer than the copy,
\* or the call fails, before or after it was applied.
Fails(a, r, p, i) ==
    \/ ~(Exists(a) /\ rv[a] = r) /\ UNCHANGED <<object, errors>>
    \/ Fault /\ UNCHANGED object
    \/ Fault /\ Applied(a, r, p, i)

CreateAllocation(a) ==
    /\ phase[a] = "Absent"
    /\ phase' = [phase EXCEPT ![a] = "New"]
    /\ rv' = [rv EXCEPT ![a] = 1]
    /\ UNCHANGED <<ids, distributors, scheduler, dispatchers, clouds, execs,
                   errors>>

\* The informer for the phase Scheduled of every dispatcher that watches the
\* allocation calls its DeleteFunc, which starts a goroutine.
DeleteAllocation(a) ==
    /\ Exists(a) /\ a \in Deletable
    /\ phase' = [phase EXCEPT ![a] = "Deleted"]
    /\ del' = IF phase[a] = "Scheduled" THEN del \cup ((up \cap covers) \X {a})
              ELSE del
    /\ UNCHANGED <<rv, ids, distributors, scheduler, pc, prv, pids, up, covers,
                   podDeleted, clouds, execs, errors>>
-----------------------------------------------------------------------------
(* The distributors.                                                       *)

\* AddFunc for the empty phase: ScheduleAllocation starts.  Fits is what
\* findScheduler finds in the schedulers known so far; without a scheduler
\* the handler returns and the allocation keeps its phase.
ScheduleAllocation(p, a, fits) ==
    /\ dpc[<<p, a>>] = "none" /\ phase[a] = "New"
    /\ dpc' = [dpc EXCEPT ![<<p, a>>] = IF fits THEN "assign" ELSE "done"]
    /\ drv' = [drv EXCEPT ![<<p, a>>] = rv[a]]
    /\ UNCHANGED <<object, scheduler, dispatchers, clouds, execs, errors>>

\* The first Update: the phase Assigned, with the scheduler's name.
AssignScheduler(p, a) ==
    /\ dpc[<<p, a>>] = "assign"
    /\ \/ /\ Succeeds(a, drv[<<p, a>>], "Assigned", NoIds)
          /\ dpc' = [dpc EXCEPT ![<<p, a>>] = "done"]
       \/ /\ Fails(a, drv[<<p, a>>], "Assigned", NoIds)
          /\ dpc' = [dpc EXCEPT ![<<p, a>>] = "fail"]
    /\ UNCHANGED <<drv, scheduler, dispatchers, clouds, execs>>

\* Mutant of FailAssignment: the second Update is made with a fresh copy.
FailAssignmentFresh(p, a) ==
    /\ dpc[<<p, a>>] = "fail"
    /\ \/ Succeeds(a, rv[a], "Failed", NoIds)
       \/ Fails(a, rv[a], "Failed", NoIds)
    /\ dpc' = [dpc EXCEPT ![<<p, a>>] = "done"]
    /\ UNCHANGED <<drv, scheduler, dispatchers, clouds, execs>>

\* The second Update, with the same copy: the phase Failed.
FailAssignment(p, a) ==
    /\ dpc[<<p, a>>] = "fail"
    /\ \/ Succeeds(a, drv[<<p, a>>], "Failed", NoIds)
       \/ Fails(a, drv[<<p, a>>], "Failed", NoIds)
    /\ dpc' = [dpc EXCEPT ![<<p, a>>] = "done"]
    /\ UNCHANGED <<drv, scheduler, dispatchers, clouds, execs>>

ExecDistributor(p) ==
    /\ execs < MaxExec /\ execs' = execs + 1
    /\ dpc' = [t \in Distributors \X Allocs |->
                  IF t[1] = p THEN "none" ELSE dpc[t]]
    /\ UNCHANGED <<object, drv, scheduler, dispatchers, clouds, errors>>

\* The Distributor object is deleted: os.Exit, and nothing is handled any more
\* (until an exec that stands for the process of a new distributor).
ExitDistributor(p) ==
    /\ execs < MaxExec /\ execs' = execs + 1
    /\ dpc' = [t \in Distributors \X Allocs |->
                  IF t[1] = p THEN "done" ELSE dpc[t]]
    /\ UNCHANGED <<object, drv, scheduler, dispatchers, clouds, errors>>
-----------------------------------------------------------------------------
(* The scheduler.  AddFunc for the phase Assigned runs scheduleAllocation, *)
(* which tries the VMs one after the other and gives up at the first that  *)
(* fits nowhere, and then bindAllocation.                                  *)

\* Mutant of scheduleAllocation: a failure returns without writing it.
scheduleAllocationGivesUp(a, p) ==
    /\ alive /\ spc = Idle /\ a \notin seen /\ phase[a] = "Assigned"
    /\ seen' = seen \cup {a}
    /\ spc' = IF p = "Bound" THEN [alloc |-> a, rv |-> rv[a], phase |-> p]
              ELSE Idle
    /\ UNCHANGED <<object, distributors, alive, dispatchers, clouds, execs, errors>>

scheduleAllocation(a, p) ==
    /\ alive /\ spc = Idle /\ a \notin seen /\ phase[a] = "Assigned"
    /\ seen' = seen \cup {a}
    /\ spc' = [alloc |-> a, rv |-> rv[a], phase |-> p]
    /\ UNCHANGED <<object, distributors, alive, dispatchers, clouds, execs, errors>>

bindAllocation ==
    /\ spc # Idle
    /\ \/ Succeeds(spc.alloc, spc.rv, spc.phase, NoIds)
       \/ Fails(spc.alloc, spc.rv, spc.phase, NoIds)
    /\ spc' = Idle
    /\ UNCHANGED <<distributors, seen, alive, dispatchers, clouds, execs>>

\* The Scheduler object is deleted, which exits the process, or one of its
\* other goroutines panics (SiteCacheSync, SiteResources).
ExitScheduler ==
    /\ alive /\ alive' = FALSE
    /\ spc' = Idle
    /\ UNCHANGED <<object, distributors, seen, dispatchers, clouds, execs, errors>>

\* The scheduler controller starts a process for a scheduler it is notified
\* of: a new one of the name, or each one it finds after a restart of its own.
\* Its informers list the objects again.
StartScheduler ==
    /\ ~alive /\ alive' = TRUE
    /\ execs < MaxExec /\ execs' = execs + 1
    /\ seen' = {}
    /\ UNCHANGED <<object, distributors, spc, dispatchers, clouds, errors>>
-----------------------------------------------------------------------------
(* The dispatchers.                                                        *)

\* AddFunc for the phase Bound: SendAllocationToCluster starts.
SendAllocationToCluster(d, a) ==
    /\ d \in up \cap covers
    /\ pc[<<d, a>>] = "none" /\ phase[a] = "Bound"
    /\ pc' = [pc EXCEPT ![<<d, a>>] = "create"]
    /\ prv' = [prv EXCEPT ![<<d, a>>] = rv[a]]
    /\ pids' = [pids EXCEPT ![<<d, a>>] = NoIds]
    /\ UNCHANGED <<object, distributors, scheduler, del, up, covers,
                   podDeleted, clouds, execs, errors>>

\* isAllAllocationResourcesCreated: the VM is created and its id noted.
CreateVM(d, a, k) ==
    /\ pc[<<d, a>>] = "create"
    /\ pids[<<d, a>>][k] = 0 /\ \A j \in 1..(k - 1) : pids[<<d, a>>][j] # 0
    /\ lastVM' = lastVM + 1 /\ cloud' = cloud \cup {lastVM + 1}
    /\ pids' = [pids EXCEPT ![<<d, a>>] = [@ EXCEPT ![k] = lastVM + 1]]
    /\ pc' = [pc EXCEPT ![<<d, a>>] = IF k = VMs THEN "scheduled" ELSE "create"]
    /\ UNCHANGED <<object, distributors, scheduler, prv, del, up, covers,
                   podDeleted, execs, errors>>

\* Mutants of CreateFails: the failure is ignored; the handler returns without
\* reporting it.
CreateFailsIgnored(d, a) ==
    /\ pc[<<d, a>>] = "create"
    /\ pc' = [pc EXCEPT ![<<d, a>>] = "scheduled"]
    /\ UNCHANGED <<object, distributors, scheduler, prv, pids, del, up, covers,
                   podDeleted, clouds, execs, errors>>

CreateFailsSilently(d, a) ==
    /\ pc[<<d, a>>] = "create"
    /\ pc' = [pc EXCEPT ![<<d, a>>] = "done"]
    /\ UNCHANGED <<object, distributors, scheduler, prv, pids, del, up, covers,
                   podDeleted, clouds, execs, errors>>

\* isAllAllocationResourcesCreated returns false: no host, no token, or the
\* cloud refuses the VM.
CreateFails(d, a) ==
    /\ pc[<<d, a>>] = "create"
    /\ pc' = [pc EXCEPT ![<<d, a>>] = "undo"]
    /\ UNCHANGED <<object, distributors, scheduler, prv, pids, del, up, covers,
                   podDeleted, clouds, execs, errors>>

\* The answer to a creation is lost: the VM exists, its id is not known.
CreateLost(d, a) ==
    /\ pc[<<d, a>>] = "create" /\ Fault
    /\ lastVM' = lastVM + 1 /\ cloud' = cloud \cup {lastVM + 1}
    /\ pc' = [pc EXCEPT ![<<d, a>>] = "undo"]
    /\ UNCHANGED <<object, distributors, scheduler, prv, pids, del, up, covers,
                   podDeleted, execs>>

\* deleteAllocationResources deletes the instances i; a host or a token that
\* is missing ends it early, a deletion that fails is only logged.
deleteAllocationResources(i) ==
    /\ \/ cloud' = cloud \ Instances(i) /\ UNCHANGED errors
       \/ \E left \in SUBSET Instances(i) :
              /\ left # {} /\ Fault
              /\ cloud' = cloud \ (Instances(i) \ left)
    /\ UNCHANGED lastVM

\* Mutants of UndoVMs: nothing is deleted; what the object records is deleted.
UndoNothing(d, a) ==
    /\ pc[<<d, a>>] = "undo"
    /\ pc' = [pc EXCEPT ![<<d, a>>] = "failed"]
    /\ UNCHANGED <<object, distributors, scheduler, prv, pids, del, up, covers,
                   podDeleted, clouds, execs, errors>>

UndoRecordedVMs(d, a) ==
    /\ pc[<<d, a>>] = "undo"
    /\ deleteAllocationResources(ids[a])
    /\ pc' = [pc EXCEPT ![<<d, a>>] = "failed"]
    /\ UNCHANGED <<object, distributors, scheduler, prv, pids, del, up, covers,
                   podDeleted, execs>>

UndoVMs(d, a) ==
    /\ pc[<<d, a>>] = "undo"
    /\ deleteAllocationResources(pids[<<d, a>>])
    /\ pc' = [pc EXCEPT ![<<d, a>>] = "failed"]
    /\ UNCHANGED <<object, distributors, scheduler, prv, pids, del, up, covers,
                   podDeleted, execs>>

\* The final Update; its error is only logged.
ReportPhase(d, a, step, p) ==
    /\ pc[<<d, a>>] = step
    /\ \/ Succeeds(a, prv[<<d, a>>], p, pids[<<d, a>>])
       \/ Fails(a, prv[<<d, a>>], p, pids[<<d, a>>])
    /\ pc' = [pc EXCEPT ![<<d, a>>] = "done"]
    /\ UNCHANGED <<distributors, scheduler, prv, pids, del, up, covers,
                   podDeleted, clouds, execs>>

ReportScheduled(d, a) == ReportPhase(d, a, "scheduled", "Scheduled")
ReportFailed(d, a) == ReportPhase(d, a, "failed", "Failed")

\* The goroutines of a process that ends are gone.
Kill(d) ==
    /\ pc' = [t \in Dispatchers \X Allocs |-> IF t[1] = d THEN "none" ELSE pc[t]]
    /\ del' = {t \in del : t[1] # d}
    /\ podDeleted' = podDeleted \ {d}

\* SendAllocationToCluster for a deleted allocation.  The average latency is
\* computed with p.totalPodDeleteNum: a process that has deleted no pod yet
\* divides by zero and panics.
DeleteVMs(d, a) ==
    /\ <<d, a>> \in del
    /\ deleteAllocationResources(ids[a])
    /\ IF d \in podDeleted
       THEN /\ del' = del \ {<<d, a>>}
            /\ UNCHANGED <<pc, up, podDeleted>>
       ELSE Kill(d) /\ up' = up \ {d}
    /\ UNCHANGED <<object, distributors, scheduler, prv, pids, covers, execs>>

\* SendPodToCluster for a deleted pod: the process has deleted a pod.
DeletePod(d) ==
    /\ d \in up \ podDeleted
    /\ podDeleted' = podDeleted \cup {d}
    /\ UNCHANGED <<object, distributors, scheduler, pc, prv, pids, del, up,
                   covers, clouds, execs, errors>>

\* The process gets a range that does, or does not, hold the clusters.
ExecDispatcher(d) ==
    /\ d \in up /\ execs < MaxExec /\ execs' = execs + 1
    /\ covers' = IF d \in covers THEN covers \ {d} ELSE covers \cup {d}
    /\ Kill(d)
    /\ UNCHANGED <<object, distributors, scheduler, prv, pids, up, clouds,
                   errors>>

\* The Dispatcher object is deleted: os.Exit.
ExitDispatcher(d) ==
    /\ d \in up /\ execs < MaxExec /\ execs' = execs + 1
    /\ Kill(d) /\ up' = up \ {d}
    /\ UNCHANGED <<object, distributors, scheduler, prv, pids, covers, clouds,
                   errors>>

\* The controller starts a process for a dispatcher it is notified of: a new
\* one, or each one it finds after a restart of its own.
StartDispatcher(d) ==
    /\ d \notin up /\ execs < MaxExec /\ execs' = execs + 1
    /\ up' = up \cup {d}
    /\ UNCHANGED <<object, distributors, scheduler, pc, prv, pids, del, covers,
                   podDeleted, clouds, errors>>

DistributorStep(p, a) ==
    \/ \E fits \in BOOLEAN : ScheduleAllocation(p, a, fits)
    \/ AssignScheduler(p, a) \/ FailAssignment(p, a)

SchedulerStep ==
    \/ \E a \in Allocs, p \in {"Bound", "NotScheduled"} : scheduleAllocation(a, p)
    \/ bindAllocation

SchedulerLifetime == ExitScheduler \/ StartScheduler

DispatcherStep(d, a) ==
    \/ SendAllocationToCluster(d, a)
    \/ \E k \in 1..VMs : CreateVM(d, a, k)
    \/ CreateFails(d, a) \/ CreateLost(d, a) \/ UndoVMs(d, a)
    \/ ReportScheduled(d, a) \/ ReportFailed(d, a) \/ DeleteVMs(d, a)

DispatcherLifetime(d) ==
    DeletePod(d) \/ ExecDispatcher(d) \/ ExitDispatcher(d) \/ StartDispatcher(d)

Next ==
    \/ \E a \in Allocs : CreateAllocation(a) \/ DeleteAllocation(a)
    \/ \E p \in Distributors : ExecDistributor(p) \/ ExitDistributor(p)
    \/ \E p \in Distributors, a \in Allocs : DistributorStep(p, a)
    \/ SchedulerStep
    \/ SchedulerLifetime
    \/ \E d \in Dispatchers : DispatcherLifetime(d)
    \/ \E d \in Dispatchers, a \in Allocs : DispatcherStep(d, a)

Spec == Init /\ [][Next]_vars

\* Every goroutine that is started runs to its end.
FairSpec ==
    /\ Spec
    /\ \A p \in Distributors, a \in Allocs : WF_vars(DistributorStep(p, a))
    /\ WF_vars(SchedulerStep)
    /\ \A d \in Dispatchers, a \in Allocs : WF_vars(DispatcherStep(d, a))
-----------------------------------------------------------------------------
(* Properties.                                                             *)

\* Whatever the interleaving of the handlers, the restarts and the calls
\* that fail, the phases go the way of AllocationLifecycle.
Lifecycle == INSTANCE AllocationLifecycle WITH Allocs <- Allocs, phase <- phase
LifecycleSpec == Lifecycle!Spec

\* The instances recorded in a Scheduled allocation all exist, and no two of
\* its VMs are the same instance: no handler of another dispatcher, and none
\* that failed, deletes them.
ScheduledIsBacked ==
    \A a \in Allocs : phase[a] = "Scheduled" =>
        /\ \A k \in 1..VMs : ids[a][k] \in cloud
        /\ \A j, k \in 1..VMs : ids[a][j] = ids[a][k] => j = k

Working == {"create", "undo", "scheduled"}

\* A user deleted the allocation before the dispatcher's result was written.
DeletedEarly(a) == phase[a] = "Deleted" /\ ids[a] = NoIds

Undisturbed ==
    /\ execs = 0 /\ up = Dispatchers /\ errors = 0
    /\ \A a \in Allocs : ~DeletedEarly(a)

\* While no process was restarted, no dispatcher died, no call failed and no user
\* deleted an allocation that was being dispatched, every instance is accounted
\* for: it is recorded in a Scheduled allocation, or its creation or its
\* deletion is under way.
NoLeak ==
    Undisturbed =>
        \A v \in cloud :
            \/ \E a \in Allocs : phase[a] = "Scheduled" /\ v \in Instances(ids[a])
            \/ \E t \in del : v \in Instances(ids[t[2]])
            \/ \E t \in Dispatchers \X Allocs :
                    pc[t] \in Working /\ v \in Instances(pids[t])

\* The handlers' copies: one that still carries the current resource version
\* shows the phase its handler was started for.  This is what makes the
\* unconditional writes of the handlers safe.
CopiesMatch ==
    /\ \A a \in Allocs : phase[a] = "Absent" => rv[a] = 0
    /\ \A t \in Distributors \X Allocs : dpc[t] \in {"assign", "fail"} =>
           /\ drv[t] <= rv[t[2]]
           /\ drv[t] = rv[t[2]] => phase[t[2]] \in {"New", "Deleted"}
    /\ spc # Idle =>
           /\ spc.rv <= rv[spc.alloc]
           /\ spc.rv = rv[spc.alloc] => phase[spc.alloc] \in {"Assigned", "Deleted"}
    /\ \A t \in Dispatchers \X Allocs : pc[t] \in Active =>
           /\ prv[t] <= rv[t[2]]
           /\ prv[t] = rv[t[2]] => phase[t[2]] \in {"Bound", "Deleted"}

\* Instances have one owner: an object, or one handler that has not written
\* its result yet; what a handler deletes is its own.
InstancesNumbered ==
    /\ \A v \in cloud : 0 < v /\ v <= lastVM
    /\ \A a \in Allocs : \A k \in 1..VMs : ids[a][k] <= lastVM
    /\ \A t \in Dispatchers \X Allocs : \A k \in 1..VMs : pids[t][k] <= lastVM

InstancesOwned ==
    /\ \A t, u \in Dispatchers \X Allocs : \A j, k \in 1..VMs :
           pc[t] \in Active /\ pc[u] \in Active /\ pids[t][j] # 0
              => (pids[t][j] = pids[u][k] => t = u /\ j = k)
    /\ \A t \in Dispatchers \X Allocs, a \in Allocs : \A j, k \in 1..VMs :
           pc[t] \in Active /\ pids[t][j] = ids[a][k] => pids[t][j] = 0
    /\ \A a, b \in Allocs : \A j, k \in 1..VMs :
           ids[a][j] = ids[b][k] /\ ids[a][j] # 0 => a = b /\ j = k

InstancesExist ==
    /\ \A t \in Dispatchers \X Allocs : \A k \in 1..VMs :
           /\ pc[t] \in {"create", "scheduled"} /\ pids[t][k] # 0
                  => pids[t][k] \in cloud
           /\ pc[t] = "scheduled" => pids[t][k] # 0
    /\ \A a \in Allocs : phase[a] = "Scheduled" =>
           \A k \in 1..VMs : ids[a][k] \in cloud
    /\ \A t \in del : phase[t[2]] = "Deleted"

\* An allocation that is assigned to a scheduler is decided upon, also one
\* whose handler died with an earlier process of the scheduler; unless a call
\* fails, as an Update of bindAllocation that fails is not repeated, or the
\* process is dead, as nothing watches for that, and what is assigned to the
\* scheduler stays so.
AssignedIsScheduled ==
    \A a \in Allocs :
        phase[a] = "Assigned" ~> phase[a] # "Assigned" \/ errors > 0 \/ ~alive

\* However often processes are replaced and ranges move, overlap or leave a
\* gap meanwhile: if in the end a process covers the clusters and no call
\* failed, each decision of the scheduler is sent to its cluster, with one
\* outcome or the other.  A process that died does not count: one that has
\* deleted no pod divides by zero at the first deletion of an allocation, and
\* nobody starts it again.
BoundIsDispatched ==
    \A a \in Allocs :
        <>[](covers \cap up # {} /\ errors = 0) =>
            (phase[a] = "Bound" ~> phase[a] # "Bound")
=============================================================================
