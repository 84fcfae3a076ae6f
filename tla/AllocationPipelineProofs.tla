---------------------- MODULE AllocationPipelineProofs ----------------------
(***************************************************************************)
(* Proofs about the allocation pipeline for any number of allocations, VMs *)
(* and processes, and any number of restarts and failed calls.             *)
(***************************************************************************)
EXTENDS AllocationPipeline, TLAPS

(* What a call of Update can do to the objects.                            *)
LEMMA UpdateOutcomes ==
    ASSUME NEW a, NEW r, NEW p, NEW i, Succeeds(a, r, p, i) \/ Fails(a, r, p, i),
           errors \in 0..MaxError
    PROVE  /\ UNCHANGED object \/ Applied(a, r, p, i)
           /\ errors' \in 0..MaxError
  BY ConstantsAssumption DEF Succeeds, Fails, Fault

(* The instances that deleteAllocationResources removes are those of i.    *)
LEMMA DeletedInstances ==
    ASSUME NEW i, deleteAllocationResources(i), errors \in 0..MaxError
    PROVE  /\ cloud' \subseteq cloud
           /\ \A v \in cloud : v \notin Instances(i) => v \in cloud'
           /\ lastVM' = lastVM
           /\ errors' \in 0..MaxError
  BY ConstantsAssumption DEF deleteAllocationResources, Fault

(* The scheduler's process ends or is started: the objects, the other      *)
(* processes and the clouds stay.                                          *)
LEMMA SchedulerComesAndGoes ==
    ASSUME SchedulerLifetime
    PROVE  /\ UNCHANGED <<phase, rv, ids, dpc, drv, pc, prv, pids, del, up, covers>>
           /\ UNCHANGED <<podDeleted, cloud, lastVM, errors>>
           /\ spc' \in {spc, Idle} /\ execs' \in {execs, execs + 1}
  BY DEF SchedulerLifetime, ExitScheduler, StartScheduler, object, distributors,
         dispatchers, clouds

(* Type correctness of the pipeline.                                       *)
THEOREM PipelineTypeCorrect == Spec => []TypeOK
<1>1. Init => TypeOK
  BY ConstantsAssumption DEF Init, TypeOK, Phases, Ids, NoIds, Idle
<1>2. TypeOK /\ [Next]_vars => TypeOK'
  <2> SUFFICES ASSUME TypeOK, [Next]_vars PROVE TypeOK'
    OBVIOUS
  <2> USE ConstantsAssumption
  <2>0. NoIds \in Ids /\ errors \in 0..MaxError /\ execs \in 0..MaxExec
    BY DEF NoIds, Ids, TypeOK
  <2>a. ASSUME NEW a \in Allocs, NEW r \in Nat, NEW p \in Phases, NEW i \in Ids,
               Succeeds(a, r, p, i) \/ Fails(a, r, p, i)
        PROVE  /\ phase' \in [Allocs -> Phases]
               /\ rv' \in [Allocs -> Nat] /\ ids' \in [Allocs -> Ids]
               /\ errors' \in 0..MaxError
    BY <2>0, <2>a, UpdateOutcomes DEF Applied, object, TypeOK
  <2>1. ASSUME NEW a \in Allocs, CreateAllocation(a) \/ DeleteAllocation(a)
        PROVE  TypeOK'
    <3>1. CASE CreateAllocation(a)
      BY <3>1 DEF CreateAllocation, TypeOK, Phases, distributors, scheduler,
                  dispatchers, clouds
    <3>2. CASE DeleteAllocation(a)
      <4>1. del' \subseteq Dispatchers \X Allocs
        BY <3>2 DEF DeleteAllocation, TypeOK
      <4>2. phase' \in [Allocs -> Phases]
        BY <3>2 DEF DeleteAllocation, TypeOK, Phases
      <4>. QED
        BY <3>2, <4>1, <4>2 DEF DeleteAllocation, TypeOK, distributors,
           scheduler, clouds
    <3>. QED
      BY <2>1, <3>1, <3>2
  <2>2. ASSUME NEW p \in Distributors, ExecDistributor(p) \/ ExitDistributor(p)
        PROVE  TypeOK'
    <3>1. /\ dpc' \in [Distributors \X Allocs -> {"none", "assign", "fail", "done"}]
          /\ execs' \in 0..MaxExec
      BY <2>0, <2>2 DEF ExecDistributor, ExitDistributor, TypeOK
    <3>2. UNCHANGED <<object, drv, scheduler, dispatchers, clouds, errors>>
      BY <2>2 DEF ExecDistributor, ExitDistributor
    <3>. QED
      BY <3>1, <3>2 DEF TypeOK, object, scheduler, dispatchers, clouds
  <2>3. ASSUME NEW p \in Distributors, NEW a \in Allocs, DistributorStep(p, a)
        PROVE  TypeOK'
    <3>0. <<p, a>> \in Distributors \X Allocs /\ drv[<<p, a>>] \in Nat
      BY DEF TypeOK
    <3>1. CASE \E fits \in BOOLEAN : ScheduleAllocation(p, a, fits)
      BY <3>0, <3>1 DEF ScheduleAllocation, TypeOK, object, scheduler,
                        dispatchers, clouds
    <3>2. CASE AssignScheduler(p, a)
      <4>1. /\ phase' \in [Allocs -> Phases]
            /\ rv' \in [Allocs -> Nat] /\ ids' \in [Allocs -> Ids]
            /\ errors' \in 0..MaxError
        BY <2>0, <2>a, <3>0, <3>2 DEF AssignScheduler, Phases
      <4>. QED
        BY <3>2, <4>1 DEF AssignScheduler, TypeOK, scheduler, dispatchers, clouds
    <3>3. CASE FailAssignment(p, a)
      <4>1. /\ phase' \in [Allocs -> Phases]
            /\ rv' \in [Allocs -> Nat] /\ ids' \in [Allocs -> Ids]
            /\ errors' \in 0..MaxError
        BY <2>0, <2>a, <3>0, <3>3 DEF FailAssignment, Phases
      <4>. QED
        BY <3>3, <4>1 DEF FailAssignment, TypeOK, scheduler, dispatchers, clouds
    <3>. QED
      BY <2>3, <3>1, <3>2, <3>3 DEF DistributorStep
  <2>4. ASSUME SchedulerStep
        PROVE  TypeOK'
    <3>1. ASSUME NEW a \in Allocs, NEW p \in {"Bound", "NotScheduled"},
                 scheduleAllocation(a, p)
          PROVE  TypeOK'
      BY <3>1 DEF scheduleAllocation, TypeOK, object, distributors,
                  dispatchers, clouds
    <3>2. CASE bindAllocation
      <4>0. /\ spc.alloc \in Allocs /\ spc.rv \in Nat /\ spc.phase \in Phases
        BY <3>2 DEF bindAllocation, TypeOK, Phases
      <4>1. /\ phase' \in [Allocs -> Phases]
            /\ rv' \in [Allocs -> Nat] /\ ids' \in [Allocs -> Ids]
            /\ errors' \in 0..MaxError
        BY <2>0, <2>a, <3>2, <4>0 DEF bindAllocation
      <4>. QED
        BY <3>2, <4>1 DEF bindAllocation, TypeOK, distributors, dispatchers, clouds
    <3>. QED
      BY <2>4, <3>1, <3>2 DEF SchedulerStep
  <2>5. ASSUME NEW d \in Dispatchers, DispatcherLifetime(d)
        PROVE  TypeOK'
    <3>1. CASE DeletePod(d)
      BY <3>1 DEF DeletePod, TypeOK, object, distributors, scheduler, clouds
    <3>2. CASE ExecDispatcher(d)
      <4>1. /\ pc' \in [Dispatchers \X Allocs ->
                  {"none", "create", "undo", "scheduled", "failed", "done"}]
            /\ del' \subseteq Dispatchers \X Allocs
            /\ podDeleted' \subseteq Dispatchers
        BY <3>2 DEF ExecDispatcher, Kill, TypeOK
      <4>2. covers' \subseteq Dispatchers /\ execs' \in 0..MaxExec
        BY <2>0, <3>2 DEF ExecDispatcher, TypeOK
      <4>. QED
        BY <3>2, <4>1, <4>2 DEF ExecDispatcher, TypeOK, object, distributors,
           scheduler, clouds
    <3>3. CASE ExitDispatcher(d)
      BY <2>0, <3>3 DEF ExitDispatcher, Kill, TypeOK, object, distributors,
         scheduler, clouds
    <3>4. CASE StartDispatcher(d)
      BY <2>0, <3>4 DEF StartDispatcher, TypeOK, object, distributors,
         scheduler, clouds
    <3>. QED
      BY <2>5, <3>1, <3>2, <3>3, <3>4 DEF DispatcherLifetime
  <2>6. ASSUME NEW d \in Dispatchers, NEW a \in Allocs, DispatcherStep(d, a)
        PROVE  TypeOK'
    <3>0. /\ <<d, a>> \in Dispatchers \X Allocs /\ prv[<<d, a>>] \in Nat
          /\ pids[<<d, a>>] \in Ids
      BY DEF TypeOK
    <3>1. CASE SendAllocationToCluster(d, a)
      BY <2>0, <3>0, <3>1 DEF SendAllocationToCluster, TypeOK, object,
         distributors, scheduler, clouds
    <3>2. ASSUME NEW k \in 1..VMs, CreateVM(d, a, k)
          PROVE  TypeOK'
      <4>1. lastVM + 1 \in Nat
        BY DEF TypeOK
      <4>2. [pids[<<d, a>>] EXCEPT ![k] = lastVM + 1] \in Ids
        BY <3>0, <4>1 DEF Ids
      <4>3. pids' \in [Dispatchers \X Allocs -> Ids]
        BY <3>0, <3>2, <4>2 DEF CreateVM, TypeOK
      <4>. QED
        BY <3>0, <3>2, <4>1, <4>3 DEF CreateVM, TypeOK, object,
           distributors, scheduler
    <3>3. CASE CreateFails(d, a)
      BY <3>0, <3>3 DEF CreateFails, TypeOK, object, distributors, scheduler, clouds
    <3>4. CASE CreateLost(d, a)
      BY <2>0, <3>0, <3>4 DEF CreateLost, Fault, TypeOK, object, distributors, scheduler
    <3>5. CASE UndoVMs(d, a)
      <4>1. cloud' \subseteq Nat /\ lastVM' = lastVM /\ errors' \in 0..MaxError
        BY <2>0, <3>5, DeletedInstances DEF UndoVMs, TypeOK
      <4>. QED
        BY <3>0, <3>5, <4>1 DEF UndoVMs, TypeOK, object, distributors, scheduler
    <3>6. ASSUME NEW step, NEW p \in Phases, ReportPhase(d, a, step, p)
          PROVE  TypeOK'
      <4>1. /\ phase' \in [Allocs -> Phases]
            /\ rv' \in [Allocs -> Nat] /\ ids' \in [Allocs -> Ids]
            /\ errors' \in 0..MaxError
        BY <2>a, <3>0, <3>6 DEF ReportPhase
      <4>. QED
        BY <3>0, <3>6, <4>1 DEF ReportPhase, TypeOK, distributors, scheduler, clouds
    <3>7. CASE DeleteVMs(d, a)
      <4>1. cloud' \subseteq Nat /\ lastVM' = lastVM /\ errors' \in 0..MaxError
        BY <2>0, <3>7, DeletedInstances DEF DeleteVMs, TypeOK
      <4>. QED
        BY <3>0, <3>7, <4>1 DEF DeleteVMs, Kill, TypeOK, object, distributors, scheduler
    <3>. QED
      BY <2>6, <3>1, <3>2, <3>3, <3>4, <3>5, <3>6, <3>7
         DEF DispatcherStep, ReportScheduled, ReportFailed, Phases
  <2>7. CASE UNCHANGED vars
    BY <2>7 DEF vars, TypeOK, object, distributors, scheduler, dispatchers, clouds
  <2>8. CASE SchedulerLifetime
    <3>1. alive' \in BOOLEAN /\ seen' \subseteq Allocs /\ execs' \in 0..MaxExec
      <4>1. CASE ExitScheduler
        BY <2>0, <4>1 DEF ExitScheduler, TypeOK
      <4>2. CASE StartScheduler
        <5>1. alive' = TRUE /\ seen' = {}
          BY <4>2 DEF StartScheduler
        <5>2. execs' \in 0..MaxExec
          BY <2>0, <4>2 DEF StartScheduler
        <5>. QED
          BY <5>1, <5>2
      <4>. QED
        BY <2>8, <4>1, <4>2 DEF SchedulerLifetime
    <3>2. /\ UNCHANGED <<phase, rv, ids, dpc, drv, pc, prv, pids, del, up, covers>>
          /\ UNCHANGED <<podDeleted, cloud, lastVM, errors>>
          /\ spc' = spc \/ spc' = Idle
      BY <2>8, SchedulerComesAndGoes
    <3>3. spc' \in [alloc : Allocs, rv : Nat, phase : {"Bound", "NotScheduled"}]
                      \cup {Idle}
      BY <3>2 DEF TypeOK
    <3>. QED
      BY <3>1, <3>2, <3>3 DEF TypeOK
  <2>. QED
    BY <2>1, <2>2, <2>3, <2>4, <2>5, <2>6, <2>7, <2>8 DEF Next
<1>. QED
  BY <1>1, <1>2, PTL DEF Spec

(* A write makes every copy of the object but its own outdated, and leaves *)
(* the others as they are.                                                 *)
LEMMA AppliedWrites ==
    ASSUME TypeOK, NEW a \in Allocs, NEW r \in Nat, NEW p, NEW i,
           Applied(a, r, p, i)
    PROVE  /\ rv[a] = r /\ phase[a] # "Absent" /\ phase[a] # "Deleted"
           /\ rv'[a] = rv[a] + 1 /\ phase'[a] = p /\ ids'[a] = i
           /\ \A b \in Allocs \ {a} :
                 rv'[b] = rv[b] /\ phase'[b] = phase[b] /\ ids'[b] = ids[b]
  BY DEF Applied, Exists, TypeOK

(* The copies of the handlers stay consistent with the objects when one of *)
(* them writes its result and ends.                                        *)
LEMMA WritePreservesCopies ==
    ASSUME TypeOK, CopiesMatch, NEW a \in Allocs, NEW r \in Nat, NEW p, NEW i,
           p # "Absent",
           UNCHANGED object \/ Applied(a, r, p, i),
           \A t \in Distributors \X Allocs : dpc'[t] \in {"assign", "fail"} =>
               dpc[t] \in {"assign", "fail"} /\ drv'[t] = drv[t],
           spc' # Idle => spc' = spc,
           \A t \in Dispatchers \X Allocs : pc'[t] \in Active =>
               pc[t] \in Active /\ prv'[t] = prv[t]
    PROVE  CopiesMatch'
<1>0. \A t \in (Distributors \X Allocs) \cup (Dispatchers \X Allocs) : t[2] \in Allocs
  OBVIOUS
<1>1. CASE UNCHANGED object
  BY <1>0, <1>1 DEF CopiesMatch, object
<1>2. CASE Applied(a, r, p, i)
  <2>1. /\ rv[a] = r /\ rv'[a] = rv[a] + 1 /\ phase'[a] = p
        /\ \A b \in Allocs \ {a} : rv'[b] = rv[b] /\ phase'[b] = phase[b]
    BY <1>2, AppliedWrites
  <2>2. \A b \in Allocs : rv[b] \in Nat
    BY DEF TypeOK
  <2>3. \A b \in Allocs : phase'[b] = "Absent" => rv'[b] = 0
    BY <2>1 DEF CopiesMatch
  <2>4. ASSUME NEW t \in Distributors \X Allocs, dpc'[t] \in {"assign", "fail"}
        PROVE  /\ drv'[t] <= rv'[t[2]]
               /\ drv'[t] = rv'[t[2]] => phase'[t[2]] \in {"New", "Deleted"}
    <3>1. /\ t[2] \in Allocs /\ drv[t] \in Nat /\ drv'[t] = drv[t]
          /\ drv[t] <= rv[t[2]]
          /\ drv[t] = rv[t[2]] => phase[t[2]] \in {"New", "Deleted"}
      BY <1>0, <2>4 DEF CopiesMatch, TypeOK
    <3>. QED
      BY <2>1, <2>2, <3>1
  <2>5. ASSUME spc' # Idle
        PROVE  /\ spc'.rv <= rv'[spc'.alloc]
               /\ spc'.rv = rv'[spc'.alloc] =>
                      phase'[spc'.alloc] \in {"Assigned", "Deleted"}
    <3>1. spc' = spc /\ spc.alloc \in Allocs /\ spc.rv \in Nat
      BY <2>5 DEF TypeOK
    <3>2. /\ spc.rv <= rv[spc.alloc]
          /\ spc.rv = rv[spc.alloc] => phase[spc.alloc] \in {"Assigned", "Deleted"}
      BY <2>5, <3>1 DEF CopiesMatch
    <3>. QED
      BY <2>1, <2>2, <3>1, <3>2
  <2>6. ASSUME NEW t \in Dispatchers \X Allocs, pc'[t] \in Active
        PROVE  /\ prv'[t] <= rv'[t[2]]
               /\ prv'[t] = rv'[t[2]] => phase'[t[2]] \in {"Bound", "Deleted"}
    <3>1. /\ t[2] \in Allocs /\ prv[t] \in Nat /\ prv'[t] = prv[t]
          /\ prv[t] <= rv[t[2]]
          /\ prv[t] = rv[t[2]] => phase[t[2]] \in {"Bound", "Deleted"}
      BY <1>0, <2>6 DEF CopiesMatch, TypeOK
    <3>. QED
      BY <2>1, <2>2, <3>1
  <2>. QED
    BY <2>3, <2>4, <2>5, <2>6 DEF CopiesMatch
<1>. QED
  BY <1>1, <1>2

(* A step preserves the consistency of the copies.                         *)
LEMMA CopiesStep ==
    ASSUME TypeOK, CopiesMatch, [Next]_vars
    PROVE  CopiesMatch'
<1> USE ConstantsAssumption
<1>0. errors \in 0..MaxError
  BY DEF TypeOK
<1>1. ASSUME NEW a \in Allocs, CreateAllocation(a)
      PROVE  CopiesMatch'
  <2>1. rv[a] = 0 /\ phase[a] = "Absent" /\ \A b \in Allocs : rv[b] \in Nat
    BY <1>1 DEF CreateAllocation, CopiesMatch, TypeOK
  <2>2. /\ rv'[a] = 1 /\ phase'[a] = "New"
        /\ \A b \in Allocs \ {a} : rv'[b] = rv[b] /\ phase'[b] = phase[b]
        /\ UNCHANGED <<dpc, drv, spc, pc, prv>>
    BY <1>1 DEF CreateAllocation, TypeOK, distributors, scheduler, dispatchers
  <2>3. ASSUME NEW t \in Distributors \X Allocs, dpc[t] \in {"assign", "fail"}
        PROVE  /\ drv[t] <= rv'[t[2]]
               /\ drv[t] = rv'[t[2]] => phase'[t[2]] \in {"New", "Deleted"}
    BY <2>1, <2>2, <2>3 DEF CopiesMatch, TypeOK
  <2>4. ASSUME spc # Idle
        PROVE  /\ spc.rv <= rv'[spc.alloc]
               /\ spc.rv = rv'[spc.alloc] => phase'[spc.alloc] \in {"Assigned", "Deleted"}
    <3>1. spc.alloc \in Allocs /\ spc.rv \in Nat
      BY <2>4 DEF TypeOK
    <3>. QED
      BY <2>1, <2>2, <2>4, <3>1 DEF CopiesMatch
  <2>5. ASSUME NEW t \in Dispatchers \X Allocs, pc[t] \in Active
        PROVE  /\ prv[t] <= rv'[t[2]]
               /\ prv[t] = rv'[t[2]] => phase'[t[2]] \in {"Bound", "Deleted"}
    BY <2>1, <2>2, <2>5 DEF CopiesMatch, TypeOK
  <2>6. \A b \in Allocs : phase'[b] = "Absent" => rv'[b] = 0
    BY <2>2 DEF CopiesMatch
  <2>. QED
    BY <2>2, <2>3, <2>4, <2>5, <2>6 DEF CopiesMatch
<1>2. ASSUME NEW a \in Allocs, DeleteAllocation(a)
      PROVE  CopiesMatch'
  <2>1. /\ \A b \in Allocs : phase'[b] = phase[b] \/ phase'[b] = "Deleted"
        /\ UNCHANGED <<rv, dpc, drv, spc, pc, prv>>
    BY <1>2 DEF DeleteAllocation, TypeOK, distributors, scheduler
  <2>2. spc # Idle => spc.alloc \in Allocs
    BY DEF TypeOK
  <2>. QED
    BY <2>1, <2>2 DEF CopiesMatch
<1>3. ASSUME NEW p \in Distributors, ExecDistributor(p) \/ ExitDistributor(p)
      PROVE  CopiesMatch'
  BY <1>3 DEF ExecDistributor, ExitDistributor, CopiesMatch, object, scheduler, dispatchers
<1>4. ASSUME NEW p \in Distributors, NEW a \in Allocs, DistributorStep(p, a)
      PROVE  CopiesMatch'
  <2>0. <<p, a>> \in Distributors \X Allocs /\ drv[<<p, a>>] \in Nat
        /\ dpc \in [Distributors \X Allocs -> {"none", "assign", "fail", "done"}]
        /\ drv \in [Distributors \X Allocs -> Nat]
    BY DEF TypeOK
  <2>1. ASSUME NEW fits \in BOOLEAN, ScheduleAllocation(p, a, fits)
        PROVE  CopiesMatch'
    <3>1. ASSUME NEW t \in Distributors \X Allocs, dpc'[t] \in {"assign", "fail"}
          PROVE  /\ drv'[t] <= rv[t[2]]
                 /\ drv'[t] = rv[t[2]] => phase[t[2]] \in {"New", "Deleted"}
      <4>1. CASE t = <<p, a>>
        BY <2>0, <2>1, <4>1 DEF ScheduleAllocation, TypeOK
      <4>2. CASE t # <<p, a>>
        BY <2>0, <2>1, <3>1, <4>2 DEF ScheduleAllocation, CopiesMatch
      <4>. QED
        BY <4>1, <4>2
    <3>2. UNCHANGED <<phase, rv, spc, pc, prv>>
      BY <2>1 DEF ScheduleAllocation, object, scheduler, dispatchers
    <3>. QED
      BY <3>1, <3>2 DEF CopiesMatch
  <2>2. CASE AssignScheduler(p, a)
    <3>1. UNCHANGED object \/ Applied(a, drv[<<p, a>>], "Assigned", NoIds)
      BY <1>0, <2>2, UpdateOutcomes DEF AssignScheduler
    <3>2. \A t \in Distributors \X Allocs : dpc'[t] \in {"assign", "fail"} =>
               dpc[t] \in {"assign", "fail"} /\ drv'[t] = drv[t]
      BY <2>0, <2>2 DEF AssignScheduler
    <3>3. UNCHANGED <<spc, pc, prv>>
      BY <2>2 DEF AssignScheduler, scheduler, dispatchers
    <3>. QED
      BY <2>0, <3>1, <3>2, <3>3, WritePreservesCopies
  <2>3. CASE FailAssignment(p, a)
    <3>1. UNCHANGED object \/ Applied(a, drv[<<p, a>>], "Failed", NoIds)
      BY <1>0, <2>3, UpdateOutcomes DEF FailAssignment
    <3>2. \A t \in Distributors \X Allocs : dpc'[t] \in {"assign", "fail"} =>
               dpc[t] \in {"assign", "fail"} /\ drv'[t] = drv[t]
      BY <2>0, <2>3 DEF FailAssignment
    <3>3. UNCHANGED <<spc, pc, prv>>
      BY <2>3 DEF FailAssignment, scheduler, dispatchers
    <3>. QED
      BY <2>0, <3>1, <3>2, <3>3, WritePreservesCopies
  <2>. QED
    BY <1>4, <2>1, <2>2, <2>3 DEF DistributorStep
<1>5. ASSUME SchedulerStep
      PROVE  CopiesMatch'
  <2>1. ASSUME NEW a \in Allocs, NEW p \in {"Bound", "NotScheduled"},
               scheduleAllocation(a, p)
        PROVE  CopiesMatch'
    BY <2>1 DEF scheduleAllocation, CopiesMatch, TypeOK, object, distributors,
                dispatchers
  <2>2. CASE bindAllocation
    <3>0. spc.alloc \in Allocs /\ spc.rv \in Nat /\ spc.phase # "Absent"
      BY <2>2 DEF bindAllocation, TypeOK
    <3>1. UNCHANGED object \/ Applied(spc.alloc, spc.rv, spc.phase, NoIds)
      BY <1>0, <2>2, UpdateOutcomes DEF bindAllocation
    <3>2. spc' = Idle /\ UNCHANGED <<dpc, drv, pc, prv>>
      BY <2>2 DEF bindAllocation, distributors, dispatchers
    <3>. QED
      BY <3>0, <3>1, <3>2, WritePreservesCopies
  <2>. QED
    BY <1>5, <2>1, <2>2 DEF SchedulerStep
<1>6. ASSUME NEW d \in Dispatchers, DispatcherLifetime(d)
      PROVE  CopiesMatch'
  <2>1. /\ UNCHANGED <<phase, rv, dpc, drv, spc, prv>>
        /\ \A t \in Dispatchers \X Allocs : pc'[t] = pc[t] \/ pc'[t] = "none"
    BY <1>6 DEF DispatcherLifetime, DeletePod, ExecDispatcher, ExitDispatcher,
                StartDispatcher, Kill, object, distributors, scheduler
  <2>. QED
    BY <2>1 DEF CopiesMatch, Active
<1>7. ASSUME NEW d \in Dispatchers, NEW a \in Allocs, DispatcherStep(d, a)
      PROVE  CopiesMatch'
  <2>0. /\ <<d, a>> \in Dispatchers \X Allocs /\ prv[<<d, a>>] \in Nat
        /\ pc \in [Dispatchers \X Allocs ->
                  {"none", "create", "undo", "scheduled", "failed", "done"}]
        /\ prv \in [Dispatchers \X Allocs -> Nat]
    BY DEF TypeOK
  <2>1. CASE SendAllocationToCluster(d, a)
    <3>1. ASSUME NEW t \in Dispatchers \X Allocs, pc'[t] \in Active
          PROVE  /\ prv'[t] <= rv[t[2]]
                 /\ prv'[t] = rv[t[2]] => phase[t[2]] \in {"Bound", "Deleted"}
      <4>1. CASE t = <<d, a>>
        BY <2>0, <2>1, <4>1 DEF SendAllocationToCluster, TypeOK
      <4>2. CASE t # <<d, a>>
        BY <2>0, <2>1, <3>1, <4>2 DEF SendAllocationToCluster, CopiesMatch
      <4>. QED
        BY <4>1, <4>2
    <3>2. UNCHANGED <<phase, rv, dpc, drv, spc>>
      BY <2>1 DEF SendAllocationToCluster, object, distributors, scheduler
    <3>. QED
      BY <3>1, <3>2 DEF CopiesMatch
  <2>2. CASE \/ \E k \in 1..VMs : CreateVM(d, a, k)
             \/ CreateFails(d, a) \/ CreateLost(d, a) \/ UndoVMs(d, a)
    <3>1. UNCHANGED <<phase, rv, dpc, drv, spc, prv>>
      BY <2>2 DEF CreateVM, CreateFails, CreateLost, UndoVMs, object,
                  distributors, scheduler
    <3>2. \A t \in Dispatchers \X Allocs : pc'[t] \in Active => pc[t] \in Active
      BY <2>0, <2>2 DEF CreateVM, CreateFails, CreateLost, UndoVMs, Active
    <3>. QED
      BY <3>1, <3>2 DEF CopiesMatch
  <2>3. ASSUME NEW step, NEW p, p # "Absent", ReportPhase(d, a, step, p)
        PROVE  CopiesMatch'
    <3>1. UNCHANGED object \/ Applied(a, prv[<<d, a>>], p, pids[<<d, a>>])
      BY <1>0, <2>3, UpdateOutcomes DEF ReportPhase
    <3>2. \A t \in Dispatchers \X Allocs : pc'[t] \in Active =>
               pc[t] \in Active /\ prv'[t] = prv[t]
      BY <2>0, <2>3 DEF ReportPhase, Active
    <3>3. UNCHANGED <<dpc, drv, spc>>
      BY <2>3 DEF ReportPhase, distributors, scheduler
    <3>. QED
      BY <2>0, <2>3, <3>1, <3>2, <3>3, WritePreservesCopies
  <2>4. CASE DeleteVMs(d, a)
    <3>1. UNCHANGED <<phase, rv, dpc, drv, spc, prv>>
      BY <2>4 DEF DeleteVMs, object, distributors, scheduler
    <3>2. \A t \in Dispatchers \X Allocs : pc'[t] = pc[t] \/ pc'[t] = "none"
      BY <2>4 DEF DeleteVMs, Kill
    <3>. QED
      BY <3>1, <3>2 DEF CopiesMatch, Active
  <2>. QED
    BY <1>7, <2>1, <2>2, <2>3, <2>4
       DEF DispatcherStep, ReportScheduled, ReportFailed
<1>8. CASE UNCHANGED vars
  BY <1>8 DEF vars, CopiesMatch, object, distributors, scheduler, dispatchers
<1>9. CASE SchedulerLifetime
  BY <1>9, SchedulerComesAndGoes DEF CopiesMatch
<1>. QED
  BY <1>1, <1>2, <1>3, <1>4, <1>5, <1>6, <1>7, <1>8, <1>9 DEF Next

(* The consistency of the copies is an invariant.                          *)
LEMMA CopiesInvariance == Spec => []CopiesMatch
<1>1. Init => CopiesMatch
  BY DEF Init, CopiesMatch, Active
<1>2. TypeOK /\ CopiesMatch /\ [Next]_vars => CopiesMatch'
  BY CopiesStep
<1>. QED
  BY <1>1, <1>2, PipelineTypeCorrect, PTL DEF Spec

(* A write of a handler whose copy is current advances the allocation by   *)
(* one stage.                                                              *)
LEMMA WriteAdvances ==
    ASSUME TypeOK, NEW a \in Allocs, NEW r \in Nat, NEW p, NEW i,
           UNCHANGED object \/ Applied(a, r, p, i),
           rv[a] = r /\ Exists(a) => p \in Lifecycle!Follows(phase[a])
    PROVE  Lifecycle!Next \/ UNCHANGED phase
<1>1. CASE UNCHANGED object
  BY <1>1 DEF object
<1>2. CASE Applied(a, r, p, i)
  <2>1. p \in Lifecycle!Follows(phase[a]) /\ phase' = [phase EXCEPT ![a] = p]
    BY <1>2 DEF Applied
  <2>. QED
    BY <2>1 DEF Lifecycle!Next, Lifecycle!Advance
<1>. QED
  BY <1>1, <1>2

(* Every step of the pipeline is a step of the lifecycle or a stutter.     *)
LEMMA LifecycleStep ==
    ASSUME TypeOK, CopiesMatch, [Next]_vars
    PROVE  Lifecycle!Next \/ UNCHANGED phase
<1> USE ConstantsAssumption
<1>0. errors \in 0..MaxError
  BY DEF TypeOK
<1>1. ASSUME NEW a \in Allocs, CreateAllocation(a) \/ DeleteAllocation(a)
      PROVE  Lifecycle!Next
  <2>1. CASE CreateAllocation(a)
    BY <2>1 DEF CreateAllocation, Lifecycle!Next, Lifecycle!Advance,
                Lifecycle!Follows, Lifecycle!Phases, Lifecycle!HandsOn
  <2>2. CASE DeleteAllocation(a)
    <3>1. "Deleted" \in Lifecycle!Follows(phase[a])
      BY <2>2 DEF DeleteAllocation, Exists, Lifecycle!Follows,
         Lifecycle!Phases, Lifecycle!HandsOn
    <3>. QED
      BY <2>2, <3>1 DEF DeleteAllocation, Lifecycle!Next, Lifecycle!Advance
  <2>. QED
    BY <1>1, <2>1, <2>2
<1>2. ASSUME NEW p \in Distributors, NEW a \in Allocs, DistributorStep(p, a)
      PROVE  Lifecycle!Next \/ UNCHANGED phase
  <2>0. <<p, a>> \in Distributors \X Allocs /\ drv[<<p, a>>] \in Nat
    BY DEF TypeOK
  <2>1. CASE \E fits \in BOOLEAN : ScheduleAllocation(p, a, fits)
    BY <2>1 DEF ScheduleAllocation, object
  <2>2. CASE AssignScheduler(p, a) \/ FailAssignment(p, a)
    <3>1. \/ UNCHANGED object \/ Applied(a, drv[<<p, a>>], "Assigned", NoIds)
          \/ Applied(a, drv[<<p, a>>], "Failed", NoIds)
      BY <1>0, <2>2, UpdateOutcomes DEF AssignScheduler, FailAssignment
    <3>2. dpc[<<p, a>>] \in {"assign", "fail"}
      BY <2>2 DEF AssignScheduler, FailAssignment
    <3>3. rv[a] = drv[<<p, a>>] /\ Exists(a) =>
              {"Assigned", "Failed"} \subseteq Lifecycle!Follows(phase[a])
      BY <2>0, <3>2 DEF CopiesMatch, Exists, Lifecycle!Follows,
         Lifecycle!Phases, Lifecycle!HandsOn
    <3>. QED
      BY <2>0, <3>1, <3>3, WriteAdvances
  <2>. QED
    BY <1>2, <2>1, <2>2 DEF DistributorStep
<1>3. ASSUME SchedulerStep
      PROVE  Lifecycle!Next \/ UNCHANGED phase
  <2>1. CASE \E a \in Allocs, p \in {"Bound", "NotScheduled"} :
                 scheduleAllocation(a, p)
    BY <2>1 DEF scheduleAllocation, object
  <2>2. CASE bindAllocation
    <3>0. /\ spc.alloc \in Allocs /\ spc.rv \in Nat
          /\ spc.phase \in {"Bound", "NotScheduled"}
      BY <2>2 DEF bindAllocation, TypeOK
    <3>1. UNCHANGED object \/ Applied(spc.alloc, spc.rv, spc.phase, NoIds)
      BY <1>0, <2>2, UpdateOutcomes DEF bindAllocation
    <3>2. rv[spc.alloc] = spc.rv /\ Exists(spc.alloc) =>
              spc.phase \in Lifecycle!Follows(phase[spc.alloc])
      BY <2>2, <3>0 DEF bindAllocation, CopiesMatch, Exists, Lifecycle!Follows,
         Lifecycle!Phases, Lifecycle!HandsOn
    <3>. QED
      BY <3>0, <3>1, <3>2, WriteAdvances
  <2>. QED
    BY <1>3, <2>1, <2>2 DEF SchedulerStep
<1>4. ASSUME NEW d \in Dispatchers, NEW a \in Allocs, NEW step \in Active,
             NEW p \in {"Scheduled", "Failed"}, ReportPhase(d, a, step, p)
      PROVE  Lifecycle!Next \/ UNCHANGED phase
  <2>0. <<d, a>> \in Dispatchers \X Allocs /\ prv[<<d, a>>] \in Nat
    BY DEF TypeOK
  <2>1. UNCHANGED object \/ Applied(a, prv[<<d, a>>], p, pids[<<d, a>>])
    BY <1>0, <1>4, UpdateOutcomes DEF ReportPhase
  <2>2. rv[a] = prv[<<d, a>>] /\ Exists(a) =>
            p \in Lifecycle!Follows(phase[a])
    BY <1>4, <2>0 DEF ReportPhase, CopiesMatch, Exists, Lifecycle!Follows,
         Lifecycle!Phases, Lifecycle!HandsOn
  <2>. QED
    BY <2>0, <2>1, <2>2, WriteAdvances
<1>5. ASSUME NEW d \in Dispatchers, NEW a \in Allocs, DispatcherStep(d, a)
      PROVE  Lifecycle!Next \/ UNCHANGED phase
  <2>1. CASE ReportScheduled(d, a) \/ ReportFailed(d, a)
    BY <1>4, <2>1 DEF ReportScheduled, ReportFailed, Active
  <2>2. CASE ~(ReportScheduled(d, a) \/ ReportFailed(d, a))
    BY <1>5, <2>2 DEF DispatcherStep, SendAllocationToCluster, CreateVM,
       CreateFails, CreateLost, UndoVMs, DeleteVMs, object
  <2>. QED
    BY <2>1, <2>2
<1>6. ASSUME \/ \E p \in Distributors : ExecDistributor(p) \/ ExitDistributor(p)
             \/ \E d \in Dispatchers : DispatcherLifetime(d)
             \/ UNCHANGED vars \/ SchedulerLifetime
      PROVE  UNCHANGED phase
  BY <1>6, SchedulerComesAndGoes DEF ExecDistributor, ExitDistributor, DispatcherLifetime, DeletePod,
              ExecDispatcher, ExitDispatcher, StartDispatcher, object, vars
<1>. QED
  BY <1>1, <1>2, <1>3, <1>5, <1>6 DEF Next

(* The distributors, the scheduler and the dispatchers together implement  *)
(* the lifecycle of an allocation, for any number of processes, restarts   *)
(* and lost or refused calls.                                              *)
THEOREM PipelineImplementsLifecycle == Spec => LifecycleSpec
<1>1. Init => Lifecycle!Init
  BY DEF Init, Lifecycle!Init
<1>2. TypeOK /\ CopiesMatch /\ [Next]_vars => [Lifecycle!Next]_phase
  BY LifecycleStep
<1>. QED
  BY <1>1, <1>2, PipelineTypeCorrect, CopiesInvariance, PTL
     DEF Spec, LifecycleSpec, Lifecycle!Spec
-----------------------------------------------------------------------------
(* Instances.  The inductive invariant says who owns an instance; what     *)
(* matters of a step is which handlers, objects and instances it leaves as *)
(* they are.                                                               *)

InstanceInv == InstancesNumbered /\ InstancesOwned /\ InstancesExist

(* Values the invariant speaks of.                                         *)
LEMMA InstanceTypes ==
    ASSUME TypeOK
    PROVE  /\ \A t \in Dispatchers \X Allocs : t[2] \in Allocs
           /\ \A t \in Dispatchers \X Allocs, k \in 1..VMs : pids[t][k] \in Nat
           /\ \A a \in Allocs, k \in 1..VMs : ids[a][k] \in Nat
           /\ lastVM \in Nat /\ cloud \subseteq Nat
           /\ \A k \in 1..VMs : NoIds[k] = 0
  BY DEF TypeOK, Ids, NoIds

(* A step that creates no instance, records none and deletes only the      *)
(* instances in a set G keeps the invariant, when G holds nothing that a   *)
(* handler or a Scheduled allocation still relies on.                      *)
LEMMA InstancesKept ==
    ASSUME TypeOK, InstanceInv, NEW G,
           UNCHANGED <<ids, pids, lastVM>>,
           cloud' \subseteq cloud,
           \A v \in cloud : v \notin G => v \in cloud',
           \A t \in Dispatchers \X Allocs :
               /\ pc'[t] \in Active => pc[t] \in Active
               /\ pc'[t] \in {"create", "scheduled"} => pc'[t] = pc[t]
               /\ pc'[t] \in {"create", "scheduled"} =>
                      \A k \in 1..VMs : pids[t][k] \notin G \/ pids[t][k] = 0,
           \A a \in Allocs : phase'[a] = "Scheduled" =>
               /\ phase[a] = "Scheduled"
               /\ \A k \in 1..VMs : ids[a][k] \notin G,
           \A t \in del' : phase'[t[2]] = "Deleted"
    PROVE  InstanceInv'
<1>1. InstancesNumbered'
  BY DEF InstanceInv, InstancesNumbered
<1>2. InstancesOwned'
  BY DEF InstanceInv, InstancesOwned
<1>3. InstancesExist'
  BY DEF InstanceInv, InstancesExist
<1>. QED
  BY <1>1, <1>2, <1>3 DEF InstanceInv

(* The same for a step that deletes no instance.                           *)
LEMMA InstancesUntouched ==
    ASSUME TypeOK, InstanceInv,
           UNCHANGED <<ids, pids, cloud, lastVM>>,
           \A t \in Dispatchers \X Allocs :
               /\ pc'[t] \in Active => pc[t] \in Active
               /\ pc'[t] \in {"create", "scheduled"} => pc'[t] = pc[t],
           \A a \in Allocs : phase'[a] = "Scheduled" => phase[a] = "Scheduled",
           \A t \in del' : phase'[t[2]] = "Deleted"
    PROVE  InstanceInv'
<1>1. InstancesNumbered'
  BY DEF InstanceInv, InstancesNumbered
<1>2. InstancesOwned'
  BY DEF InstanceInv, InstancesOwned
<1>3. InstancesExist'
  BY DEF InstanceInv, InstancesExist
<1>. QED
  BY <1>1, <1>2, <1>3 DEF InstanceInv

(* A write by a distributor or the scheduler keeps the invariant.          *)
LEMMA ForeignWriteKeepsInstances ==
    ASSUME TypeOK, InstanceInv, NEW a \in Allocs, NEW r \in Nat, NEW p,
           p # "Scheduled",
           UNCHANGED object \/ Applied(a, r, p, NoIds),
           UNCHANGED <<pc, pids, del, cloud, lastVM>>
    PROVE  InstanceInv'
<1>1. CASE UNCHANGED object
  <2>1. UNCHANGED <<phase, ids>>
    BY <1>1 DEF object
  <2>2. \A t \in del : phase[t[2]] = "Deleted"
    BY DEF InstanceInv, InstancesExist
  <2>. QED
    BY <2>1, <2>2, InstancesUntouched
<1>2. CASE Applied(a, r, p, NoIds)
  <2>1. /\ phase[a] # "Deleted" /\ phase'[a] = p /\ ids'[a] = NoIds
        /\ \A b \in Allocs \ {a} : phase'[b] = phase[b] /\ ids'[b] = ids[b]
    BY <1>2, AppliedWrites
  <2>2. InstancesNumbered'
    BY <2>1, InstanceTypes DEF InstanceInv, InstancesNumbered
  <2>3. InstancesOwned'
    BY <2>1, InstanceTypes DEF InstanceInv, InstancesOwned
  <2>4. InstancesExist'
    <3>1. \A t \in del : t[2] \in Allocs
      BY InstanceTypes DEF TypeOK
    <3>. QED
      BY <2>1, <3>1 DEF InstanceInv, InstancesExist
  <2>. QED
    BY <2>2, <2>3, <2>4 DEF InstanceInv
<1>. QED
  BY <1>1, <1>2

(* A dispatcher's result moves the instances of its handler to the object. *)
LEMMA ReportKeepsInstances ==
    ASSUME TypeOK, InstanceInv, NEW d \in Dispatchers, NEW a \in Allocs,
           NEW step \in Active, NEW p, p = "Scheduled" => step = "scheduled",
           ReportPhase(d, a, step, p)
    PROVE  InstanceInv'
<1> DEFINE h == <<d, a>>
<1>0. /\ h \in Dispatchers \X Allocs /\ prv[h] \in Nat /\ pc[h] = step
      /\ errors \in 0..MaxError
  BY DEF ReportPhase, TypeOK
<1>1. /\ UNCHANGED <<pids, del, cloud, lastVM>> /\ pc'[h] = "done"
      /\ \A t \in Dispatchers \X Allocs : t # h => pc'[t] = pc[t]
  BY DEF ReportPhase, TypeOK, clouds
<1>2. UNCHANGED object \/ Applied(a, prv[h], p, pids[h])
  BY <1>0, UpdateOutcomes DEF ReportPhase
<1> HIDE DEF h
<1>3. CASE UNCHANGED object
  <2>1. UNCHANGED <<phase, ids>>
    BY <1>3 DEF object
  <2>2. \A t \in del : phase[t[2]] = "Deleted"
    BY DEF InstanceInv, InstancesExist
  <2>3. \A t \in Dispatchers \X Allocs :
               /\ pc'[t] \in Active => pc[t] \in Active
               /\ pc'[t] \in {"create", "scheduled"} => pc'[t] = pc[t]
    BY <1>1 DEF Active
  <2>. QED
    BY <1>1, <2>1, <2>2, <2>3, InstancesUntouched
<1>4. CASE Applied(a, prv[h], p, pids[h])
  <2>1. /\ phase[a] # "Deleted" /\ phase'[a] = p /\ ids'[a] = pids[h]
        /\ \A b \in Allocs \ {a} : phase'[b] = phase[b] /\ ids'[b] = ids[b]
    BY <1>0, <1>4, AppliedWrites
  <2>2. InstancesNumbered'
    BY <1>0, <1>1, <2>1 DEF InstanceInv, InstancesNumbered
  <2>3. InstancesOwned'
    <3>1. \A t \in Dispatchers \X Allocs : pc'[t] \in Active =>
              t # h /\ pc[t] \in Active
      BY <1>1 DEF Active
    <3>2. ASSUME NEW t \in Dispatchers \X Allocs, NEW b \in Allocs,
                 NEW j \in 1..VMs, NEW k \in 1..VMs,
                 pc'[t] \in Active, pids[t][j] = ids'[b][k]
          PROVE  pids[t][j] = 0
      BY <1>0, <2>1, <3>1, <3>2 DEF InstanceInv, InstancesOwned
    <3>3. ASSUME NEW b \in Allocs, NEW c \in Allocs,
                 NEW j \in 1..VMs, NEW k \in 1..VMs,
                 ids'[b][j] = ids'[c][k], ids'[b][j] # 0
          PROVE  b = c /\ j = k
      <4>1. CASE b = a /\ c = a
        BY <1>0, <2>1, <3>3, <4>1 DEF InstanceInv, InstancesOwned
      <4>2. CASE b = a /\ c # a
        BY <1>0, <2>1, <3>3, <4>2 DEF InstanceInv, InstancesOwned
      <4>3. CASE b # a /\ c = a
        BY <1>0, <2>1, <3>3, <4>3 DEF InstanceInv, InstancesOwned
      <4>4. CASE b # a /\ c # a
        BY <2>1, <3>3, <4>4 DEF InstanceInv, InstancesOwned
      <4>. QED
        BY <4>1, <4>2, <4>3, <4>4
    <3>. QED
      BY <1>1, <3>1, <3>2, <3>3 DEF InstanceInv, InstancesOwned
  <2>4. InstancesExist'
    <3>1. \A t \in del : t[2] \in Allocs
      BY InstanceTypes DEF TypeOK
    <3>2. p = "Scheduled" => \A k \in 1..VMs : pids[h][k] \in cloud
      BY <1>0 DEF InstanceInv, InstancesExist
    <3>. QED
      BY <1>1, <2>1, <3>1, <3>2 DEF InstanceInv, InstancesExist
  <2>. QED
    BY <2>2, <2>3, <2>4 DEF InstanceInv
<1>. QED
  BY <1>2, <1>3, <1>4

(* A step of the pipeline keeps the ownership of the instances.            *)
LEMMA InstancesStep ==
    ASSUME TypeOK, InstanceInv, [Next]_vars
    PROVE  InstanceInv'
<1> USE ConstantsAssumption
<1>0. /\ errors \in 0..MaxError
      /\ \A t \in del : phase[t[2]] = "Deleted" /\ t[2] \in Allocs
      /\ pc \in [Dispatchers \X Allocs ->
                  {"none", "create", "undo", "scheduled", "failed", "done"}]
      /\ pids \in [Dispatchers \X Allocs -> Ids]
  BY DEF TypeOK, InstanceInv, InstancesExist
<1>1. ASSUME NEW a \in Allocs, CreateAllocation(a)
      PROVE  InstanceInv'
  <2>1. UNCHANGED <<ids, pids, pc, del, cloud, lastVM>>
    BY <1>1 DEF CreateAllocation, dispatchers, clouds
  <2>2. /\ phase[a] = "Absent" /\ phase'[a] = "New"
        /\ \A b \in Allocs \ {a} : phase'[b] = phase[b]
    BY <1>1 DEF CreateAllocation, TypeOK
  <2>. QED
    BY <1>0, <2>1, <2>2, InstancesUntouched
<1>2. ASSUME NEW a \in Allocs, DeleteAllocation(a)
      PROVE  InstanceInv'
  <2>1. UNCHANGED <<ids, pids, pc, cloud, lastVM>>
    BY <1>2 DEF DeleteAllocation, clouds
  <2>2. phase'[a] = "Deleted" /\ \A b \in Allocs \ {a} : phase'[b] = phase[b]
    BY <1>2 DEF DeleteAllocation, TypeOK
  <2>3. \A t \in del' : t \in del \/ t[2] = a
    BY <1>2 DEF DeleteAllocation
  <2>. QED
    BY <1>0, <2>1, <2>2, <2>3, InstancesUntouched
<1>3. ASSUME NEW p \in Distributors, ExecDistributor(p) \/ ExitDistributor(p)
      PROVE  InstanceInv'
  BY <1>0, <1>3, InstancesUntouched DEF ExecDistributor, ExitDistributor, object, dispatchers, clouds
<1>4. ASSUME NEW p \in Distributors, NEW a \in Allocs, DistributorStep(p, a)
      PROVE  InstanceInv'
  <2>0. <<p, a>> \in Distributors \X Allocs /\ drv[<<p, a>>] \in Nat
    BY DEF TypeOK
  <2>1. CASE \E fits \in BOOLEAN : ScheduleAllocation(p, a, fits)
    BY <1>0, <2>1, InstancesUntouched
       DEF ScheduleAllocation, object, dispatchers, clouds
  <2>2. CASE AssignScheduler(p, a) \/ FailAssignment(p, a)
    <3>1. \/ UNCHANGED object \/ Applied(a, drv[<<p, a>>], "Assigned", NoIds)
          \/ UNCHANGED object \/ Applied(a, drv[<<p, a>>], "Failed", NoIds)
      BY <1>0, <2>2, UpdateOutcomes DEF AssignScheduler, FailAssignment
    <3>2. UNCHANGED <<pc, pids, del, cloud, lastVM>>
      BY <2>2 DEF AssignScheduler, FailAssignment, dispatchers, clouds
    <3>. QED
      BY <2>0, <3>1, <3>2, ForeignWriteKeepsInstances
  <2>. QED
    BY <1>4, <2>1, <2>2 DEF DistributorStep
<1>5. ASSUME SchedulerStep
      PROVE  InstanceInv'
  <2>1. CASE \E a \in Allocs, p \in {"Bound", "NotScheduled"} :
                 scheduleAllocation(a, p)
    BY <1>0, <2>1, InstancesUntouched
       DEF scheduleAllocation, object, dispatchers, clouds
  <2>2. CASE bindAllocation
    <3>0. /\ spc.alloc \in Allocs /\ spc.rv \in Nat /\ spc.phase # "Scheduled"
      BY <2>2 DEF bindAllocation, TypeOK
    <3>1. UNCHANGED object \/ Applied(spc.alloc, spc.rv, spc.phase, NoIds)
      BY <1>0, <2>2, UpdateOutcomes DEF bindAllocation
    <3>2. UNCHANGED <<pc, pids, del, cloud, lastVM>>
      BY <2>2 DEF bindAllocation, dispatchers, clouds
    <3>. QED
      BY <3>0, <3>1, <3>2, ForeignWriteKeepsInstances
  <2>. QED
    BY <1>5, <2>1, <2>2 DEF SchedulerStep
<1>6. ASSUME NEW d \in Dispatchers, DispatcherLifetime(d)
      PROVE  InstanceInv'
  <2>1. /\ UNCHANGED <<phase, ids, pids, cloud, lastVM>> /\ del' \subseteq del
        /\ \A t \in Dispatchers \X Allocs : pc'[t] = pc[t] \/ pc'[t] = "none"
    BY <1>6 DEF DispatcherLifetime, DeletePod, ExecDispatcher, ExitDispatcher,
                StartDispatcher, Kill, object, clouds
  <2>2. \A t \in Dispatchers \X Allocs :
               /\ pc'[t] \in Active => pc[t] \in Active
               /\ pc'[t] \in {"create", "scheduled"} => pc'[t] = pc[t]
    BY <2>1 DEF Active
  <2>. QED
    BY <1>0, <2>1, <2>2, InstancesUntouched
<1>7. ASSUME NEW d \in Dispatchers, NEW a \in Allocs, DispatcherStep(d, a)
      PROVE  InstanceInv'
  <2> DEFINE h == <<d, a>>
  <2>0. h \in Dispatchers \X Allocs /\ pids[h] \in Ids
    BY DEF TypeOK
  <2>1. CASE SendAllocationToCluster(d, a)
    <3>1. /\ UNCHANGED <<phase, ids, del, cloud, lastVM>>
          /\ pc'[h] = "create" /\ pids'[h] = NoIds
          /\ \A t \in Dispatchers \X Allocs : t # h =>
                 pc'[t] = pc[t] /\ pids'[t] = pids[t]
      BY <1>0, <2>0, <2>1 DEF SendAllocationToCluster, object, clouds
    <3> HIDE DEF h
    <3>2. InstancesNumbered'
      BY <3>1, InstanceTypes DEF InstanceInv, InstancesNumbered
    <3>3. InstancesOwned'
      BY <3>1, InstanceTypes DEF InstanceInv, InstancesOwned
    <3>4. InstancesExist'
      BY <3>1, InstanceTypes DEF InstanceInv, InstancesExist
    <3>. QED
      BY <3>2, <3>3, <3>4 DEF InstanceInv
  <2>2. ASSUME NEW n \in 1..VMs, CreateVM(d, a, n)
        PROVE  InstanceInv'
    <3>1. /\ UNCHANGED <<phase, ids, del>> /\ lastVM' = lastVM + 1
          /\ cloud' = cloud \cup {lastVM + 1}
          /\ pc[h] = "create" /\ pc'[h] \in {"create", "scheduled"}
          /\ pc'[h] = "scheduled" => n = VMs
          /\ \A j \in 1..(n - 1) : pids[h][j] # 0
          /\ pids'[h][n] = lastVM + 1
          /\ \A k \in 1..VMs : k # n => pids'[h][k] = pids[h][k]
          /\ \A t \in Dispatchers \X Allocs : t # h =>
                 pc'[t] = pc[t] /\ pids'[t] = pids[t]
      BY <1>0, <2>0, <2>2 DEF CreateVM, object, Ids
    <3> HIDE DEF h
    <3>2. InstancesNumbered'
      BY <2>0, <3>1, InstanceTypes DEF InstanceInv, InstancesNumbered
    <3>3. ASSUME NEW t \in Dispatchers \X Allocs, NEW k \in 1..VMs
          PROVE  \/ t = h /\ k = n /\ pids'[t][k] = lastVM + 1
                 \/ pids'[t][k] = pids[t][k] /\ pids[t][k] < lastVM + 1
      BY <2>0, <3>1, InstanceTypes DEF InstanceInv, InstancesNumbered
    <3>4. \A t \in Dispatchers \X Allocs : pc'[t] \in Active => pc[t] \in Active
      BY <3>1 DEF Active
    <3>5. \A b \in Allocs, k \in 1..VMs : ids[b][k] < lastVM + 1
      BY InstanceTypes DEF InstanceInv, InstancesNumbered
    <3>6. InstancesOwned'
      <4>1. ASSUME NEW t \in Dispatchers \X Allocs, NEW u \in Dispatchers \X Allocs,
                   NEW j \in 1..VMs, NEW k \in 1..VMs,
                   pc'[t] \in Active, pc'[u] \in Active, pids'[t][j] # 0,
                   pids'[t][j] = pids'[u][k]
            PROVE  t = u /\ j = k
        BY <3>3, <3>4, <4>1, InstanceTypes DEF InstanceInv, InstancesOwned
      <4>2. ASSUME NEW t \in Dispatchers \X Allocs, NEW b \in Allocs,
                   NEW j \in 1..VMs, NEW k \in 1..VMs,
                   pc'[t] \in Active, pids'[t][j] = ids[b][k]
            PROVE  pids'[t][j] = 0
        BY <3>3, <3>4, <3>5, <4>2, InstanceTypes DEF InstanceInv, InstancesOwned
      <4>. QED
        BY <3>1, <4>1, <4>2 DEF InstanceInv, InstancesOwned
    <3>7. InstancesExist'
      <4>1. ASSUME NEW t \in Dispatchers \X Allocs, NEW k \in 1..VMs,
                   pc'[t] \in {"create", "scheduled"}, pids'[t][k] # 0
            PROVE  pids'[t][k] \in cloud'
        BY <3>1, <3>3, <4>1 DEF InstanceInv, InstancesExist
      <4>2. ASSUME NEW t \in Dispatchers \X Allocs, NEW k \in 1..VMs,
                   pc'[t] = "scheduled"
            PROVE  pids'[t][k] # 0
        BY <2>0, <3>1, <4>2, InstanceTypes DEF InstanceInv, InstancesExist
      <4>. QED
        BY <3>1, <4>1, <4>2 DEF InstanceInv, InstancesExist
    <3>. QED
      BY <3>2, <3>6, <3>7 DEF InstanceInv
  <2>3. CASE CreateFails(d, a)
    <3>1. /\ UNCHANGED <<phase, ids, pids, del, cloud, lastVM>>
          /\ \A t \in Dispatchers \X Allocs :
               /\ pc'[t] \in Active => pc[t] \in Active
               /\ pc'[t] \in {"create", "scheduled"} => pc'[t] = pc[t]
      BY <1>0, <2>0, <2>3 DEF CreateFails, object, clouds, Active
    <3>. QED
      BY <1>0, <3>1, InstancesUntouched
  <2>4. CASE CreateLost(d, a)
    <3>1. /\ UNCHANGED <<phase, ids, pids, del>> /\ lastVM' = lastVM + 1
          /\ cloud' = cloud \cup {lastVM + 1}
          /\ \A t \in Dispatchers \X Allocs :
               /\ pc'[t] \in Active => pc[t] \in Active
               /\ pc'[t] \in {"create", "scheduled"} => pc'[t] = pc[t]
      BY <1>0, <2>0, <2>4 DEF CreateLost, object, Active
    <3>2. InstancesNumbered'
      BY <3>1, InstanceTypes DEF InstanceInv, InstancesNumbered
    <3>3. InstancesOwned'
      BY <3>1 DEF InstanceInv, InstancesOwned
    <3>4. InstancesExist'
      BY <3>1 DEF InstanceInv, InstancesExist
    <3>. QED
      BY <3>2, <3>3, <3>4 DEF InstanceInv
  <2>5. CASE UndoVMs(d, a)
    <3>1. /\ UNCHANGED <<phase, ids, pids, del, lastVM>> /\ cloud' \subseteq cloud
          /\ \A v \in cloud : v \notin Instances(pids[h]) => v \in cloud'
          /\ pc[h] = "undo" /\ pc'[h] = "failed"
          /\ \A t \in Dispatchers \X Allocs : t # h => pc'[t] = pc[t]
      BY <1>0, <2>0, <2>5, DeletedInstances DEF UndoVMs, object
    <3> HIDE DEF h
    <3>2. /\ pc[h] \in Active
          /\ \A t \in Dispatchers \X Allocs :
               /\ pc'[t] \in Active => pc[t] \in Active
               /\ pc'[t] \in {"create", "scheduled"} => pc'[t] = pc[t] /\ t # h
      BY <3>1 DEF Active
    <3>3. ASSUME NEW t \in Dispatchers \X Allocs, NEW k \in 1..VMs,
                 pc'[t] \in {"create", "scheduled"}
          PROVE  pids[t][k] \notin Instances(pids[h]) \/ pids[t][k] = 0
      BY <2>0, <3>2, <3>3 DEF Instances, InstanceInv, InstancesOwned, Active
    <3>4. ASSUME NEW b \in Allocs, NEW k \in 1..VMs
          PROVE  ids[b][k] \notin Instances(pids[h])
      BY <2>0, <3>2 DEF Instances, InstanceInv, InstancesOwned
    <3> DEFINE G == Instances(pids[h])
    <3>5. /\ \A v \in cloud : v \notin G => v \in cloud'
          /\ \A t \in Dispatchers \X Allocs :
                 pc'[t] \in {"create", "scheduled"} =>
                      \A k \in 1..VMs : pids[t][k] \notin G \/ pids[t][k] = 0
          /\ \A b \in Allocs, k \in 1..VMs : ids[b][k] \notin G
      BY <3>1, <3>3, <3>4
    <3> HIDE DEF G
    <3>. QED
      BY <1>0, <3>1, <3>2, <3>5, InstancesKept
  <2>6. CASE ReportScheduled(d, a) \/ ReportFailed(d, a)
    BY <2>6, ReportKeepsInstances DEF ReportScheduled, ReportFailed, Active
  <2>7. CASE DeleteVMs(d, a)
    <3>1. /\ UNCHANGED <<phase, ids, pids, lastVM>> /\ cloud' \subseteq cloud
          /\ \A v \in cloud : v \notin Instances(ids[a]) => v \in cloud'
          /\ phase[a] = "Deleted" /\ del' \subseteq del
          /\ \A t \in Dispatchers \X Allocs : pc'[t] = pc[t] \/ pc'[t] = "none"
      BY <1>0, <2>7, DeletedInstances DEF DeleteVMs, Kill, object
    <3>2. \A t \in Dispatchers \X Allocs :
               /\ pc'[t] \in Active => pc[t] \in Active
               /\ pc'[t] \in {"create", "scheduled"} =>
                      pc'[t] = pc[t] /\ pc[t] \in Active
      BY <3>1 DEF Active
    <3>3. ASSUME NEW t \in Dispatchers \X Allocs, NEW k \in 1..VMs,
                 pc'[t] \in {"create", "scheduled"}
          PROVE  pids[t][k] \notin Instances(ids[a]) \/ pids[t][k] = 0
      BY <3>2, <3>3 DEF Instances, InstanceInv, InstancesOwned
    <3>4. ASSUME NEW b \in Allocs, NEW k \in 1..VMs, phase[b] = "Scheduled"
          PROVE  ids[b][k] \notin Instances(ids[a])
      BY <3>1, <3>4 DEF Instances, InstanceInv, InstancesOwned
    <3>. QED
      BY <1>0, <3>1, <3>2, <3>3, <3>4, InstancesKept
  <2>. QED
    BY <1>7, <2>1, <2>2, <2>3, <2>4, <2>5, <2>6, <2>7 DEF DispatcherStep
<1>8. CASE UNCHANGED vars
  BY <1>0, <1>8, InstancesUntouched DEF vars, object, dispatchers, clouds
<1>9. CASE SchedulerLifetime
  BY <1>0, <1>9, SchedulerComesAndGoes, InstancesUntouched
<1>. QED
  BY <1>1, <1>2, <1>3, <1>4, <1>5, <1>6, <1>7, <1>8, <1>9 DEF Next

(* A Scheduled allocation is backed by instances of its own, however the   *)
(* dispatchers interleave, restart and fail: the instances a handler       *)
(* undoes, or deletes for a user, are never those of another allocation.   *)
THEOREM ScheduledAllocationsAreBacked == Spec => []ScheduledIsBacked
<1>1. Init => InstanceInv
  BY DEF Init, InstanceInv, InstancesNumbered, InstancesOwned, InstancesExist,
         NoIds, Active
<1>2. TypeOK /\ InstanceInv /\ [Next]_vars => InstanceInv'
  BY InstancesStep
<1>3. TypeOK /\ InstanceInv => ScheduledIsBacked
  <2>1. ASSUME TypeOK, InstanceInv, NEW a \in Allocs, phase[a] = "Scheduled",
               NEW k \in 1..VMs
        PROVE  ids[a][k] \in cloud /\ ids[a][k] # 0
    BY <2>1, InstanceTypes DEF InstanceInv, InstancesExist, InstancesNumbered
  <2>. QED
    BY <2>1 DEF ScheduledIsBacked, InstanceInv, InstancesOwned
<1>. QED
  BY <1>1, <1>2, <1>3, PipelineTypeCorrect, PTL DEF Spec

-----------------------------------------------------------------------------
(* Nothing leaks.  As long as nothing went wrong one dispatcher covers the *)
(* clusters, and while it works on an allocation nobody else writes it: so *)
(* its report cannot be refused.  What has not been dispatched records no  *)
(* instances.                                                              *)
OneHandler ==
    /\ \E d \in Dispatchers : covers = {d}
    /\ \A t \in Dispatchers \X Allocs : pc[t] \in Active =>
           t[1] \in covers /\ phase[t[2]] = "Bound" /\ prv[t] = rv[t[2]]
    /\ \A a \in Allocs :
           phase[a] \in {"Absent", "New", "Assigned", "Bound"} => ids[a] = NoIds

HandlerInv == Undisturbed => OneHandler

(* What disturbed the pipeline stays: restarts and errors are counted, a   *)
(* process that died is only started with a restart, and an object that is *)
(* deleted is not written any more.                                        *)
LEMMA DeletedStays ==
    ASSUME TypeOK, NEW b \in Allocs, NEW r, NEW p, NEW i,
           Succeeds(b, r, p, i) \/ Fails(b, r, p, i)
    PROVE  /\ errors' \in {errors, errors + 1}
           /\ \A a \in Allocs : phase[a] = "Deleted" =>
                  phase'[a] = "Deleted" /\ ids'[a] = ids[a]
<1>1. UNCHANGED object \/ Applied(b, r, p, i)
  BY DEF Succeeds, Fails
<1>2. errors' \in {errors, errors + 1}
  BY DEF Succeeds, Fails, Fault
<1>3. CASE UNCHANGED object
  BY <1>2, <1>3 DEF object
<1>4. CASE Applied(b, r, p, i)
  BY <1>2, <1>4 DEF Applied, Exists, TypeOK
<1>. QED
  BY <1>1, <1>3, <1>4

LEMMA DisturbanceStays ==
    ASSUME TypeOK, [Next]_vars
    PROVE  /\ execs' \in {execs, execs + 1} /\ errors' \in {errors, errors + 1}
           /\ up' \subseteq up \/ execs' = execs + 1
           /\ \A a \in Allocs : phase[a] = "Deleted" =>
                  phase'[a] = "Deleted" /\ ids'[a] = ids[a]
<1> DEFINE Stays ==
       /\ execs' \in {execs, execs + 1} /\ errors' \in {errors, errors + 1}
       /\ up' \subseteq up \/ execs' = execs + 1
       /\ \A a \in Allocs : phase[a] = "Deleted" =>
              phase'[a] = "Deleted" /\ ids'[a] = ids[a]
<1>1. ASSUME NEW a \in Allocs, CreateAllocation(a) \/ DeleteAllocation(a)
      PROVE  Stays
  BY <1>1 DEF CreateAllocation, DeleteAllocation, Exists, TypeOK, dispatchers
<1>2. ASSUME NEW p \in Distributors, ExecDistributor(p) \/ ExitDistributor(p)
      PROVE  Stays
  BY <1>2 DEF ExecDistributor, ExitDistributor, dispatchers, object
<1>3. ASSUME NEW p \in Distributors, NEW a \in Allocs, DistributorStep(p, a)
      PROVE  Stays
  <2>1. CASE \E fits \in BOOLEAN : ScheduleAllocation(p, a, fits)
    BY <2>1 DEF ScheduleAllocation, object, dispatchers
  <2>2. CASE AssignScheduler(p, a) \/ FailAssignment(p, a)
    <3>1. UNCHANGED <<execs, up>>
      BY <2>2 DEF AssignScheduler, FailAssignment, dispatchers
    <3>2. \E q : \/ Succeeds(a, drv[<<p, a>>], q, NoIds)
                 \/ Fails(a, drv[<<p, a>>], q, NoIds)
      BY <2>2 DEF AssignScheduler, FailAssignment
    <3>. QED
      BY <3>1, <3>2, DeletedStays
  <2>. QED
    BY <1>3, <2>1, <2>2 DEF DistributorStep
<1>4. CASE SchedulerStep
  <2>1. CASE \E a \in Allocs, p \in {"Bound", "NotScheduled"} : scheduleAllocation(a, p)
    BY <2>1 DEF scheduleAllocation, object, dispatchers
  <2>2. CASE bindAllocation
    <3>1. spc.alloc \in Allocs /\ UNCHANGED <<execs, up>>
      BY <2>2 DEF bindAllocation, dispatchers, TypeOK
    <3>. QED
      BY <2>2, <3>1, DeletedStays DEF bindAllocation
  <2>. QED
    BY <1>4, <2>1, <2>2 DEF SchedulerStep
<1>5. ASSUME NEW d \in Dispatchers, DispatcherLifetime(d)
      PROVE  Stays
  BY <1>5 DEF DispatcherLifetime, DeletePod, ExecDispatcher, ExitDispatcher,
              StartDispatcher, object
<1>6. ASSUME NEW d \in Dispatchers, NEW a \in Allocs, DispatcherStep(d, a)
      PROVE  Stays
  <2>1. CASE SendAllocationToCluster(d, a) \/ CreateFails(d, a) \/ CreateLost(d, a)
    BY <2>1 DEF SendAllocationToCluster, CreateFails, CreateLost, Fault, object
  <2>2. CASE \E k \in 1..VMs : CreateVM(d, a, k)
    BY <2>2 DEF CreateVM, object
  <2>3. CASE UndoVMs(d, a) \/ DeleteVMs(d, a)
    BY <2>3 DEF UndoVMs, DeleteVMs, deleteAllocationResources, Fault, object
  <2>4. ASSUME NEW step, NEW p, ReportPhase(d, a, step, p)
        PROVE  Stays
    <3>1. UNCHANGED <<execs, up>>
      BY <2>4 DEF ReportPhase
    <3>. QED
      BY <2>4, <3>1, DeletedStays DEF ReportPhase
  <2>. QED
    BY <1>6, <2>1, <2>2, <2>3, <2>4 DEF DispatcherStep, ReportScheduled, ReportFailed
<1>7. CASE UNCHANGED vars
  BY <1>7 DEF vars, object, dispatchers
<1>8. CASE SchedulerLifetime
  BY <1>8, SchedulerComesAndGoes
<1>. QED
  BY <1>1, <1>2, <1>3, <1>4, <1>5, <1>6, <1>7, <1>8 DEF Next

LEMMA UndisturbedBefore ==
    ASSUME TypeOK, [Next]_vars, Undisturbed'
    PROVE  /\ Undisturbed /\ execs' = 0 /\ errors' = 0 /\ up' = Dispatchers
<1>1. execs \in Nat /\ errors \in Nat /\ up \subseteq Dispatchers
  BY ConstantsAssumption DEF TypeOK
<1>2. execs' = 0 /\ errors' = 0 /\ up' = Dispatchers
  BY DEF Undisturbed
<1>3. execs = 0 /\ errors = 0 /\ up = Dispatchers
  BY <1>1, <1>2, DisturbanceStays
<1>4. \A a \in Allocs : ~DeletedEarly(a)
  BY DisturbanceStays DEF Undisturbed, DeletedEarly
<1>. QED
  BY <1>2, <1>3, <1>4 DEF Undisturbed

Accounted(v) ==
    \/ \E a \in Allocs : phase[a] = "Scheduled" /\ v \in Instances(ids[a])
    \/ \E t \in del : v \in Instances(ids[t[2]])
    \/ \E t \in Dispatchers \X Allocs :
            pc[t] \in Working /\ v \in Instances(pids[t])

AllAccounted == \A v \in cloud : Accounted(v)

(* A distributor or the scheduler writes an object that no dispatcher      *)
(* works on yet and that records no instance.                              *)
LEMMA EarlyWriteLeaksNothing ==
    ASSUME TypeOK, InstancesExist, OneHandler, AllAccounted,
           NEW a \in Allocs, NEW r \in Nat, NEW p,
           UNCHANGED object \/ Applied(a, r, p, NoIds),
           rv[a] = r => phase[a] \in {"New", "Assigned", "Deleted"},
           UNCHANGED <<pc, prv, pids, del, covers, cloud>>
    PROVE  OneHandler' /\ AllAccounted'
<1>1. CASE UNCHANGED object
  BY <1>1 DEF OneHandler, AllAccounted, Accounted, object
<1>2. CASE Applied(a, r, p, NoIds)
  <2>1. /\ phase[a] \in {"New", "Assigned"} /\ ids'[a] = NoIds
        /\ \A b \in Allocs \ {a} :
                rv'[b] = rv[b] /\ phase'[b] = phase[b] /\ ids'[b] = ids[b]
    BY <1>2, AppliedWrites
  <2>2. \A t \in Dispatchers \X Allocs : pc[t] \in Active => t[2] # a
    BY <2>1 DEF OneHandler
  <2>3. OneHandler'
    BY <2>1, <2>2 DEF OneHandler
  <2>4. \A t \in del : t[2] \in Allocs /\ t[2] # a
    BY <2>1 DEF InstancesExist, TypeOK
  <2>5. ASSUME NEW v \in cloud PROVE Accounted(v)'
    BY <2>1, <2>4 DEF AllAccounted, Accounted
  <2>. QED
    BY <2>3, <2>5 DEF AllAccounted
<1>. QED
  BY <1>1, <1>2

(* As long as nothing fails, a step keeps one handler per allocation and   *)
(* every instance accounted for.                                           *)
LEMMA QuietStep ==
    ASSUME TypeOK, CopiesMatch, InstancesExist, HandlerInv, NoLeak, [Next]_vars,
           Undisturbed'
    PROVE  OneHandler' /\ AllAccounted'
<1> DEFINE Quiet == OneHandler' /\ AllAccounted'
<1>0. /\ Undisturbed /\ OneHandler /\ AllAccounted
      /\ execs = 0 /\ errors = 0 /\ up = Dispatchers
      /\ execs' = 0 /\ errors' = 0 /\ up' = Dispatchers
  BY UndisturbedBefore DEF HandlerInv, NoLeak, AllAccounted, Accounted, Undisturbed
<1>1. ASSUME NEW a \in Allocs, CreateAllocation(a)
      PROVE  Quiet
  <2>1. /\ phase[a] = "Absent" /\ phase'[a] = "New"
        /\ \A b \in Allocs \ {a} : phase'[b] = phase[b] /\ rv'[b] = rv[b]
        /\ UNCHANGED <<ids, pc, prv, pids, del, covers, cloud>>
    BY <1>1 DEF CreateAllocation, dispatchers, clouds, TypeOK
  <2>2. OneHandler'
    BY <1>0, <2>1 DEF OneHandler
  <2>3. AllAccounted'
    BY <1>0, <2>1 DEF AllAccounted, Accounted
  <2>. QED
    BY <2>2, <2>3
<1>2. ASSUME NEW a \in Allocs, DeleteAllocation(a)
      PROVE  Quiet
  <2>1. /\ phase'[a] = "Deleted"
        /\ \A b \in Allocs \ {a} : phase'[b] = phase[b]
        /\ UNCHANGED <<rv, ids, pc, prv, pids, covers, cloud>>
        /\ del \subseteq del'
        /\ phase[a] = "Scheduled" => (up \cap covers) \X {a} \subseteq del'
    BY <1>2 DEF DeleteAllocation, clouds, TypeOK
  <2>2. phase[a] # "Bound"
    BY <1>0, <2>1 DEF OneHandler, Undisturbed, DeletedEarly
  <2>3. OneHandler'
    BY <1>0, <2>1, <2>2 DEF OneHandler
  <2>4. PICK d \in Dispatchers : covers = {d}
    BY <1>0 DEF OneHandler
  <2>5. ASSUME NEW v \in cloud PROVE Accounted(v)'
    <3>1. CASE phase[a] = "Scheduled" /\ v \in Instances(ids[a])
      <4>1. <<d, a>> \in del' /\ <<d, a>>[2] = a
        BY <1>0, <2>1, <2>4, <3>1
      <4>2. v \in Instances(ids'[a])
        BY <2>1, <3>1
      <4>. QED
        BY <4>1, <4>2 DEF Accounted, Instances
    <3>2. CASE ~(phase[a] = "Scheduled" /\ v \in Instances(ids[a]))
      BY <1>0, <2>1, <3>2 DEF AllAccounted, Accounted
    <3>. QED
      BY <3>1, <3>2
  <2>. QED
    BY <2>1, <2>3, <2>5 DEF AllAccounted
<1>3. ASSUME NEW p \in Distributors, ExecDistributor(p) \/ ExitDistributor(p)
      PROVE  Quiet
  BY <1>0, <1>3 DEF ExecDistributor, ExitDistributor
<1>4. ASSUME NEW p \in Distributors, NEW a \in Allocs, DistributorStep(p, a)
      PROVE  Quiet
  <2>0. <<p, a>> \in Distributors \X Allocs /\ drv[<<p, a>>] \in Nat
    BY DEF TypeOK
  <2>1. UNCHANGED <<pc, prv, pids, del, covers, cloud>>
    BY <1>4 DEF DistributorStep, ScheduleAllocation, AssignScheduler,
                FailAssignment, dispatchers, clouds
  <2>2. CASE \E fits \in BOOLEAN : ScheduleAllocation(p, a, fits)
    <3>1. UNCHANGED object
      BY <2>2 DEF ScheduleAllocation
    <3>. QED
      BY <1>0, <2>1, <3>1 DEF OneHandler, AllAccounted, Accounted, object
  <2>3. CASE AssignScheduler(p, a) \/ FailAssignment(p, a)
    <3>1. rv[a] = drv[<<p, a>>] => phase[a] \in {"New", "Assigned", "Deleted"}
      BY <2>0, <2>3 DEF AssignScheduler, FailAssignment, CopiesMatch
    <3>2. \E q : UNCHANGED object \/ Applied(a, drv[<<p, a>>], q, NoIds)
      BY <2>3 DEF AssignScheduler, FailAssignment, Succeeds, Fails
    <3>. QED
      BY <1>0, <2>0, <2>1, <3>1, <3>2, EarlyWriteLeaksNothing
  <2>. QED
    BY <1>4, <2>2, <2>3 DEF DistributorStep
<1>5. CASE SchedulerStep
  <2>1. UNCHANGED <<pc, prv, pids, del, covers, cloud>>
    BY <1>5 DEF SchedulerStep, scheduleAllocation, bindAllocation, dispatchers, clouds
  <2>2. CASE \E a \in Allocs, p \in {"Bound", "NotScheduled"} : scheduleAllocation(a, p)
    <3>1. UNCHANGED object
      BY <2>2 DEF scheduleAllocation
    <3>. QED
      BY <1>0, <2>1, <3>1 DEF OneHandler, AllAccounted, Accounted, object
  <2>3. CASE bindAllocation
    <3>0. spc.alloc \in Allocs /\ spc.rv \in Nat /\ spc # Idle
      BY <2>3 DEF bindAllocation, TypeOK
    <3>1. rv[spc.alloc] = spc.rv => phase[spc.alloc] \in {"New", "Assigned", "Deleted"}
      BY <3>0 DEF CopiesMatch
    <3>2. UNCHANGED object \/ Applied(spc.alloc, spc.rv, spc.phase, NoIds)
      BY <2>3 DEF bindAllocation, Succeeds, Fails
    <3>. QED
      BY <1>0, <2>1, <3>0, <3>1, <3>2, EarlyWriteLeaksNothing
  <2>. QED
    BY <1>5, <2>2, <2>3 DEF SchedulerStep
<1>6. ASSUME NEW d \in Dispatchers, DispatcherLifetime(d)
      PROVE  Quiet
  <2>1. CASE DeletePod(d)
    BY <1>0, <2>1 DEF DeletePod, OneHandler, AllAccounted, Accounted, object, clouds
  <2>2. CASE ExecDispatcher(d) \/ ExitDispatcher(d) \/ StartDispatcher(d)
    BY <1>0, <2>2 DEF ExecDispatcher, ExitDispatcher, StartDispatcher
  <2>. QED
    BY <1>6, <2>1, <2>2 DEF DispatcherLifetime
<1>7. ASSUME NEW d \in Dispatchers, NEW a \in Allocs, DispatcherStep(d, a)
      PROVE  Quiet
  <2> DEFINE h == <<d, a>>
  <2>0. h \in Dispatchers \X Allocs /\ h[1] = d /\ h[2] = a
    OBVIOUS
  <2>a. /\ pc \in [Dispatchers \X Allocs ->
                  {"none", "create", "undo", "scheduled", "failed", "done"}]
        /\ prv \in [Dispatchers \X Allocs -> Nat]
        /\ pids \in [Dispatchers \X Allocs -> Ids]
    BY DEF TypeOK
  <2>1. CASE SendAllocationToCluster(d, a)
    <3>1. /\ UNCHANGED <<phase, rv, ids, del, covers, cloud>>
          /\ pc[h] = "none" /\ phase[a] = "Bound" /\ d \in covers
          /\ pc'[h] = "create" /\ prv'[h] = rv[a]
          /\ \A t \in Dispatchers \X Allocs : t # h =>
                 pc'[t] = pc[t] /\ prv'[t] = prv[t] /\ pids'[t] = pids[t]
      BY <2>0, <2>a, <2>1 DEF SendAllocationToCluster, object, clouds
    <3> HIDE DEF h
    <3>2. OneHandler'
      BY <1>0, <2>0, <3>1 DEF OneHandler
    <3>3. \A t \in Dispatchers \X Allocs : pc[t] \in Working =>
             pc'[t] \in Working /\ pids'[t] = pids[t]
      BY <3>1 DEF Working
    <3>4. AllAccounted'
      BY <1>0, <3>1, <3>3 DEF AllAccounted, Accounted
    <3>. QED
      BY <3>2, <3>4
  <2>2. ASSUME NEW n \in 1..VMs, CreateVM(d, a, n)
        PROVE  Quiet
    <3>1. /\ UNCHANGED <<phase, rv, ids, prv, del, covers>>
          /\ cloud' = cloud \cup {lastVM + 1} /\ lastVM \in Nat
          /\ pc[h] = "create" /\ pc'[h] \in {"create", "scheduled"}
          /\ pids[h][n] = 0 /\ pids'[h][n] = lastVM + 1
          /\ \A k \in 1..VMs : k # n => pids'[h][k] = pids[h][k]
          /\ \A t \in Dispatchers \X Allocs : t # h =>
                 pc'[t] = pc[t] /\ pids'[t] = pids[t]
      BY <2>0, <2>a, <2>2 DEF CreateVM, object, Ids, TypeOK
    <3> HIDE DEF h
    <3>2. OneHandler'
      BY <1>0, <2>0, <3>1 DEF OneHandler, Active
    <3>3. /\ Instances(pids[h]) \subseteq Instances(pids'[h])
          /\ lastVM + 1 \in Instances(pids'[h])
      BY <3>1 DEF Instances
    <3>4. \A t \in Dispatchers \X Allocs : pc[t] \in Working =>
             pc'[t] \in Working /\ Instances(pids[t]) \subseteq Instances(pids'[t])
      BY <3>1, <3>3 DEF Working
    <3>5. ASSUME NEW v \in cloud PROVE Accounted(v)'
      BY <1>0, <3>1, <3>4 DEF AllAccounted, Accounted
    <3>6. ASSUME NEW v, v = lastVM + 1 PROVE Accounted(v)'
      <4>1. pc'[h] \in Working /\ v \in Instances(pids'[h])
        BY <3>1, <3>3, <3>6 DEF Working
      <4>. QED
        BY <2>0, <4>1 DEF Accounted, Instances
    <3>7. \A v \in cloud' : v \in cloud \/ v = lastVM + 1
      BY <3>1
    <3>. QED
      BY <3>2, <3>5, <3>6, <3>7 DEF AllAccounted
  <2>3. CASE CreateFails(d, a)
    <3>1. /\ UNCHANGED <<phase, rv, ids, prv, pids, del, covers, cloud>>
          /\ pc[h] = "create" /\ pc'[h] = "undo"
          /\ \A t \in Dispatchers \X Allocs : t # h => pc'[t] = pc[t]
      BY <2>0, <2>a, <2>3 DEF CreateFails, object, clouds
    <3> HIDE DEF h
    <3>2. OneHandler'
      BY <1>0, <2>0, <3>1 DEF OneHandler, Active
    <3>3. AllAccounted'
      BY <1>0, <2>0, <3>1 DEF AllAccounted, Accounted, Working
    <3>. QED
      BY <3>2, <3>3
  <2>4. CASE CreateLost(d, a)
    BY <1>0, <2>4 DEF CreateLost, Fault
  <2>5. CASE UndoVMs(d, a)
    <3>1. /\ UNCHANGED <<phase, rv, ids, prv, pids, del, covers>>
          /\ cloud' = cloud \ Instances(pids[h])
          /\ pc[h] = "undo" /\ pc'[h] = "failed"
          /\ \A t \in Dispatchers \X Allocs : t # h => pc'[t] = pc[t]
      BY <1>0, <2>0, <2>a, <2>5 DEF UndoVMs, deleteAllocationResources, Fault, object
    <3> HIDE DEF h
    <3>2. OneHandler'
      BY <1>0, <2>0, <3>1 DEF OneHandler, Active
    <3>3. ASSUME NEW v \in cloud, v \notin Instances(pids[h]) PROVE Accounted(v)'
      BY <1>0, <3>1, <3>3 DEF AllAccounted, Accounted
    <3>4. \A v \in cloud' : v \in cloud /\ v \notin Instances(pids[h])
      BY <3>1
    <3>. QED
      BY <3>2, <3>3, <3>4 DEF AllAccounted
  <2>6. ASSUME NEW step \in {"scheduled", "failed"}, NEW p \in {"Scheduled", "Failed"},
               ReportPhase(d, a, step, p), p = "Scheduled" \/ step = "failed"
        PROVE  Quiet
    <3>1. /\ pc[h] = step /\ phase[a] = "Bound" /\ prv[h] = rv[a]
      BY <1>0, <2>0, <2>6 DEF ReportPhase, OneHandler, Active
    <3>2. Applied(a, prv[h], p, pids[h])
      BY <1>0, <2>6, <3>1 DEF ReportPhase, Succeeds, Fails, Fault, Exists
    <3>3. /\ phase'[a] = p /\ ids'[a] = pids[h]
          /\ \A b \in Allocs \ {a} :
                rv'[b] = rv[b] /\ phase'[b] = phase[b] /\ ids'[b] = ids[b]
      BY <2>0, <2>a, <3>2, AppliedWrites
    <3>4. /\ UNCHANGED <<prv, pids, del, covers, cloud>>
          /\ pc'[h] = "done"
          /\ \A t \in Dispatchers \X Allocs : t # h => pc'[t] = pc[t]
      BY <2>0, <2>a, <2>6 DEF ReportPhase, clouds
    <3>5. OneHandler'
      <4>1. ASSUME NEW t \in Dispatchers \X Allocs, pc'[t] \in Active
            PROVE  t # h /\ pc[t] \in Active /\ t[2] # a
        BY <1>0, <2>0, <3>1, <3>4, <4>1 DEF OneHandler, Active
      <4>2. p \notin {"Absent", "New", "Assigned", "Bound"}
        BY <2>6
      <4>. QED
        BY <1>0, <3>3, <3>4, <4>1, <4>2 DEF OneHandler
    <3>6. \A t \in del : t[2] \in Allocs /\ t[2] # a
      BY <3>1 DEF InstancesExist, TypeOK
    <3>7. ASSUME NEW v \in cloud PROVE Accounted(v)'
      <4>1. CASE step = "scheduled" /\ v \in Instances(pids[h])
        BY <2>6, <3>3, <4>1 DEF Accounted
      <4>2. CASE ~(step = "scheduled" /\ v \in Instances(pids[h]))
        <5> HIDE DEF h
        <5>. QED
          BY <1>0, <2>6, <3>1, <3>3, <3>4, <3>6, <4>2 DEF AllAccounted, Accounted, Working
      <4>. QED
        BY <4>1, <4>2
    <3>. QED
      BY <3>4, <3>5, <3>7 DEF AllAccounted
  <2>7. CASE DeleteVMs(d, a)
    <3>1. d \in podDeleted
      BY <1>0, <2>7 DEF DeleteVMs
    <3>2. /\ UNCHANGED <<phase, rv, ids, pc, prv, pids, covers>>
          /\ cloud' = cloud \ Instances(ids[a])
          /\ del' = del \ {h}
      BY <1>0, <2>7, <3>1 DEF DeleteVMs, deleteAllocationResources, Fault, object
    <3>3. OneHandler'
      BY <1>0, <3>2 DEF OneHandler
    <3> HIDE DEF h
    <3>4. ASSUME NEW v \in cloud, v \notin Instances(ids[a]) PROVE Accounted(v)'
      BY <1>0, <2>0, <3>2, <3>4 DEF AllAccounted, Accounted
    <3>5. \A v \in cloud' : v \in cloud /\ v \notin Instances(ids[a])
      BY <3>2
    <3>. QED
      BY <3>3, <3>4, <3>5 DEF AllAccounted
  <2>. QED
    BY <1>7, <2>1, <2>2, <2>3, <2>4, <2>5, <2>6, <2>7
       DEF DispatcherStep, ReportScheduled, ReportFailed
<1>8. CASE UNCHANGED vars
  BY <1>0, <1>8 DEF vars, object, dispatchers, clouds, OneHandler, AllAccounted, Accounted
<1>9. CASE SchedulerLifetime
  BY <1>0, <1>9, SchedulerComesAndGoes DEF OneHandler, AllAccounted, Accounted
<1>. QED
  BY <1>1, <1>2, <1>3, <1>4, <1>5, <1>6, <1>7, <1>8, <1>9 DEF Next

(* Every instance is accounted for while no process was restarted or died, *)
(* no call failed and no allocation was deleted while it was dispatched:   *)
(* isAllAllocationResourcesCreated records what it creates, a failure      *)
(* undoes all of it, and the final Update of the one dispatcher that is    *)
(* responsible is never refused for an outdated copy.                      *)
THEOREM NothingLeaks == Spec => []NoLeak
<1>1. Init => HandlerInv /\ NoLeak
  BY DEF Init, HandlerInv, OneHandler, NoLeak, Active
<1>2. TypeOK /\ CopiesMatch /\ InstanceInv /\ HandlerInv /\ NoLeak /\ [Next]_vars
        => (HandlerInv /\ NoLeak)'
  <2> SUFFICES ASSUME TypeOK, CopiesMatch, InstanceInv, HandlerInv, NoLeak, [Next]_vars,
                      Undisturbed'
               PROVE  OneHandler' /\ AllAccounted'
    BY DEF HandlerInv, NoLeak, AllAccounted, Accounted
  <2>. QED
    BY QuietStep DEF InstanceInv
<1>3. Init => InstanceInv
  BY DEF Init, InstanceInv, InstancesNumbered, InstancesOwned, InstancesExist,
         NoIds, Active
<1>4. TypeOK /\ InstanceInv /\ [Next]_vars => InstanceInv'
  BY InstancesStep
<1>. QED
  BY <1>1, <1>2, <1>3, <1>4, PipelineTypeCorrect, CopiesInvariance, PTL DEF Spec
=============================================================================
