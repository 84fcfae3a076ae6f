-------------------------- MODULE PodPipelineProofs --------------------------
(***************************************************************************)
(* Proofs about the way of pods for any number of pods, distributors and   *)
(* schedulers, and any number of restarts, failed calls, deletions and     *)
(* updates by users.                                                       *)
(***************************************************************************)
EXTENDS PodPipeline, TLAPS

(* What Put makes of the pod and the jobs has their types.                 *)
LEMMA PutTyped ==
    ASSUME TypeOK, NEW p \in Pods, NEW o \in Objects, NEW rest \in SUBSET Jobs,
           Put(p, o, rest)
    PROVE  pod' \in [Pods -> Objects] /\ jobs' \subseteq Jobs
<1> DEFINE new == [o EXCEPT !.rv = pod[p].rv + 1]
<1>1. pod[p] \in Objects
  BY DEF TypeOK
<1>2. pod[p].rv + 1 \in Nat
  BY <1>1 DEF Objects
<1>3. new \in Objects
  BY <1>2 DEF Objects
<1>4. pod' = [pod EXCEPT ![p] = new]
      /\ jobs' = rest \cup Entered(p, new) \cup Left(p, new)
  BY DEF Put
<1> HIDE DEF new
<1>5. [pod[p] EXCEPT !.rv = new.rv] \in Objects
  BY <1>1, <1>3 DEF Objects
<1>6. ASSUME NEW deleted \in BOOLEAN, NEW c \in Objects
      PROVE  Job(p, deleted, c) \in Jobs
  BY DEF Job, Jobs
<1>7. Entered(p, new) \subseteq Jobs
  BY <1>3, <1>6 DEF Entered
<1>8. Left(p, new) \subseteq Jobs
  BY <1>5, <1>6 DEF Left
<1>. QED
  BY <1>3, <1>4, <1>7, <1>8 DEF TypeOK

(* The outcomes of a call to the API server.                               *)
LEMMA CallOutcomes ==
    ASSUME NEW possible \in BOOLEAN, NEW p, NEW o, NEW rest,
           Succeeds(possible, p, o, rest) \/ Fails(possible, p, o, rest),
           errors \in 0..MaxError
    PROVE  /\ (pod' = pod /\ jobs' = rest) \/ (possible /\ Put(p, o, rest))
           /\ errors' \in 0..MaxError
  BY ConstantsAssumption DEF Succeeds, Fails, Fault

(* A call leaves the pod and the jobs in their types.                      *)
LEMMA CallTyped ==
    ASSUME TypeOK, NEW possible \in BOOLEAN, NEW p \in Pods, NEW o \in Objects,
           NEW rest \in SUBSET Jobs,
           Succeeds(possible, p, o, rest) \/ Fails(possible, p, o, rest)
    PROVE  /\ pod' \in [Pods -> Objects] /\ jobs' \subseteq Jobs
           /\ errors' \in 0..MaxError
<1>1. errors \in 0..MaxError /\ pod \in [Pods -> Objects]
  BY DEF TypeOK
<1>2. /\ (pod' = pod /\ jobs' = rest) \/ (possible /\ Put(p, o, rest))
      /\ errors' \in 0..MaxError
  BY <1>1, CallOutcomes
<1>3. CASE pod' = pod /\ jobs' = rest
  BY <1>1, <1>2, <1>3
<1>4. CASE Put(p, o, rest)
  BY <1>2, <1>4, PutTyped
<1>. QED
  BY <1>2, <1>3, <1>4

(* Type correctness of the pod pipeline.                                   *)
THEOREM PodTypeCorrect == Spec => []TypeOK
<1>1. Init => TypeOK
  BY ConstantsAssumption DEF Init, TypeOK, Objects, Phases, Hands, NoBinding
<1>2. TypeOK /\ [Next]_vars => TypeOK'
  <2> SUFFICES ASSUME TypeOK, [Next]_vars PROVE TypeOK'
    OBVIOUS
  <2> USE ConstantsAssumption
  <2>0. /\ jobs \in SUBSET Jobs /\ pod \in [Pods -> Objects]
        /\ errors \in 0..MaxError
    BY DEF TypeOK
  <2>f. ASSUME Fault PROVE errors' \in 0..MaxError
    BY <2>0, <2>f DEF Fault
  <2>1. ASSUME NEW p \in Pods, CreatePod(p) \/ DeletePod(p) \/ TouchPod(p)
        PROVE  TypeOK'
    <3>1. /\ [pod[p] EXCEPT !.phase = "Pending"] \in Objects
          /\ [pod[p] EXCEPT !.phase = "Deleted"] \in Objects
          /\ pod[p] \in Objects
      BY <2>0 DEF Objects, Phases
    <3>2. pod' \in [Pods -> Objects] /\ jobs' \subseteq Jobs
      BY <2>0, <2>1, <3>1, PutTyped DEF CreatePod, DeletePod, TouchPod
    <3>. QED
      BY <2>1, <3>2 DEF CreatePod, DeletePod, TouchPod, TypeOK, schedulers,
         clouds, bounds, life
  <2>2. ASSUME NEW d \in Distributors, ExecDistributor(d)
        PROVE  TypeOK'
    BY <2>2 DEF ExecDistributor, NoBinding, TypeOK, schedulers, clouds, life
  <2>3. ASSUME NEW d \in Distributors, NEW p \in Pods, DistributorStep(d, p)
        PROVE  TypeOK'
    <3>0. bindings[<<d, p>>] \in [step : {"none", "bind", "fail", "done"},
                                   sched : Schedulers \cup {None}, rv : Nat]
      BY DEF TypeOK
    <3>1. ASSUME NEW s \in Schedulers \cup {None}, ScheduleOne(d, p, s)
          PROVE  TypeOK'
      <4>1. pod[p].rv \in Nat
        BY <2>0 DEF Objects
      <4>. QED
        BY <3>1, <4>1 DEF ScheduleOne, TypeOK, schedulers, clouds, bounds, life
    <3>2. CASE bindPod(d, p)
      <4>1. ToScheduler(p, bindings[<<d, p>>].sched) \in Objects
        BY <2>0, <3>0 DEF ToScheduler, Objects, Phases
      <4>2. Exists(p) \in BOOLEAN
        BY DEF Exists
      <4>3. /\ pod' \in [Pods -> Objects] /\ jobs' \subseteq Jobs
            /\ errors' \in 0..MaxError
        BY <2>0, <3>2, <4>1, <4>2, CallTyped DEF bindPod
      <4>4. PICK x \in {"done", "fail"} :
                bindings' = [bindings EXCEPT ![<<d, p>>].step = x]
        BY <3>2 DEF bindPod
      <4>5. bindings' \in [Distributors \X Pods ->
                [step : {"none", "bind", "fail", "done"},
                 sched : Schedulers \cup {None}, rv : Nat]]
        <5>1. [bindings[<<d, p>>] EXCEPT !.step = x]
                 \in [step : {"none", "bind", "fail", "done"},
                      sched : Schedulers \cup {None}, rv : Nat]
          BY <3>0
        <5>2. bindings' = [bindings EXCEPT ![<<d, p>>] =
                              [bindings[<<d, p>>] EXCEPT !.step = x]]
          BY <4>4
        <5>. QED
          BY <5>1, <5>2 DEF TypeOK
      <4>6. UNCHANGED <<schedulers, clouds, touches, execs, restarts, life>>
        BY <3>2 DEF bindPod
      <4>. QED
        BY <4>3, <4>5, <4>6 DEF TypeOK, schedulers, clouds, life
    <3>3. CASE FailPod(d, p)
      <4> DEFINE o == [phase |-> "Failed", sched |-> None, inst |-> 0,
                       rv |-> bindings[<<d, p>>].rv]
      <4>1. o \in Objects
        BY <3>0 DEF Objects, Phases
      <4>2. Current(p, bindings[<<d, p>>].rv) \in BOOLEAN
        BY DEF Current, Exists
      <4>3. Succeeds(Current(p, bindings[<<d, p>>].rv), p, o, jobs)
               \/ Fails(Current(p, bindings[<<d, p>>].rv), p, o, jobs)
        BY <3>3 DEF FailPod
      <4>4. /\ pod' \in [Pods -> Objects] /\ jobs' \subseteq Jobs
            /\ errors' \in 0..MaxError
        BY <2>0, <4>1, <4>2, <4>3, CallTyped
      <4>5. /\ bindings' = [bindings EXCEPT ![<<d, p>>].step = "done"]
            /\ UNCHANGED <<schedulers, clouds, touches, execs, restarts, life>>
        BY <3>3 DEF FailPod
      <4>6. bindings' \in [Distributors \X Pods ->
                [step : {"none", "bind", "fail", "done"},
                 sched : Schedulers \cup {None}, rv : Nat]]
        BY <3>0, <4>5 DEF TypeOK
      <4>. QED
        BY <4>4, <4>5, <4>6 DEF TypeOK, schedulers, clouds, life
    <3>. QED
      BY <2>3, <3>1, <3>2, <3>3 DEF DistributorStep
  <2>4. ASSUME NEW s \in Schedulers, ExitScheduler(s) \/ StartScheduler(s)
        PROVE  TypeOK'
    <3>1. CASE ExitScheduler(s)
      BY <3>1 DEF ExitScheduler, TypeOK, Hands, clouds, bounds
    <3>2. CASE StartScheduler(s)
      BY <3>2 DEF StartScheduler, TypeOK, schedulers, clouds
    <3>. QED
      BY <2>4, <3>1, <3>2
  <2>5. ASSUME NEW s \in Schedulers, NEW p \in Pods, Informer(s, p)
        PROVE  TypeOK'
    <3>1. pod[p].rv \in Nat
      BY <2>0 DEF Objects
    <3>2. \E n \in Nat : known' = [known EXCEPT ![s][p] = n]
      BY <2>5, <3>1 DEF Informer, QueuePod, UnqueuePod
    <3>3. known' \in [Schedulers -> [Pods -> Nat]]
      BY <3>2 DEF TypeOK
    <3>4. queue' \in [Schedulers -> SUBSET Pods]
      BY <2>5 DEF Informer, QueuePod, UnqueuePod, TypeOK
    <3>5. /\ UNCHANGED <<pod, bindings, hand, jobs, clouds, bounds, alive, serving>>
          /\ dropped' \subseteq dropped
      BY <2>5 DEF Informer, QueuePod, UnqueuePod, life
    <3>. QED
      BY <3>3, <3>4, <3>5 DEF TypeOK, clouds, bounds, life
  <2>6. ASSUME NEW s \in Schedulers, NEW p \in Pods, PodWorker(s, p)
        PROVE  TypeOK'
    <3>0. Empty \in Hands /\ Exists(p) \in BOOLEAN
      BY DEF Hands, Exists
    <3>1. ASSUME NEW fits \in BOOLEAN, scheduleOne(s, p, fits)
          PROVE  TypeOK'
      <4>1. [Empty EXCEPT !.pod = p, !.step = IF fits THEN "bind" ELSE "get"]
               \in Hands
        BY DEF Empty, Hands, NoFields
      <4>. QED
        BY <3>1, <4>1 DEF scheduleOne, TypeOK, clouds, bounds, life
    <3>n. CASE scheduleNothing(s, p)
      BY <3>n DEF scheduleNothing, TypeOK, clouds, bounds
    <3>2. CASE bindToSite(s, p)
      <4>1. [pod[p] EXCEPT !.phase = "Bound"] \in Objects
        BY <2>0 DEF Objects, Phases
      <4>2. /\ pod' \in [Pods -> Objects] /\ jobs' \subseteq Jobs
            /\ errors' \in 0..MaxError
        BY <2>0, <3>0, <3>2, <4>1, CallTyped DEF bindToSite
      <4>. QED
        BY <3>0, <3>2, <4>2 DEF bindToSite, TypeOK, clouds, life
    <3>3. CASE getPod(s, p)
      <4>1. [pod |-> p, step |-> "patch",
             fields |-> [phase |-> pod[p].phase # "NoSchedule",
                         sched |-> pod[p].sched # None,
                         inst |-> pod[p].inst # 0]] \in Hands
        BY DEF Hands
      <4>2. errors' \in 0..MaxError
        BY <2>0, <2>f, <3>3 DEF getPod
      <4>3. hand' \in [Schedulers -> Hands]
        <5>1. PICK n \in Hands : hand' = [hand EXCEPT ![s] = n]
          BY <3>0, <3>3, <4>1 DEF getPod
        <5>. QED
          BY <5>1 DEF TypeOK
      <4>. QED
        BY <3>3, <4>2, <4>3 DEF getPod, TypeOK, clouds, life
    <3>4. CASE PatchPodStatus(s, p)
      <4> DEFINE o == Patched(p, hand[s].fields)
                 writes == Exists(p) /\ o # pod[p]
      <4>1. o \in Objects
        BY <2>0 DEF Patched, Objects, Phases
      <4>2. Succeeds(writes, p, o, jobs) \/ Fails(writes, p, o, jobs)
        BY <3>4 DEF PatchPodStatus
      <4>3. writes \in BOOLEAN
        BY DEF Exists
      <4>4. /\ pod' \in [Pods -> Objects] /\ jobs' \subseteq Jobs
            /\ errors' \in 0..MaxError
        <5> HIDE DEF o, writes
        <5>. QED
          BY <2>0, <4>1, <4>2, <4>3, CallTyped
      <4>. QED
        BY <3>0, <3>4, <4>4 DEF PatchPodStatus, TypeOK, clouds, life
    <3>. QED
      BY <2>6, <3>1, <3>n, <3>2, <3>3, <3>4 DEF PodWorker
  <2>7. CASE ExecDispatcher \/ StartDispatcher
    <3>0. ListBound /\ serving' \in BOOLEAN
      BY <2>7 DEF ExecDispatcher, StartDispatcher, TypeOK
    <3>1. jobs' \subseteq Jobs
      <4>1. \A p \in Pods : Job(p, FALSE, pod[p]) \in Jobs
        BY <2>0 DEF Job, Jobs
      <4>. QED
        BY <3>0, <4>1 DEF ListBound
    <3>2. execs' \in 0..MaxExec /\ restarts' \in 0..execs'
      BY <3>0 DEF ListBound, TypeOK
    <3>. QED
      BY <3>0, <3>1, <3>2 DEF ListBound, TypeOK, schedulers, clouds
  <2>x. CASE ExitDispatcher
    BY <2>x DEF ExitDispatcher, TypeOK, schedulers, clouds, bounds
  <2>8. ASSUME NEW j \in jobs, DispatcherStep(j)
        PROVE  TypeOK'
    <3>0. /\ j \in Jobs /\ j.pod \in Pods /\ j.copy \in Objects
          /\ created[j.pod] \in Nat /\ j.copy.inst \in Nat
          /\ jobs \ {j} \in SUBSET Jobs
      BY <2>0 DEF Jobs, TypeOK, Objects
    <3>t. ASSUME NEW f \in {"Scheduled", "Failed"}, NEW k \in Nat
          PROVE  ToReport(j, f, k) \subseteq Jobs
      <4>1. [j.copy EXCEPT !.phase = f, !.inst = k] \in Objects
        BY <3>0 DEF Objects, Phases
      <4>2. [j EXCEPT !.step = "report", !.copy.phase = f, !.copy.inst = k] \in Jobs
        BY <3>0, <4>1 DEF Jobs, Objects, Phases
      <4>. QED
        BY <2>0, <4>2 DEF ToReport
    <3>1. CASE SendFails(j)
      BY <2>f, <3>1 DEF SendFails, TypeOK, schedulers, clouds, life
    <3>2. CASE CreateServer(j)
      <4>1. jobs' \subseteq Jobs
        BY <3>0, <3>2, <3>t DEF CreateServer
      <4>. QED
        BY <3>0, <3>2, <4>1 DEF CreateServer, TypeOK, schedulers, bounds, life
    <3>3. CASE CreateServerFails(j)
      <4>1. jobs' \subseteq Jobs
        BY <3>0, <3>3, <3>t DEF CreateServerFails
      <4>2. /\ errors' \in 0..MaxError
            /\ cloud' \subseteq Pods \X Nat /\ created' \in [Pods -> Nat]
        BY <2>0, <2>f, <3>0, <3>3 DEF CreateServerFails, clouds, TypeOK
      <4>. QED
        BY <3>3, <4>1, <4>2 DEF CreateServerFails, TypeOK, schedulers, life
    <3>4. CASE ReportPod(j)
      <4>1. Current(j.pod, j.copy.rv) \in BOOLEAN
        BY DEF Current, Exists
      <4>2. /\ pod' \in [Pods -> Objects] /\ jobs' \subseteq Jobs
            /\ errors' \in 0..MaxError
        BY <3>0, <3>4, <4>1, CallTyped DEF ReportPod
      <4>. QED
        BY <3>4, <4>2 DEF ReportPod, TypeOK, schedulers, clouds, life
    <3>5. CASE DeleteInstance(j)
      BY <3>5 DEF DeleteInstance, TypeOK, schedulers, bounds, life
    <3>. QED
      BY <2>8, <3>1, <3>2, <3>3, <3>4, <3>5 DEF DispatcherStep
  <2>9. CASE UNCHANGED vars
    BY <2>9 DEF vars, TypeOK, schedulers, clouds, bounds, life
  <2>. QED
    BY <2>1, <2>2, <2>3, <2>4, <2>5, <2>6, <2>7, <2>x, <2>8, <2>9 DEF Next
<1>. QED
  BY <1>1, <1>2, PTL DEF Spec

(* Writing a pod that is not deleted, with no instance or one that exists, *)
(* keeps what pods and goroutines know of instances.                       *)
LEMMA PutBacked ==
    ASSUME TypeOK, RecordedExists, JobsBacked,
           NEW p \in Pods, NEW o \in Objects, NEW rest \in SUBSET jobs,
           Put(p, o, rest), pod[p].phase # "Deleted",
           o.inst # 0 => <<p, o.inst>> \in cloud, cloud' = cloud
    PROVE  RecordedExists' /\ JobsBacked'
<1> DEFINE new == [o EXCEPT !.rv = pod[p].rv + 1]
<1>0. pod \in [Pods -> Objects] /\ jobs \subseteq Jobs
  BY DEF TypeOK
<1>1. new.phase = o.phase /\ new.inst = o.inst
  BY DEF Objects
<1>2. pod' = [pod EXCEPT ![p] = new]
      /\ jobs' = rest \cup Entered(p, new) \cup Left(p, new)
  BY DEF Put
<1> HIDE DEF new
<1>3. pod'[p] = new /\ \A q \in Pods : q # p => pod'[q] = pod[q]
  BY <1>0, <1>2
<1>4. RecordedExists'
  BY <1>1, <1>3 DEF RecordedExists
<1>5. ASSUME NEW j \in rest
      PROVE  /\ j.deleted => pod'[j.pod].phase = "Deleted"
             /\ pod'[j.pod].phase # "Deleted" /\ j.copy.inst # 0 =>
                    <<j.pod, j.copy.inst>> \in cloud'
  <2>1. j \in jobs /\ j.pod \in Pods
    BY <1>0 DEF Jobs
  <2>2. CASE j.pod = p
    BY <2>1, <2>2 DEF JobsBacked
  <2>3. CASE j.pod # p
    BY <2>1, <2>3, <1>3 DEF JobsBacked
  <2>. QED
    BY <2>2, <2>3
<1>6. ASSUME NEW j \in Entered(p, new)
      PROVE  /\ j.deleted => pod'[j.pod].phase = "Deleted"
             /\ pod'[j.pod].phase # "Deleted" /\ j.copy.inst # 0 =>
                    <<j.pod, j.copy.inst>> \in cloud'
  <2>1. j.pod = p /\ j.deleted = FALSE /\ j.copy = new
    BY DEF Entered, Job
  <2>. QED
    BY <2>1, <1>1
<1>7. ASSUME NEW j \in Left(p, new)
      PROVE  /\ j.deleted => pod'[j.pod].phase = "Deleted"
             /\ pod'[j.pod].phase # "Deleted" /\ j.copy.inst # 0 =>
                    <<j.pod, j.copy.inst>> \in cloud'
  <2>1. /\ j.pod = p /\ j.deleted = (new.phase = "Deleted")
        /\ j.copy = [pod[p] EXCEPT !.rv = new.rv]
    BY DEF Left, Job
  <2>2. j.copy.inst = pod[p].inst
    BY <2>1, <1>0 DEF Objects
  <2>. QED
    BY <2>1, <2>2, <1>3 DEF RecordedExists
<1>8. \A j \in jobs' : /\ j.deleted => pod'[j.pod].phase = "Deleted"
                       /\ pod'[j.pod].phase # "Deleted" /\ j.copy.inst # 0 =>
                              <<j.pod, j.copy.inst>> \in cloud'
  BY <1>2, <1>5, <1>6, <1>7
<1>. QED
  BY <1>4, <1>8 DEF JobsBacked

(* The same for a call that may fail, on a pod that exists.                *)
LEMMA CallBacked ==
    ASSUME TypeOK, RecordedExists, JobsBacked,
           NEW possible \in BOOLEAN, NEW p \in Pods, NEW o \in Objects,
           NEW rest \in SUBSET jobs,
           Succeeds(possible, p, o, rest) \/ Fails(possible, p, o, rest),
           possible => pod[p].phase # "Deleted",
           o.inst # 0 => <<p, o.inst>> \in cloud, cloud' = cloud
    PROVE  RecordedExists' /\ JobsBacked'
<1>1. errors \in 0..MaxError
  BY DEF TypeOK
<1>2. (pod' = pod /\ jobs' = rest) \/ (possible /\ Put(p, o, rest))
  BY <1>1, CallOutcomes
<1>3. CASE pod' = pod /\ jobs' = rest
  BY <1>3 DEF RecordedExists, JobsBacked
<1>4. CASE possible /\ Put(p, o, rest)
  BY <1>4, PutBacked
<1>. QED
  BY <1>2, <1>3, <1>4

(* Instances recorded in pods exist, however many distributors, schedulers *)
(* and users write the pods, and whatever fails or restarts.  A Binding    *)
(* and a patch apply to any version; what saves the instances is that only *)
(* a goroutine whose copy has a DeletionTimestamp deletes one, and a       *)
(* deleted pod is never written again.                                     *)
THEOREM InstancesRecordedExist == Spec => []RecordedExists
<1> DEFINE Inv == RecordedExists /\ JobsBacked
<1>1. Init => Inv
  BY DEF Init, RecordedExists, JobsBacked
<1>2. TypeOK /\ Inv /\ [Next]_vars => Inv'
  <2> SUFFICES ASSUME TypeOK, RecordedExists, JobsBacked, [Next]_vars
               PROVE  RecordedExists' /\ JobsBacked'
    OBVIOUS
  <2>0. /\ pod \in [Pods -> Objects] /\ jobs \subseteq Jobs
        /\ jobs \in SUBSET jobs
    BY DEF TypeOK
  <2>s. ASSUME UNCHANGED <<pod, jobs, clouds>>
        PROVE  RecordedExists' /\ JobsBacked'
    BY <2>s DEF clouds, RecordedExists, JobsBacked
  <2>e. ASSUME NEW p \in Pods
        PROVE  /\ Exists(p) \in BOOLEAN
               /\ Exists(p) => pod[p].phase # "Deleted"
               /\ \A r : Current(p, r) \in BOOLEAN
               /\ \A r : Current(p, r) => Exists(p)
    BY DEF Exists, Current
  <2>1. ASSUME NEW p \in Pods, CreatePod(p) \/ DeletePod(p) \/ TouchPod(p)
        PROVE  RecordedExists' /\ JobsBacked'
    <3>1. pod[p].phase # "Deleted"
      BY <2>1, <2>e DEF CreatePod, DeletePod, TouchPod
    <3>2. \E o \in Objects : Put(p, o, jobs) /\ o.inst = pod[p].inst
      <4>1. pod[p] \in Objects
        BY <2>0
      <4>2. /\ [pod[p] EXCEPT !.phase = "Pending"] \in Objects
            /\ [pod[p] EXCEPT !.phase = "Pending"].inst = pod[p].inst
            /\ [pod[p] EXCEPT !.phase = "Deleted"] \in Objects
            /\ [pod[p] EXCEPT !.phase = "Deleted"].inst = pod[p].inst
        BY <4>1 DEF Objects, Phases
      <4>. QED
        BY <2>1, <4>1, <4>2 DEF CreatePod, DeletePod, TouchPod
    <3>3. cloud' = cloud
      BY <2>1 DEF CreatePod, DeletePod, TouchPod, clouds
    <3>4. pod[p].inst # 0 => <<p, pod[p].inst>> \in cloud
      BY <3>1 DEF RecordedExists
    <3>. QED
      BY <2>0, <3>1, <3>2, <3>3, <3>4, PutBacked
  <2>2. ASSUME NEW d \in Distributors, ExecDistributor(d)
        PROVE  RecordedExists' /\ JobsBacked'
    BY <2>2, <2>s DEF ExecDistributor
  <2>3. ASSUME NEW d \in Distributors, NEW p \in Pods, DistributorStep(d, p)
        PROVE  RecordedExists' /\ JobsBacked'
    <3>0. bindings[<<d, p>>] \in [step : {"none", "bind", "fail", "done"},
                                   sched : Schedulers \cup {None}, rv : Nat]
      BY DEF TypeOK
    <3>1. ASSUME NEW s \in Schedulers \cup {None}, ScheduleOne(d, p, s)
          PROVE  RecordedExists' /\ JobsBacked'
      BY <3>1, <2>s DEF ScheduleOne
    <3>2. CASE bindPod(d, p)
      <4> DEFINE o == ToScheduler(p, bindings[<<d, p>>].sched)
      <4>1. o \in Objects /\ o.inst = pod[p].inst
        BY <2>0, <3>0 DEF ToScheduler, Objects, Phases
      <4>2. Succeeds(Exists(p), p, o, jobs) \/ Fails(Exists(p), p, o, jobs)
        BY <3>2 DEF bindPod
      <4>3. cloud' = cloud
        BY <3>2 DEF bindPod, clouds
      <4> HIDE DEF o
      <4>4. CASE Exists(p)
        <5>1. o.inst # 0 => <<p, o.inst>> \in cloud
          BY <2>e, <4>1, <4>4 DEF RecordedExists
        <5>. QED
          BY <2>0, <2>e, <4>1, <4>2, <4>3, <5>1, CallBacked
      <4>5. CASE ~Exists(p)
        BY <4>2, <4>3, <4>5 DEF Succeeds, Fails, RecordedExists, JobsBacked
      <4>. QED
        BY <4>4, <4>5
    <3>3. CASE FailPod(d, p)
      <4> DEFINE o == [phase |-> "Failed", sched |-> None, inst |-> 0,
                       rv |-> bindings[<<d, p>>].rv]
                 possible == Current(p, bindings[<<d, p>>].rv)
      <4>1. o \in Objects /\ o.inst = 0
        BY <3>0 DEF Objects, Phases
      <4>2. Succeeds(possible, p, o, jobs) \/ Fails(possible, p, o, jobs)
        BY <3>3 DEF FailPod
      <4>3. cloud' = cloud
        BY <3>3 DEF FailPod, clouds
      <4>4. possible \in BOOLEAN /\ (possible => pod[p].phase # "Deleted")
        BY <2>e
      <4> HIDE DEF o, possible
      <4>. QED
        BY <2>0, <4>1, <4>2, <4>3, <4>4, CallBacked
    <3>. QED
      BY <2>3, <3>1, <3>2, <3>3 DEF DistributorStep
  <2>4. ASSUME NEW s \in Schedulers, ExitScheduler(s) \/ StartScheduler(s)
        PROVE  RecordedExists' /\ JobsBacked'
    BY <2>4, <2>s DEF ExitScheduler, StartScheduler
  <2>5. ASSUME NEW s \in Schedulers, NEW p \in Pods, Informer(s, p)
        PROVE  RecordedExists' /\ JobsBacked'
    BY <2>5, <2>s DEF Informer, QueuePod, UnqueuePod
  <2>6. ASSUME NEW s \in Schedulers, NEW p \in Pods, PodWorker(s, p)
        PROVE  RecordedExists' /\ JobsBacked'
    <3>1. ASSUME NEW fits \in BOOLEAN, scheduleOne(s, p, fits)
          PROVE  RecordedExists' /\ JobsBacked'
      BY <3>1, <2>s DEF scheduleOne
    <3>n. CASE scheduleNothing(s, p)
      BY <3>n, <2>s DEF scheduleNothing
    <3>2. CASE bindToSite(s, p)
      <4> DEFINE o == [pod[p] EXCEPT !.phase = "Bound"]
      <4>1. o \in Objects /\ o.inst = pod[p].inst
        BY <2>0 DEF Objects, Phases
      <4>2. \/ Succeeds(Exists(p), p, o, jobs) \/ Fails(Exists(p), p, o, jobs)
            \/ UNCHANGED <<pod, jobs>>
        BY <3>2 DEF bindToSite
      <4>3. UNCHANGED clouds /\ cloud' = cloud
        BY <3>2 DEF bindToSite, clouds
      <4> HIDE DEF o
      <4>4. CASE UNCHANGED <<pod, jobs>>
        BY <2>s, <4>3, <4>4
      <4>5. CASE Exists(p) /\ ~UNCHANGED <<pod, jobs>>
        <5>1. o.inst # 0 => <<p, o.inst>> \in cloud
          BY <2>e, <4>1, <4>5 DEF RecordedExists
        <5>. QED
          BY <2>0, <2>e, <4>1, <4>2, <4>3, <4>5, <5>1, CallBacked
      <4>6. CASE ~Exists(p) /\ ~UNCHANGED <<pod, jobs>>
        BY <4>2, <4>6 DEF Succeeds, Fails
      <4>. QED
        BY <4>4, <4>5, <4>6
    <3>3. CASE getPod(s, p)
      BY <3>3, <2>s DEF getPod
    <3>4. CASE PatchPodStatus(s, p)
      <4> DEFINE o == Patched(p, hand[s].fields)
                 writes == Exists(p) /\ o # pod[p]
      <4>1. o \in Objects /\ o.inst \in {pod[p].inst, 0}
        BY <2>0 DEF Patched, Objects, Phases
      <4>2. Succeeds(writes, p, o, jobs) \/ Fails(writes, p, o, jobs)
        BY <3>4 DEF PatchPodStatus
      <4>3. UNCHANGED clouds /\ cloud' = cloud
        BY <3>4 DEF PatchPodStatus, clouds
      <4>4. writes \in BOOLEAN /\ (writes => Exists(p))
        BY <2>e
      <4> HIDE DEF o, writes
      <4>5. CASE writes
        <5>1. o.inst # 0 => <<p, o.inst>> \in cloud
          BY <2>e, <4>1, <4>4, <4>5 DEF RecordedExists
        <5>. QED
          BY <2>0, <2>e, <4>1, <4>2, <4>3, <4>4, <5>1, CallBacked
      <4>6. CASE ~writes
        <5>1. UNCHANGED <<pod, jobs>>
          BY <4>2, <4>6 DEF Succeeds, Fails
        <5>. QED
          BY <2>s, <4>3, <5>1
      <4>. QED
        BY <4>5, <4>6
    <3>. QED
      BY <2>6, <3>1, <3>n, <3>2, <3>3, <3>4 DEF PodWorker
  <2>7. CASE ExecDispatcher \/ StartDispatcher
    <3>0. ListBound
      BY <2>7 DEF ExecDispatcher, StartDispatcher
    <3>1. pod' = pod /\ cloud' = cloud
      BY <3>0 DEF ListBound, clouds
    <3>2. ASSUME NEW j \in jobs'
          PROVE  j.deleted = FALSE /\ j.pod \in Pods /\ j.copy = pod[j.pod]
      BY <3>0, <3>2 DEF ListBound, Job
    <3>. QED
      BY <3>1, <3>2 DEF RecordedExists, JobsBacked
  <2>x. CASE ExitDispatcher
    BY <2>x DEF ExitDispatcher, clouds, RecordedExists, JobsBacked
  <2>8. ASSUME NEW j \in jobs, DispatcherStep(j)
        PROVE  RecordedExists' /\ JobsBacked'
    <3>0. /\ j \in Jobs /\ j.pod \in Pods /\ j.copy \in Objects
          /\ j.deleted \in BOOLEAN /\ jobs \ {j} \in SUBSET jobs
      BY <2>0 DEF Jobs
    <3>1. CASE SendFails(j)
      BY <3>1 DEF SendFails, clouds, RecordedExists, JobsBacked
    <3>t. ASSUME NEW f, NEW k, ~j.deleted, pod' = pod, cloud \subseteq cloud',
                 jobs' = ToReport(j, f, k),
                 pod[j.pod].phase # "Deleted" /\ k # 0 => <<j.pod, k>> \in cloud'
          PROVE  RecordedExists' /\ JobsBacked'
      <4> DEFINE n == [j EXCEPT !.step = "report", !.copy.phase = f, !.copy.inst = k]
      <4>1. n.pod = j.pod /\ n.deleted = j.deleted /\ n.copy.inst = k
        BY <3>0 DEF Jobs, Objects
      <4>2. jobs' \subseteq jobs \cup {n}
        BY <3>t DEF ToReport
      <4> HIDE DEF n
      <4>. QED
        BY <3>t, <4>1, <4>2 DEF RecordedExists, JobsBacked
    <3>2. CASE CreateServer(j)
      BY <3>2, <3>t DEF CreateServer
    <3>3. CASE CreateServerFails(j)
      <4>1. pod' = pod /\ cloud \subseteq cloud' /\ ~j.deleted
            /\ jobs' = ToReport(j, "Failed", j.copy.inst)
        BY <3>3 DEF CreateServerFails, clouds
      <4>2. pod[j.pod].phase # "Deleted" /\ j.copy.inst # 0 =>
                <<j.pod, j.copy.inst>> \in cloud'
        BY <4>1 DEF JobsBacked
      <4>. QED
        BY <3>t, <4>1, <4>2
    <3>4. CASE ReportPod(j)
      <4> DEFINE possible == Current(j.pod, j.copy.rv)
      <4>1. possible \in BOOLEAN /\ (possible => pod[j.pod].phase # "Deleted")
        BY <2>e, <3>0
      <4>2. \/ Succeeds(possible, j.pod, j.copy, jobs \ {j})
            \/ Fails(possible, j.pod, j.copy, jobs \ {j})
        BY <3>4 DEF ReportPod
      <4>3. UNCHANGED clouds /\ cloud' = cloud
        BY <3>4 DEF ReportPod, clouds
      <4> HIDE DEF possible
      <4>4. CASE possible
        <5>1. j.copy.inst # 0 => <<j.pod, j.copy.inst>> \in cloud
          BY <4>1, <4>4 DEF JobsBacked
        <5>. QED
          BY <3>0, <4>1, <4>2, <4>3, <5>1, CallBacked
      <4>5. CASE ~possible
        <5>1. pod' = pod /\ jobs' = jobs \ {j}
          BY <4>2, <4>5 DEF Succeeds, Fails
        <5>. QED
          BY <4>3, <5>1 DEF RecordedExists, JobsBacked
      <4>. QED
        BY <4>4, <4>5
    <3>5. CASE DeleteInstance(j)
      <4>1. /\ pod[j.pod].phase = "Deleted" /\ pod' = pod
            /\ jobs' \subseteq jobs
            /\ \A q \in Pods : \A k : q # j.pod /\ <<q, k>> \in cloud => <<q, k>> \in cloud'
        BY <3>5 DEF DeleteInstance, JobsBacked
      <4>2. \A i \in jobs : i.pod \in Pods
        BY <2>0 DEF Jobs
      <4>. QED
        BY <4>1, <4>2 DEF RecordedExists, JobsBacked
    <3>. QED
      BY <2>8, <3>1, <3>2, <3>3, <3>4, <3>5 DEF DispatcherStep
  <2>9. CASE UNCHANGED vars
    BY <2>9, <2>s DEF vars
  <2>. QED
    BY <2>1, <2>2, <2>3, <2>4, <2>5, <2>6, <2>7, <2>x, <2>8, <2>9 DEF Next
<1>3. Inv => RecordedExists
  OBVIOUS
<1>. QED
  BY <1>1, <1>2, <1>3, PodTypeCorrect, PTL DEF Spec

-----------------------------------------------------------------------------
(* One distributor, and no user changes a pod.  Then a pod is in one pair  *)
(* of hands at a time although Bindings and patches apply to any version:  *)
(* the distributor's while it is Pending, its scheduler's while it is      *)
(* Assigned, one goroutine's of the dispatcher while it is Bound.          *)
OneDistributor == \A d, e \in Distributors : d = e

(* A distributor that will bind a pod finds it Pending; one that will      *)
(* report a failure is refused unless it is Pending still.                 *)
DistributorHolds(t) ==
    LET b == bindings[t]
        o == pod[t[2]]
    IN  /\ b.step = "bind" => o.phase \in {"Pending", "Deleted"}
        /\ b.step \in {"bind", "fail"} =>
               b.rv <= o.rv /\ (b.rv = o.rv => o.phase \in {"Pending", "Deleted"})

(* A pod that a scheduler has queued or popped is assigned to it, in the   *)
(* version that was reported: no other has it, and it is not queued again. *)
SchedulerHolds(s, p) ==
    p \in queue[s] \/ hand[s].pod = p =>
        /\ pod[p].phase \in {"Assigned", "Deleted"}
        /\ pod[p].phase = "Assigned" =>
               /\ pod[p].sched = s /\ known[s][p] = pod[p].rv
               /\ hand[s].pod = p /\ hand[s].step = "patch" => hand[s].fields.phase
        /\ ~(p \in queue[s] /\ hand[s].pod = p)

(* A goroutine that creates or reports a VM works for a Bound pod, and its *)
(* copy is current; one that deletes a VM works for a deleted pod.         *)
JobHolds(j) ==
    LET o == pod[j.pod]
    IN  \/ /\ j.deleted /\ j.step = "send" /\ o.phase = "Deleted"
        \/ /\ ~j.deleted /\ o.phase \in {"Bound", "Deleted"} /\ o.inst = 0
           /\ o.phase = "Bound" => j.copy.rv = o.rv
           /\ \/ /\ j.step = "send" /\ j.copy.inst = 0
                 /\ created[j.pod] <= restarts
              \/ /\ j.step = "report"
                 /\ \/ j.copy.phase = "Scheduled" /\ j.copy.inst # 0
                    \/ j.copy.phase = "Failed" /\ j.copy.inst = 0

OneJob == \A i, j \in jobs : i.pod = j.pod => i = j

(* What a pod records, and how many VMs were created for it.               *)
PodHolds(p) ==
    /\ pod[p].phase \in {"Absent", "Pending", "Assigned", "Bound"} => pod[p].inst = 0
    /\ pod[p].phase \in {"Absent", "Pending", "Assigned"} => created[p] = 0
    /\ pod[p].phase = "Scheduled" => pod[p].inst # 0
    /\ created[p] <= 1 + restarts
    /\ \A v \in cloud : v[1] = p => 0 < v[2] /\ v[2] <= created[p]

OnePairOfHands ==
    /\ \A t \in Distributors \X Pods : DistributorHolds(t)
    /\ \A s \in Schedulers, p \in Pods : SchedulerHolds(s, p)
    /\ \A j \in jobs : JobHolds(j)
    /\ OneJob
    /\ \A p \in Pods : PodHolds(p)

HandsInv == touches = 0 => OnePairOfHands

(* Pod p becomes one with phase f, and the others stay as they are.        *)
Became(p, f) ==
    /\ pod'[p].phase = f /\ pod'[p].rv = pod[p].rv + 1
    /\ \A q \in Pods : q # p => pod'[q] = pod[q]

(* The copy in the event of a pod that leaves the phase Scheduled.         *)
LastSeen(p) == [pod[p] EXCEPT !.rv = pod[p].rv + 1]

(* What a write makes of the pods, and which goroutines it starts while a  *)
(* dispatcher runs.                                                        *)
LEMMA PutEffect ==
    ASSUME TypeOK, NEW p \in Pods, NEW o \in Objects, NEW rest, Put(p, o, rest)
    PROVE  /\ Became(p, o.phase)
           /\ pod'[p].inst = o.inst /\ pod'[p].sched = o.sched
           /\ pod[p].phase # "Scheduled" /\ o.phase # "Bound" => jobs' = rest
           /\ serving /\ pod[p].phase \notin {"Scheduled", "Bound"} /\ o.phase = "Bound" =>
                  jobs' = rest \cup {Job(p, FALSE, pod'[p])}
           /\ serving /\ pod[p].phase = "Scheduled" /\ o.phase = "Deleted" =>
                  jobs' = rest \cup {Job(p, TRUE, LastSeen(p))}
           /\ ~serving => jobs' = rest
<1> DEFINE new == [o EXCEPT !.rv = pod[p].rv + 1]
<1>0. pod \in [Pods -> Objects]
  BY DEF TypeOK
<1>1. pod[p].rv + 1 \in Nat
  BY <1>0 DEF Objects
<1>2. /\ new.phase = o.phase /\ new.inst = o.inst /\ new.sched = o.sched
      /\ new.rv = pod[p].rv + 1 /\ new.rv \in Nat
  BY <1>1 DEF Objects
<1>3. /\ pod' = [pod EXCEPT ![p] = new]
      /\ jobs' = rest \cup Entered(p, new) \cup Left(p, new)
  BY DEF Put
<1> HIDE DEF new
<1>4. pod'[p] = new /\ \A q \in Pods : q # p => pod'[q] = pod[q]
  BY <1>0, <1>3
<1>5. ASSUME pod[p].phase # "Scheduled"
      PROVE  Left(p, new) = {}
  BY <1>5 DEF Left
<1>6. ASSUME o.phase # "Bound"
      PROVE  Entered(p, new) = {}
  BY <1>2, <1>6 DEF Entered
<1>7. ASSUME serving, pod[p].phase # "Bound", o.phase = "Bound"
      PROVE  Entered(p, new) = {Job(p, FALSE, new)}
  BY <1>2, <1>7 DEF Entered
<1>8. ASSUME serving, pod[p].phase = "Scheduled", o.phase = "Deleted"
      PROVE  Left(p, new) = {Job(p, TRUE, LastSeen(p))}
  BY <1>2, <1>8 DEF Left, LastSeen
<1>9. ASSUME ~serving
      PROVE  Entered(p, new) = {} /\ Left(p, new) = {}
  BY <1>9 DEF Entered, Left
<1>. QED
  BY <1>2, <1>3, <1>4, <1>5, <1>6, <1>7, <1>8, <1>9 DEF Became

(* A call that may fail writes the pod or leaves it; it leaves it only if  *)
(* it is not possible or an error is counted.                              *)
LEMMA CallEffect ==
    ASSUME TypeOK, NEW possible, NEW p, NEW o, NEW rest,
           Succeeds(possible, p, o, rest) \/ Fails(possible, p, o, rest)
    PROVE  /\ \/ pod' = pod /\ jobs' = rest /\ (possible => errors' # 0)
              \/ possible /\ Put(p, o, rest)
           /\ errors' \in {errors, errors + 1}
<1>1. errors \in Nat
  BY ConstantsAssumption DEF TypeOK
<1>. QED
  BY <1>1 DEF Succeeds, Fails, Fault

(* What the writers find and leave, one lemma per writer.                  *)
LEMMA DeleteWrites ==
    ASSUME TypeOK, NEW p \in Pods, DeletePod(p)
    PROVE  /\ Exists(p) /\ Became(p, "Deleted") /\ pod'[p].inst = pod[p].inst
           /\ ~serving \/ pod[p].phase # "Scheduled" => jobs' = jobs
           /\ serving /\ pod[p].phase = "Scheduled" =>
                  jobs' = jobs \cup {Job(p, TRUE, LastSeen(p))}
<1> DEFINE o == [pod[p] EXCEPT !.phase = "Deleted"]
<1>1. o \in Objects /\ o.phase = "Deleted" /\ o.inst = pod[p].inst
  BY DEF TypeOK, Objects, Phases
<1>2. Put(p, o, jobs) /\ Exists(p)
  BY DEF DeletePod
<1> HIDE DEF o
<1>. QED
  BY <1>1, <1>2, PutEffect

LEMMA CreateWrites ==
    ASSUME TypeOK, NEW p \in Pods, CreatePod(p)
    PROVE  /\ pod[p].phase = "Absent" /\ Became(p, "Pending")
           /\ pod'[p].inst = pod[p].inst /\ jobs' = jobs
<1> DEFINE o == [pod[p] EXCEPT !.phase = "Pending"]
<1>1. o \in Objects /\ o.phase = "Pending" /\ o.inst = pod[p].inst
  BY DEF TypeOK, Objects, Phases
<1>2. Put(p, o, jobs) /\ pod[p].phase = "Absent"
  BY DEF CreatePod
<1> HIDE DEF o
<1>. QED
  BY <1>1, <1>2, PutEffect

LEMMA BindingTyped ==
    ASSUME TypeOK, NEW d \in Distributors, NEW p \in Pods
    PROVE  /\ bindings[<<d, p>>].sched \in Schedulers \cup {None}
           /\ bindings[<<d, p>>].rv \in Nat /\ <<d, p>> \in Distributors \X Pods
  BY DEF TypeOK

LEMMA BindWrites ==
    ASSUME TypeOK, OnePairOfHands, NEW d \in Distributors, NEW p \in Pods,
           bindPod(d, p)
    PROVE  /\ pod[p].phase \in {"Pending", "Deleted"} /\ jobs' = jobs
           /\ \/ pod' = pod
              \/ /\ pod[p].phase = "Pending" /\ Became(p, "Assigned")
                 /\ pod'[p].inst = pod[p].inst
<1> DEFINE o == ToScheduler(p, bindings[<<d, p>>].sched)
<1>0. pod[p] \in Objects /\ bindings[<<d, p>>].sched \in Schedulers \cup {None}
  BY BindingTyped DEF TypeOK
<1>1. o \in Objects /\ o.phase = "Assigned" /\ o.inst = pod[p].inst
  BY <1>0 DEF ToScheduler, Objects, Phases
<1>2. Succeeds(Exists(p), p, o, jobs) \/ Fails(Exists(p), p, o, jobs)
  BY DEF bindPod
<1>3. pod[p].phase \in {"Pending", "Deleted"}
  BY BindingTyped DEF bindPod, OnePairOfHands, DistributorHolds
<1> HIDE DEF o
<1>4. (pod' = pod /\ jobs' = jobs) \/ (Exists(p) /\ Put(p, o, jobs))
  BY <1>2, CallEffect
<1>. QED
  BY <1>1, <1>3, <1>4, PutEffect DEF Exists

LEMMA FailWrites ==
    ASSUME TypeOK, OnePairOfHands, NEW d \in Distributors, NEW p \in Pods,
           FailPod(d, p)
    PROVE  /\ jobs' = jobs
           /\ \/ pod' = pod
              \/ pod[p].phase = "Pending" /\ Became(p, "Failed")
<1> DEFINE r == bindings[<<d, p>>].rv
           o == [phase |-> "Failed", sched |-> None, inst |-> 0, rv |-> r]
<1>1. o \in Objects /\ o.phase = "Failed"
  BY BindingTyped DEF Objects, Phases
<1>2. Succeeds(Current(p, r), p, o, jobs) \/ Fails(Current(p, r), p, o, jobs)
  BY DEF FailPod
<1>3. Current(p, r) => pod[p].phase = "Pending"
  BY BindingTyped DEF FailPod, OnePairOfHands, DistributorHolds, Current, Exists
<1> HIDE DEF o, r
<1>4. (pod' = pod /\ jobs' = jobs) \/ (Current(p, r) /\ Put(p, o, jobs))
  BY <1>2, CallEffect
<1>. QED
  BY <1>1, <1>3, <1>4, PutEffect

LEMMA SiteWrites ==
    ASSUME TypeOK, OnePairOfHands, NEW s \in Schedulers, NEW p \in Pods,
           bindToSite(s, p)
    PROVE  \/ UNCHANGED <<pod, jobs>>
           \/ /\ pod[p].phase = "Assigned" /\ Became(p, "Bound")
              /\ pod'[p].inst = pod[p].inst
              /\ jobs' = jobs \/ jobs' = jobs \cup {Job(p, FALSE, pod'[p])}
<1> DEFINE o == [pod[p] EXCEPT !.phase = "Bound"]
<1>1. o \in Objects /\ o.phase = "Bound" /\ o.inst = pod[p].inst
  BY DEF TypeOK, Objects, Phases
<1>2. \/ Succeeds(Exists(p), p, o, jobs) \/ Fails(Exists(p), p, o, jobs)
      \/ UNCHANGED <<pod, jobs>>
  BY DEF bindToSite
<1>3. pod[p].phase \in {"Assigned", "Deleted"}
  BY DEF bindToSite, OnePairOfHands, SchedulerHolds
<1> HIDE DEF o
<1>4. UNCHANGED <<pod, jobs>> \/ (Exists(p) /\ Put(p, o, jobs))
  BY <1>2, CallEffect
<1>. QED
  BY <1>1, <1>3, <1>4, PutEffect DEF Exists

LEMMA PatchWrites ==
    ASSUME TypeOK, OnePairOfHands, NEW s \in Schedulers, NEW p \in Pods,
           PatchPodStatus(s, p)
    PROVE  /\ jobs' = jobs
           /\ \/ pod' = pod
              \/ pod[p].phase = "Assigned" /\ Became(p, "NoSchedule")
<1> DEFINE o == Patched(p, hand[s].fields)
           writes == Exists(p) /\ o # pod[p]
<1>0. pod[p] \in Objects
  BY DEF TypeOK
<1>1. o \in Objects /\ (hand[s].fields.phase => o.phase = "NoSchedule")
  BY <1>0 DEF Patched, Objects, Phases
<1>2. Succeeds(writes, p, o, jobs) \/ Fails(writes, p, o, jobs)
  BY DEF PatchPodStatus
<1>3. /\ pod[p].phase \in {"Assigned", "Deleted"}
      /\ pod[p].phase = "Assigned" => hand[s].fields.phase
  BY DEF PatchPodStatus, OnePairOfHands, SchedulerHolds
<1>4. writes => Exists(p)
  OBVIOUS
<1> HIDE DEF o, writes
<1>5. (pod' = pod /\ jobs' = jobs) \/ (writes /\ Put(p, o, jobs))
  BY <1>2, CallEffect
<1>. QED
  BY <1>1, <1>3, <1>4, <1>5, PutEffect DEF Exists

LEMMA ReportWrites ==
    ASSUME TypeOK, OnePairOfHands, NEW j \in jobs, ReportPod(j)
    PROVE  /\ j.pod \in Pods /\ ~j.deleted /\ j.step = "report"
           /\ jobs' = jobs \ {j}
           /\ \/ pod' = pod /\ (pod[j.pod].phase = "Bound" => errors' # 0)
              \/ /\ pod[j.pod].phase = "Bound" /\ Became(j.pod, j.copy.phase)
                 /\ pod'[j.pod].inst = j.copy.inst
                 /\ \/ j.copy.phase = "Scheduled" /\ j.copy.inst # 0
                    \/ j.copy.phase = "Failed" /\ j.copy.inst = 0
<1>1. j \in Jobs /\ j.pod \in Pods /\ j.copy \in Objects /\ j.step = "report"
  BY DEF TypeOK, Jobs, ReportPod
<1>2. /\ ~j.deleted /\ pod[j.pod].phase \in {"Bound", "Deleted"}
      /\ pod[j.pod].phase = "Bound" => j.copy.rv = pod[j.pod].rv
      /\ \/ j.copy.phase = "Scheduled" /\ j.copy.inst # 0
         \/ j.copy.phase = "Failed" /\ j.copy.inst = 0
  BY <1>1 DEF OnePairOfHands, JobHolds
<1> DEFINE possible == Current(j.pod, j.copy.rv)
<1>3. possible <=> pod[j.pod].phase = "Bound"
  BY <1>2 DEF Current, Exists
<1>4. \/ Succeeds(possible, j.pod, j.copy, jobs \ {j})
      \/ Fails(possible, j.pod, j.copy, jobs \ {j})
  BY DEF ReportPod
<1> HIDE DEF possible
<1>5. \/ pod' = pod /\ jobs' = jobs \ {j} /\ (possible => errors' # 0)
      \/ possible /\ Put(j.pod, j.copy, jobs \ {j})
  BY <1>4, CallEffect
<1>6. CASE pod' = pod /\ jobs' = jobs \ {j} /\ (possible => errors' # 0)
  BY <1>1, <1>2, <1>3, <1>6
<1>7. CASE possible /\ Put(j.pod, j.copy, jobs \ {j})
  <2>1. /\ Became(j.pod, j.copy.phase) /\ pod'[j.pod].inst = j.copy.inst
        /\ jobs' = jobs \ {j}
    BY <1>1, <1>2, <1>3, <1>7, PutEffect
  <2>. QED
    BY <1>1, <1>2, <1>3, <1>7, <2>1
<1>. QED
  BY <1>5, <1>6, <1>7

(* When the distributors keep what they hold.                              *)
LEMMA DistributorsKeep ==
    ASSUME TypeOK, \A t \in Distributors \X Pods : DistributorHolds(t),
           \A t \in Distributors \X Pods : bindings'[t].step \in {"bind", "fail"} =>
               /\ bindings[t].step \in {"bind", "fail"}
               /\ bindings'[t].rv = bindings[t].rv
               /\ \/ pod'[t[2]] = pod[t[2]]
                  \/ pod'[t[2]].rv = pod[t[2]].rv + 1,
           \A t \in Distributors \X Pods : bindings'[t].step = "bind" =>
               /\ bindings[t].step = "bind"
               /\ \/ pod'[t[2]] = pod[t[2]]
                  \/ pod'[t[2]].phase = "Deleted"
                  \/ pod[t[2]].phase \notin {"Pending", "Deleted"}
    PROVE  \A t \in Distributors \X Pods : DistributorHolds(t)'
<1> SUFFICES ASSUME NEW t \in Distributors \X Pods PROVE DistributorHolds(t)'
  OBVIOUS
<1>1. bindings[t].rv \in Nat /\ pod[t[2]].rv \in Nat
  BY DEF TypeOK, Objects
<1>. QED
  BY <1>1 DEF DistributorHolds

(* A pod that nobody but its scheduler may write keeps its place.          *)
LEMMA SchedulersKeep ==
    ASSUME \A s \in Schedulers, p \in Pods : SchedulerHolds(s, p),
           UNCHANGED schedulers,
           \A p \in Pods : \/ pod'[p] = pod[p]
                           \/ pod'[p].phase = "Deleted"
                           \/ pod[p].phase \notin {"Assigned", "Deleted"}
    PROVE  \A s \in Schedulers, p \in Pods : SchedulerHolds(s, p)'
<1> SUFFICES ASSUME NEW s \in Schedulers, NEW p \in Pods PROVE SchedulerHolds(s, p)'
  OBVIOUS
<1>. QED
  BY DEF SchedulerHolds, schedulers

(* Goroutines that go on, or end, while nobody else writes a Bound pod.    *)
LEMMA JobsKeep ==
    ASSUME TypeOK, \A j \in jobs : JobHolds(j), OneJob, jobs' \subseteq jobs,
           UNCHANGED <<created, restarts>>,
           \A p \in Pods : \/ pod'[p] = pod[p]
                           \/ pod'[p].phase = "Deleted" /\ pod'[p].inst = pod[p].inst
                           \/ \A j \in jobs' : j.pod # p
    PROVE  (\A j \in jobs' : JobHolds(j)') /\ OneJob'
<1>1. ASSUME NEW j \in jobs' PROVE JobHolds(j)'
  <2>1. j \in jobs /\ j.pod \in Pods
    BY DEF TypeOK, Jobs
  <2>. QED
    BY <2>1 DEF JobHolds
<1>2. OneJob'
  BY DEF OneJob
<1>. QED
  BY <1>1, <1>2

LEMMA PodsKeep ==
    ASSUME \A p \in Pods : PodHolds(p), UNCHANGED <<created, restarts>>,
           cloud' \subseteq cloud,
           \A p \in Pods :
               \/ pod'[p] = pod[p]
               \/ pod'[p].phase \in {"NoSchedule", "Failed", "Deleted"}
               \/ pod'[p].phase = "Scheduled" /\ pod'[p].inst # 0
               \/ /\ pod[p].phase \in {"Absent", "Pending", "Assigned"}
                  /\ pod'[p].phase \in {"Pending", "Assigned", "Bound"}
                  /\ pod'[p].inst = pod[p].inst
    PROVE  \A p \in Pods : PodHolds(p)'
<1> SUFFICES ASSUME NEW p \in Pods PROVE PodHolds(p)'
  OBVIOUS
<1>. QED
  BY DEF PodHolds

(* One pair of hands: the steps of users and distributors.                 *)
LEMMA UsersHandOn ==
    ASSUME TypeOK, OnePairOfHands, NEW p \in Pods, CreatePod(p) \/ DeletePod(p)
    PROVE  OnePairOfHands'
<1>0. UNCHANGED <<bindings, schedulers, cloud, created, restarts>>
  BY DEF CreatePod, DeletePod, clouds, bounds
<1>1. \/ pod[p].phase = "Absent" /\ Became(p, "Pending")
      \/ Became(p, "Deleted")
  BY CreateWrites, DeleteWrites
<1>2. pod'[p].inst = pod[p].inst
  BY CreateWrites, DeleteWrites
<1>3. \A t \in Distributors \X Pods : DistributorHolds(t)'
  BY <1>0, <1>1, DistributorsKeep DEF OnePairOfHands, Became
<1>4. \A s \in Schedulers, q \in Pods : SchedulerHolds(s, q)'
  BY <1>0, <1>1, SchedulersKeep DEF OnePairOfHands, Became
<1>5. \A q \in Pods : PodHolds(q)'
  BY <1>0, <1>1, <1>2, PodsKeep DEF OnePairOfHands, Became
<1>6. ASSUME jobs' = jobs
      PROVE  (\A j \in jobs' : JobHolds(j)') /\ OneJob'
  <2>1. pod[p].phase = "Absent" => \A j \in jobs : j.pod # p
    BY DEF OnePairOfHands, JobHolds
  <2>. QED
    BY <1>0, <1>1, <1>2, <1>6, <2>1, JobsKeep DEF OnePairOfHands, Became
<1>7. ASSUME DeletePod(p), serving, pod[p].phase = "Scheduled"
      PROVE  (\A j \in jobs' : JobHolds(j)') /\ OneJob'
  <2>0. PICK n : n = Job(p, TRUE, LastSeen(p))
    OBVIOUS
  <2>1. jobs' = jobs \cup {n} /\ Became(p, "Deleted")
    BY <1>7, <2>0, DeleteWrites
  <2>2. n.pod = p /\ n.deleted = TRUE /\ n.step = "send"
    BY <2>0 DEF Job
  <2>3. \A j \in jobs : j.pod # p /\ j.pod \in Pods
    BY <1>7 DEF OnePairOfHands, JobHolds, TypeOK, Jobs
  <2>4. ASSUME NEW j \in jobs PROVE JobHolds(j)'
    BY <1>0, <2>1, <2>3 DEF OnePairOfHands, JobHolds, Became
  <2>5. JobHolds(n)'
    BY <2>1, <2>2 DEF JobHolds, Became
  <2>. QED
    BY <2>1, <2>2, <2>3, <2>4, <2>5 DEF OnePairOfHands, OneJob
<1>8. jobs' = jobs \/ (DeletePod(p) /\ serving /\ pod[p].phase = "Scheduled")
  BY CreateWrites, DeleteWrites
<1>. QED
  BY <1>3, <1>4, <1>5, <1>6, <1>7, <1>8 DEF OnePairOfHands

LEMMA DistributorsHandOn ==
    ASSUME TypeOK, OneDistributor, OnePairOfHands,
           NEW d \in Distributors, NEW p \in Pods, DistributorStep(d, p)
    PROVE  OnePairOfHands'
<1> DEFINE h == <<d, p>>
<1>a. UNCHANGED <<schedulers, cloud, created, restarts>>
  BY DEF DistributorStep, ScheduleOne, bindPod, FailPod, clouds, bounds
<1>b. /\ h \in Distributors \X Pods /\ h[2] = p
      /\ \A t \in Distributors \X Pods : t[2] \in Pods /\ (t # h => t[2] # p)
  BY DEF OneDistributor
<1>c. bindings \in [Distributors \X Pods ->
          [step : {"none", "bind", "fail", "done"},
           sched : Schedulers \cup {None}, rv : Nat]]
  BY DEF TypeOK
<1>0. /\ UNCHANGED <<schedulers, cloud, created, restarts>>
      /\ bindings \in [Distributors \X Pods ->
             [step : {"none", "bind", "fail", "done"},
              sched : Schedulers \cup {None}, rv : Nat]]
      /\ h \in Distributors \X Pods /\ h[2] = p
      /\ \A t \in Distributors \X Pods : t[2] \in Pods /\ (t # h => t[2] # p)
  BY <1>a, <1>b, <1>c
<1>1. \/ pod' = pod
      \/ /\ pod[p].phase = "Pending"
         /\ \/ Became(p, "Assigned") /\ pod'[p].inst = pod[p].inst
            \/ Became(p, "Failed")
  BY BindWrites, FailWrites DEF DistributorStep, ScheduleOne
<1>2. jobs' = jobs
  BY BindWrites, FailWrites DEF DistributorStep, ScheduleOne
<1>3. \A s \in Schedulers, q \in Pods : SchedulerHolds(s, q)'
  BY <1>0, <1>1, SchedulersKeep DEF OnePairOfHands, Became
<1>4. \A q \in Pods : PodHolds(q)'
  BY <1>0, <1>1, PodsKeep DEF OnePairOfHands, Became
<1>5. (\A j \in jobs' : JobHolds(j)') /\ OneJob'
  <2>1. pod[p].phase = "Pending" => \A j \in jobs : j.pod # p
    BY DEF OnePairOfHands, JobHolds
  <2>. QED
    BY <1>0, <1>1, <1>2, <2>1, JobsKeep DEF OnePairOfHands, Became
<1>6. \A t \in Distributors \X Pods : DistributorHolds(t)'
  <2>0. ASSUME NEW t \in Distributors \X Pods, t # h, bindings'[t] = bindings[t]
        PROVE  DistributorHolds(t)'
    <3>1. pod'[t[2]] = pod[t[2]]
      BY <1>0, <1>1, <2>0 DEF Became
    <3>. QED
      BY <2>0, <3>1 DEF OnePairOfHands, DistributorHolds
  <2>1. ASSUME NEW s \in Schedulers \cup {None}, ScheduleOne(d, p, s)
        PROVE  DistributorHolds(h)'
    <3>1. /\ bindings'[h].rv = pod[p].rv /\ pod' = pod /\ pod[p].phase = "Pending"
          /\ pod[p].rv \in Nat
      BY <1>0, <2>1 DEF ScheduleOne, TypeOK, Objects
    <3> HIDE DEF h
    <3>. QED
      BY <1>0, <3>1 DEF DistributorHolds
  <2>2. ASSUME bindPod(d, p) \/ FailPod(d, p)
        PROVE  DistributorHolds(h)'
    <3>1. /\ bindings'[h].rv = bindings[h].rv /\ bindings'[h].step # "bind"
          /\ bindings[h].step \in {"bind", "fail"}
          /\ bindings[h].rv \in Nat /\ pod[p].rv \in Nat
      BY <1>0, <2>2 DEF bindPod, FailPod, TypeOK, Objects
    <3>2. pod' = pod \/ pod'[p].rv = pod[p].rv + 1
      BY <1>1 DEF Became
    <3> HIDE DEF h
    <3>. QED
      BY <1>0, <3>1, <3>2 DEF OnePairOfHands, DistributorHolds
  <2>3. \A t \in Distributors \X Pods : t # h => bindings'[t] = bindings[t]
    BY <1>0 DEF DistributorStep, ScheduleOne, bindPod, FailPod
  <2>. QED
    BY <2>0, <2>1, <2>2, <2>3 DEF DistributorStep
<1>. QED
  BY <1>3, <1>4, <1>5, <1>6 DEF OnePairOfHands

(* The steps of the schedulers.                                            *)
LEMMA SchedulersHandOn ==
    ASSUME TypeOK, OnePairOfHands, NEW s \in Schedulers, NEW p \in Pods,
           Informer(s, p) \/ PodWorker(s, p)
    PROVE  OnePairOfHands'
<1>0. /\ UNCHANGED <<bindings, cloud, created, restarts>>
      /\ known \in [Schedulers -> [Pods -> Nat]] /\ None \notin Pods
      /\ queue \in [Schedulers -> SUBSET Pods] /\ hand \in [Schedulers -> Hands]
  BY ConstantsAssumption DEF Informer, QueuePod, UnqueuePod, PodWorker, scheduleOne,
     scheduleNothing, bindToSite, getPod, PatchPodStatus, clouds, bounds, TypeOK
<1>1. \/ UNCHANGED <<pod, jobs>>
      \/ /\ pod[p].phase = "Assigned" /\ Became(p, "Bound")
         /\ pod'[p].inst = pod[p].inst
         /\ jobs' = jobs \/ jobs' = jobs \cup {Job(p, FALSE, pod'[p])}
      \/ pod[p].phase = "Assigned" /\ Became(p, "NoSchedule") /\ jobs' = jobs
  BY SiteWrites, PatchWrites DEF Informer, QueuePod, UnqueuePod, PodWorker,
     scheduleOne, scheduleNothing, getPod
<1>2. \A t \in Distributors \X Pods : DistributorHolds(t)'
  BY <1>0, <1>1, DistributorsKeep DEF OnePairOfHands, Became
<1>3. \A q \in Pods : PodHolds(q)'
  BY <1>0, <1>1, PodsKeep DEF OnePairOfHands, Became
<1>4. pod[p].phase = "Assigned" => \A j \in jobs : j.pod # p
  BY DEF OnePairOfHands, JobHolds
<1>5. ASSUME jobs' = jobs
      PROVE  (\A j \in jobs' : JobHolds(j)') /\ OneJob'
  BY <1>0, <1>1, <1>4, <1>5, JobsKeep DEF OnePairOfHands, Became
<1>6. ASSUME pod[p].phase = "Assigned", Became(p, "Bound"), pod'[p].inst = pod[p].inst,
             jobs' = jobs \cup {Job(p, FALSE, pod'[p])}
      PROVE  (\A j \in jobs' : JobHolds(j)') /\ OneJob'
  <2>0. PICK n : n = Job(p, FALSE, pod'[p])
    OBVIOUS
  <2>1. /\ n.pod = p /\ n.deleted = FALSE /\ n.step = "send" /\ n.copy = pod'[p]
        /\ jobs' = jobs \cup {n}
    BY <1>6, <2>0 DEF Job
  <2>2. /\ pod[p].inst = 0 /\ created[p] = 0 /\ restarts \in Nat
        /\ \A j \in jobs : j.pod # p /\ j.pod \in Pods
    BY <1>4, <1>6, ConstantsAssumption DEF OnePairOfHands, PodHolds, TypeOK, Jobs
  <2>3. ASSUME NEW j \in jobs PROVE JobHolds(j)'
    BY <1>0, <1>6, <2>2 DEF OnePairOfHands, JobHolds, Became
  <2>4. JobHolds(n)'
    BY <1>0, <1>6, <2>1, <2>2 DEF JobHolds, Became
  <2>. QED
    BY <2>1, <2>2, <2>3, <2>4 DEF OnePairOfHands, OneJob
<1>7. \A r \in Schedulers, q \in Pods : SchedulerHolds(r, q)'
  <2>0. \A r \in Schedulers, q \in Pods : SchedulerHolds(r, q)
    BY DEF OnePairOfHands
  <2>1. CASE QueuePod(s, p)
    <3>1. /\ UNCHANGED <<pod, hand>> /\ pod[p].phase = "Assigned" /\ pod[p].sched = s
          /\ known[s][p] # pod[p].rv /\ known'[s][p] = pod[p].rv
          /\ \A r \in Schedulers, q \in Pods : r # s \/ q # p =>
                 known'[r][q] = known[r][q] /\ (q \in queue'[r] => q \in queue[r])
      BY <1>0, <2>1 DEF QueuePod, needToSchedule
    <3>. QED
      BY <2>0, <3>1 DEF SchedulerHolds
  <2>2. CASE UnqueuePod(s, p)
    <3>1. /\ UNCHANGED <<pod, hand>> /\ ~(pod[p].phase = "Assigned" /\ pod[p].sched = s)
          /\ \A r \in Schedulers, q \in Pods : q \in queue'[r] => q \in queue[r]
          /\ \A r \in Schedulers, q \in Pods : r # s \/ q # p =>
                 known'[r][q] = known[r][q]
      BY <1>0, <2>2 DEF UnqueuePod, needToSchedule
    <3>. QED
      BY <2>0, <3>1 DEF SchedulerHolds
  <2>3. ASSUME NEW fits \in BOOLEAN, scheduleOne(s, p, fits)
        PROVE  \A r \in Schedulers, q \in Pods : SchedulerHolds(r, q)'
    <3>1. /\ UNCHANGED <<pod, known>> /\ p \in queue[s] /\ p \notin queue'[s]
          /\ hand'[s].pod = p /\ hand'[s].step # "patch"
          /\ \A r \in Schedulers : r # s => hand'[r] = hand[r]
          /\ \A r \in Schedulers, q \in Pods : q \in queue'[r] => q \in queue[r]
      BY <1>0, <2>3 DEF scheduleOne, Empty
    <3>. QED
      BY <2>0, <3>1 DEF SchedulerHolds
  <2>n. CASE scheduleNothing(s, p)
    <3>1. /\ UNCHANGED <<pod, known, hand>>
          /\ \A r \in Schedulers, q \in Pods : q \in queue'[r] => q \in queue[r]
      BY <1>0, <2>n DEF scheduleNothing
    <3>. QED
      BY <2>0, <3>1 DEF SchedulerHolds
  <2>4. CASE bindToSite(s, p) \/ PatchPodStatus(s, p)
    <3>1. /\ UNCHANGED <<known, queue>> /\ hand[s].pod = p /\ hand'[s].pod \notin Pods
          /\ \A r \in Schedulers : r # s => hand'[r] = hand[r]
      BY <1>0, <2>4 DEF bindToSite, PatchPodStatus, Empty
    <3>2. \/ pod' = pod
          \/ pod[p].phase = "Assigned" /\ \A q \in Pods : q # p => pod'[q] = pod[q]
      BY <1>1 DEF Became
    <3>. QED
      BY <2>0, <3>1, <3>2 DEF SchedulerHolds
  <2>5. CASE getPod(s, p)
    <3>1. /\ UNCHANGED <<pod, known, queue>> /\ hand[s].pod = p
          /\ \A r \in Schedulers : r # s => hand'[r] = hand[r]
          /\ \/ hand'[s].pod \notin Pods
             \/ /\ hand'[s].pod = p
                /\ pod[p].phase = "Assigned" => hand'[s].fields.phase
      <4> DEFINE f == [phase |-> pod[p].phase # "NoSchedule",
                       sched |-> pod[p].sched # None, inst |-> pod[p].inst # 0]
                 n == [pod |-> p, step |-> "patch", fields |-> f]
      <4>1. n.pod = p /\ n.fields = f /\ f.phase = (pod[p].phase # "NoSchedule")
        OBVIOUS
      <4>2. Empty.pod \notin Pods
        BY <1>0 DEF Empty
      <4>3. /\ UNCHANGED <<pod, known, queue>> /\ hand[s].pod = p
            /\ \/ hand' = [hand EXCEPT ![s] = Empty]
               \/ hand' = [hand EXCEPT ![s] = n]
        BY <2>5 DEF getPod
      <4> HIDE DEF f, n
      <4>. QED
        BY <1>0, <4>1, <4>2, <4>3
    <3>. QED
      BY <2>0, <3>1 DEF SchedulerHolds
  <2>. QED
    BY <2>1, <2>2, <2>3, <2>n, <2>4, <2>5 DEF Informer, PodWorker
<1>. QED
  BY <1>1, <1>2, <1>3, <1>5, <1>6, <1>7 DEF OnePairOfHands

(* The goroutine that has called the cloud and will report.                *)
LEMMA GoesOn ==
    ASSUME NEW j \in Jobs, NEW f, NEW i, jobs' = ToReport(j, f, i)
    PROVE  \E n : /\ jobs' = (jobs \ {j}) \cup {n}
                  /\ n.pod = j.pod /\ n.deleted = j.deleted /\ n.step = "report"
                  /\ n.copy.rv = j.copy.rv /\ n.copy.phase = f /\ n.copy.inst = i
<1> DEFINE n == [j EXCEPT !.step = "report", !.copy.phase = f, !.copy.inst = i]
<1>1. /\ n.pod = j.pod /\ n.deleted = j.deleted /\ n.step = "report"
      /\ n.copy.rv = j.copy.rv /\ n.copy.phase = f /\ n.copy.inst = i
  BY DEF Jobs, Objects
<1>2. jobs' = (jobs \ {j}) \cup {n}
  BY DEF ToReport
<1> HIDE DEF n
<1>. QED
  BY <1>1, <1>2

(* The steps of the dispatcher.                                            *)
LEMMA DispatcherHandsOn ==
    ASSUME TypeOK, OnePairOfHands, NEW j \in jobs, DispatcherStep(j)
    PROVE  OnePairOfHands'
<1>0. /\ UNCHANGED <<bindings, schedulers, restarts>>
      /\ j \in Jobs /\ j.pod \in Pods /\ j.copy \in Objects
      /\ created \in [Pods -> Nat] /\ restarts \in Nat
  BY ConstantsAssumption DEF DispatcherStep, SendFails, CreateServer, CreateServerFails,
     ReportPod, DeleteInstance, bounds, TypeOK, Jobs
<1>1. \/ pod' = pod
      \/ /\ pod[j.pod].phase = "Bound" /\ jobs' = jobs \ {j}
         /\ \/ Became(j.pod, "Scheduled") /\ pod'[j.pod].inst # 0
            \/ Became(j.pod, "Failed")
  BY ReportWrites DEF DispatcherStep, SendFails, CreateServer, CreateServerFails,
     DeleteInstance
<1>2. \A t \in Distributors \X Pods : DistributorHolds(t)'
  BY <1>0, <1>1, DistributorsKeep DEF OnePairOfHands, Became
<1>3. \A s \in Schedulers, q \in Pods : SchedulerHolds(s, q)'
  BY <1>0, <1>1, SchedulersKeep DEF OnePairOfHands, Became
<1>4. ASSUME SendFails(j) \/ ReportPod(j) \/ DeleteInstance(j)
      PROVE  OnePairOfHands'
  <2>1. jobs' = jobs \ {j} /\ created' = created /\ cloud' \subseteq cloud
    BY <1>4, ReportWrites DEF SendFails, ReportPod, DeleteInstance, clouds
  <2>2. \A i \in jobs' : i.pod # j.pod
    BY <2>1 DEF OnePairOfHands, OneJob
  <2>3. (\A i \in jobs' : JobHolds(i)') /\ OneJob'
    BY <1>0, <1>1, <2>1, <2>2, JobsKeep DEF OnePairOfHands, Became
  <2>4. \A q \in Pods : PodHolds(q)'
    BY <1>0, <1>1, <2>1, PodsKeep DEF OnePairOfHands, Became
  <2>. QED
    BY <1>2, <1>3, <2>3, <2>4 DEF OnePairOfHands
<1>5. ASSUME CreateServer(j) \/ CreateServerFails(j)
      PROVE  OnePairOfHands'
  <2> DEFINE k == created[j.pod] + 1
  <2>1. /\ pod' = pod /\ j.step = "send" /\ ~j.deleted
        /\ \/ UNCHANGED <<created, cloud>>
           \/ /\ created' = [created EXCEPT ![j.pod] = k]
              /\ cloud' = cloud \cup {<<j.pod, k>>}
    BY <1>5 DEF CreateServer, CreateServerFails, clouds
  <2>2. PICK n : /\ jobs' = (jobs \ {j}) \cup {n}
                 /\ n.pod = j.pod /\ ~n.deleted /\ n.step = "report"
                 /\ n.copy.rv = j.copy.rv
                 /\ \/ n.copy.phase = "Scheduled" /\ n.copy.inst = k
                    \/ n.copy.phase = "Failed" /\ n.copy.inst = j.copy.inst
    <3>2. \/ jobs' = ToReport(j, "Scheduled", k)
          \/ jobs' = ToReport(j, "Failed", j.copy.inst)
      BY <1>5 DEF CreateServer, CreateServerFails
    <3> HIDE DEF k
    <3>. QED
      BY <1>0, <2>1, <3>2, GoesOn
  <2>3. /\ pod[j.pod].phase \in {"Bound", "Deleted"} /\ pod[j.pod].inst = 0
        /\ pod[j.pod].phase = "Bound" => j.copy.rv = pod[j.pod].rv
        /\ j.copy.inst = 0 /\ created[j.pod] <= restarts
    BY <2>1 DEF OnePairOfHands, JobHolds
  <2>4. k \in Nat /\ k # 0 /\ k <= restarts + 1 /\ created[j.pod] < k
    BY <1>0, <2>3
  <2>5. \A i \in jobs \ {j} : i.pod # j.pod /\ i.pod \in Pods
    BY DEF OnePairOfHands, OneJob, TypeOK, Jobs
  <2>6. \A q \in Pods : q # j.pod => created'[q] = created[q]
    BY <1>0, <2>1
  <2> HIDE DEF k
  <2>7. ASSUME NEW i \in jobs \ {j} PROVE JobHolds(i)'
    BY <1>0, <2>1, <2>5, <2>6 DEF OnePairOfHands, JobHolds
  <2>8. JobHolds(n)'
    BY <1>0, <2>1, <2>2, <2>3, <2>4 DEF JobHolds
  <2>9. OneJob'
    BY <2>2, <2>5 DEF OnePairOfHands, OneJob
  <2>10. ASSUME NEW q \in Pods PROVE PodHolds(q)'
    <3>1. CASE q # j.pod
      <4>1. \A v \in cloud' : v[1] = q => v \in cloud
        BY <2>1, <3>1
      <4>. QED
        BY <1>0, <2>1, <2>6, <3>1, <4>1 DEF OnePairOfHands, PodHolds
    <3>2. CASE q = j.pod /\ UNCHANGED <<created, cloud>>
      BY <1>0, <2>1, <3>2 DEF OnePairOfHands, PodHolds
    <3>3. CASE q = j.pod /\ created' = [created EXCEPT ![j.pod] = k]
                 /\ cloud' = cloud \cup {<<j.pod, k>>}
      <4>1. created'[q] = k
        BY <1>0, <3>3
      <4>2. ASSUME NEW v \in cloud', v[1] = q
            PROVE  0 < v[2] /\ v[2] <= created'[q]
        <5>1. CASE v = <<j.pod, k>>
          BY <2>4, <4>1, <5>1
        <5>2. CASE v \in cloud
          <6>1. v[2] \in Nat /\ 0 < v[2] /\ v[2] <= created[q] /\ created[q] \in Nat
            BY <1>0, <4>2, <5>2 DEF OnePairOfHands, PodHolds, TypeOK
          <6>. QED
            BY <2>4, <3>3, <4>1, <6>1
        <5>. QED
          BY <3>3, <5>1, <5>2
      <4>3. /\ pod'[q].phase \in {"Absent", "Pending", "Assigned", "Bound"} => pod'[q].inst = 0
            /\ pod'[q].phase \notin {"Absent", "Pending", "Assigned", "Scheduled"}
        BY <2>1, <2>3, <3>3
      <4>. QED
        BY <1>0, <2>4, <4>1, <4>2, <4>3 DEF PodHolds
    <3>. QED
      BY <2>1, <3>1, <3>2, <3>3
  <2>. QED
    BY <1>2, <1>3, <2>2, <2>7, <2>8, <2>9, <2>10 DEF OnePairOfHands
<1>. QED
  BY <1>4, <1>5 DEF DispatcherStep

(* The deaths and starts of processes.                                     *)
Lifetimes ==
    \/ \E d \in Distributors : ExecDistributor(d)
    \/ \E s \in Schedulers : ExitScheduler(s) \/ StartScheduler(s)
    \/ ExecDispatcher \/ ExitDispatcher \/ StartDispatcher

LEMMA LifetimesHandOn ==
    ASSUME TypeOK, OnePairOfHands, Lifetimes
    PROVE  OnePairOfHands'
<1>1. ASSUME NEW d \in Distributors, ExecDistributor(d)
      PROVE  OnePairOfHands'
  <2>1. /\ UNCHANGED <<pod, known, queue, hand, jobs, cloud, created, restarts>>
        /\ \A t \in Distributors \X Pods :
               bindings'[t] = bindings[t] \/ bindings'[t].step = "none"
    BY <1>1 DEF ExecDistributor, NoBinding, schedulers, clouds
  <2>2. \A t \in Distributors \X Pods : DistributorHolds(t)'
    BY <2>1 DEF OnePairOfHands, DistributorHolds
  <2>. QED
    BY <2>1, <2>2 DEF OnePairOfHands, SchedulerHolds, JobHolds, OneJob, PodHolds
<1>2. ASSUME NEW s \in Schedulers, ExitScheduler(s)
      PROVE  OnePairOfHands'
  <2>1. /\ UNCHANGED <<pod, bindings, jobs, cloud, created, restarts>>
        /\ queue'[s] = {} /\ hand'[s].pod \notin Pods
        /\ \A r \in Schedulers : r # s =>
               queue'[r] = queue[r] /\ hand'[r] = hand[r] /\ known'[r] = known[r]
    BY <1>2, ConstantsAssumption DEF ExitScheduler, Empty, clouds, bounds, TypeOK
  <2>2. \A r \in Schedulers, q \in Pods : SchedulerHolds(r, q)'
    BY <2>1 DEF OnePairOfHands, SchedulerHolds
  <2>. QED
    BY <2>1, <2>2 DEF OnePairOfHands, DistributorHolds, JobHolds, OneJob, PodHolds
<1>3. ASSUME NEW s \in Schedulers, StartScheduler(s)
      PROVE  OnePairOfHands'
  BY <1>3 DEF StartScheduler, schedulers, clouds, OnePairOfHands, DistributorHolds,
     SchedulerHolds, JobHolds, OneJob, PodHolds
<1>4. CASE ExitDispatcher
  BY <1>4 DEF ExitDispatcher, schedulers, clouds, bounds, OnePairOfHands,
     DistributorHolds, SchedulerHolds, OneJob, PodHolds
<1>5. CASE ExecDispatcher \/ StartDispatcher
  <2>0. ListBound
    BY <1>5 DEF ExecDispatcher, StartDispatcher
  <2>1. /\ UNCHANGED <<pod, bindings, known, queue, hand, cloud, created>>
        /\ restarts' = restarts + 1 /\ restarts \in Nat
        /\ created \in [Pods -> Nat]
    BY <2>0, ConstantsAssumption DEF ListBound, schedulers, clouds, TypeOK
  <2>2. ASSUME NEW j \in jobs'
        PROVE  /\ j.pod \in Pods /\ pod[j.pod].phase = "Bound"
               /\ j = Job(j.pod, FALSE, pod[j.pod])
               /\ j.copy = pod[j.pod] /\ j.step = "send" /\ j.deleted = FALSE
    <3>1. PICK p \in Pods : pod[p].phase = "Bound" /\ j = Job(p, FALSE, pod[p])
      BY <2>0, <2>2 DEF ListBound
    <3>2. j.pod = p /\ j.copy = pod[p] /\ j.step = "send" /\ j.deleted = FALSE
      BY <3>1 DEF Job
    <3>. QED
      BY <3>1, <3>2
  <2>3. ASSUME NEW j \in jobs' PROVE JobHolds(j)'
    <3>1. /\ pod[j.pod].inst = 0 /\ created[j.pod] <= 1 + restarts
          /\ created[j.pod] \in Nat
      BY <2>1, <2>2 DEF OnePairOfHands, PodHolds
    <3>2. created'[j.pod] <= restarts'
      BY <2>1, <3>1
    <3>. QED
      BY <2>1, <2>2, <3>1, <3>2 DEF JobHolds
  <2>4. OneJob'
    BY <2>2 DEF OneJob
  <2>5. ASSUME NEW p \in Pods PROVE PodHolds(p)'
    BY <2>1 DEF OnePairOfHands, PodHolds
  <2>. QED
    BY <2>1, <2>3, <2>4, <2>5 DEF OnePairOfHands, DistributorHolds, SchedulerHolds
<1>. QED
  BY <1>1, <1>2, <1>3, <1>4, <1>5 DEF Lifetimes

(* Steps other than the deaths and starts of processes, and the changes of *)
(* users, leave the counters of both and the processes as they are.        *)
LEMMA StepsCounted ==
    ASSUME [Next]_vars
    PROVE  \/ \E p \in Pods : TouchPod(p)
           \/ Lifetimes
           \/ UNCHANGED <<touches, execs, serving>>
<1>1. ASSUME NEW p \in Pods, CreatePod(p) \/ DeletePod(p)
      PROVE  UNCHANGED <<touches, execs, serving>>
  BY <1>1 DEF CreatePod, DeletePod, bounds, life
<1>2. ASSUME NEW d \in Distributors, NEW p \in Pods, DistributorStep(d, p)
      PROVE  UNCHANGED <<touches, execs, serving>>
  BY <1>2 DEF DistributorStep, ScheduleOne, bindPod, FailPod, bounds, life
<1>3. ASSUME NEW s \in Schedulers, NEW p \in Pods, Informer(s, p)
      PROVE  UNCHANGED <<touches, execs, serving>>
  BY <1>3 DEF Informer, QueuePod, UnqueuePod, bounds, life
<1>4. ASSUME NEW s \in Schedulers, NEW p \in Pods, PodWorker(s, p)
      PROVE  UNCHANGED <<touches, execs, serving>>
  BY <1>4 DEF PodWorker, scheduleOne, scheduleNothing, bindToSite, getPod,
     PatchPodStatus, bounds, life
<1>5. ASSUME NEW j \in jobs, DispatcherStep(j)
      PROVE  UNCHANGED <<touches, execs, serving>>
  BY <1>5 DEF DispatcherStep, SendFails, CreateServer, CreateServerFails, ReportPod,
     DeleteInstance, bounds, life
<1>6. CASE UNCHANGED vars
  BY <1>6 DEF vars, bounds, life
<1>. QED
  BY <1>1, <1>2, <1>3, <1>4, <1>5, <1>6 DEF Next, Lifetimes

(* Nobody takes back that a user has changed a pod.                        *)
LEMMA TouchesCounted ==
    ASSUME TypeOK, [Next]_vars, touches' = 0
    PROVE  touches = 0 /\ \A p \in Pods : ~TouchPod(p)
<1>1. touches \in Nat
  BY ConstantsAssumption DEF TypeOK
<1>2. (\E p \in Pods : TouchPod(p)) \/ touches' = touches
  BY StepsCounted DEF Lifetimes, ExecDistributor, ExitScheduler, StartScheduler,
     ExecDispatcher, StartDispatcher, ListBound, ExitDispatcher, bounds
<1>3. \A p \in Pods : TouchPod(p) => touches' = touches + 1
  BY DEF TouchPod
<1>. QED
  BY <1>1, <1>2, <1>3

LEMMA HandsStep ==
    ASSUME OneDistributor, TypeOK, HandsInv, [Next]_vars
    PROVE  HandsInv'
<1> SUFFICES ASSUME touches' = 0 PROVE OnePairOfHands'
  BY DEF HandsInv
<1>1. OnePairOfHands /\ \A p \in Pods : ~TouchPod(p)
  BY TouchesCounted DEF HandsInv
<1>2. CASE UNCHANGED vars
  BY <1>1, <1>2 DEF vars, schedulers, clouds, bounds, OnePairOfHands, DistributorHolds,
     SchedulerHolds, JobHolds, OneJob, PodHolds
<1>. QED
  BY <1>1, <1>2, UsersHandOn, DistributorsHandOn, SchedulersHandOn, DispatcherHandsOn,
     LifetimesHandOn DEF Next, Lifetimes

LEMMA HandsInvariance ==
    ASSUME OneDistributor
    PROVE  Spec => []HandsInv
<1>1. Init => HandsInv
  <2> SUFFICES ASSUME Init PROVE OnePairOfHands
    BY DEF HandsInv
  <2>1. Empty.pod \notin Pods
    BY ConstantsAssumption DEF Empty
  <2>. QED
    BY <2>1, ConstantsAssumption DEF Init, OnePairOfHands, DistributorHolds, NoBinding,
       SchedulerHolds, JobHolds, OneJob, PodHolds
<1>2. TypeOK /\ HandsInv /\ [Next]_vars => HandsInv'
  BY HandsStep
<1>. QED
  BY <1>1, <1>2, PodTypeCorrect, PTL DEF Spec

(* With one distributor, and until a user changes a pod, the pod worker    *)
(* does not queue what it has in hand, and SendPodToCluster creates one VM *)
(* per pod and life of the dispatcher: a pod enters the phase Bound once,  *)
(* and one goroutine works on it.                                          *)
THEOREM PodsAreHandledOnce ==
    ASSUME OneDistributor
    PROVE  Spec => []HandledOnce
<1>1. TypeOK /\ HandsInv => HandledOnce
  <2> SUFFICES ASSUME TypeOK, OnePairOfHands
               PROVE  /\ \A s \in Schedulers : hand[s].pod \notin queue[s]
                      /\ \A p \in Pods : created[p] <= 1 + restarts
    BY DEF HandledOnce, HandsInv
  <2>1. ASSUME NEW s \in Schedulers PROVE hand[s].pod \notin queue[s]
    BY DEF TypeOK, OnePairOfHands, SchedulerHolds
  <2>. QED
    BY <2>1 DEF OnePairOfHands, PodHolds
<1>. QED
  BY <1>1, PodTypeCorrect, HandsInvariance, PTL

(* With one distributor, and until a user changes a pod, a Scheduled pod   *)
(* has its instance: only a report of SendPodToCluster makes it Scheduled, *)
(* and nobody writes it after that.                                        *)
THEOREM ScheduledPodsAreBacked ==
    ASSUME OneDistributor
    PROVE  Spec => []PodIsBacked
<1>1. HandsInv /\ RecordedExists => PodIsBacked
  BY DEF HandsInv, OnePairOfHands, PodHolds, RecordedExists, PodIsBacked
<1>. QED
  BY <1>1, HandsInvariance, InstancesRecordedExist, PTL

(* The phases that may follow each other, in the names of the pods.        *)
Way(g, f) ==
    \/ <<g, f>> \in {<<"Absent", "Pending">>, <<"Pending", "Assigned">>,
                     <<"Pending", "Failed">>, <<"Assigned", "Bound">>,
                     <<"Assigned", "NoSchedule">>, <<"Bound", "Scheduled">>,
                     <<"Bound", "Failed">>}
    \/ g \in Phases \ {"Absent", "Deleted"} /\ f = "Deleted"

(* The stages of a pod follow each other as those of an allocation do.     *)
LEMMA StageStep ==
    ASSUME NEW p \in Pods, NEW f, Became(p, f), Way(pod[p].phase, f)
    PROVE  Lifecycle!Next
<1> DEFINE stages == [q \in Pods |-> Stage(pod[q].phase)]
           next == [q \in Pods |-> Stage(pod'[q].phase)]
<1>1. next = [stages EXCEPT ![p] = Stage(f)]
  BY DEF Became
<1>2. Stage(f) \in Lifecycle!Follows(stages[p])
  BY DEF Lifecycle!Follows, Lifecycle!HandsOn, Lifecycle!Phases, Stage, Phases, Way
<1>. QED
  BY <1>1, <1>2 DEF Lifecycle!Next, Lifecycle!Advance

(* A step writes at most one pod, and hands it on.                         *)
LEMMA PodsHandedOn ==
    ASSUME TypeOK, OnePairOfHands, [Next]_vars, \A p \in Pods : ~TouchPod(p)
    PROVE  pod' = pod \/ \E p \in Pods : \E f : Became(p, f) /\ Way(pod[p].phase, f)
<1> DEFINE Goal == pod' = pod \/ \E p \in Pods : \E f : Became(p, f) /\ Way(pod[p].phase, f)
<1>1. ASSUME NEW p \in Pods, CreatePod(p) \/ DeletePod(p)
      PROVE  Goal
  <2>1. CASE CreatePod(p)
    BY <2>1, CreateWrites DEF Way
  <2>2. CASE DeletePod(p)
    <3>1. pod[p].phase \in Phases \ {"Absent", "Deleted"} /\ Became(p, "Deleted")
      BY <2>2, DeleteWrites DEF Exists, TypeOK, Objects
    <3>. QED
      BY <3>1 DEF Way
  <2>. QED
    BY <1>1, <2>1, <2>2
<1>2. ASSUME NEW d \in Distributors, NEW p \in Pods, DistributorStep(d, p)
      PROVE  Goal
  <2>1. \/ pod' = pod
        \/ pod[p].phase = "Pending" /\ Became(p, "Assigned")
        \/ pod[p].phase = "Pending" /\ Became(p, "Failed")
    BY <1>2, BindWrites, FailWrites DEF DistributorStep, ScheduleOne
  <2>. QED
    BY <2>1 DEF Way
<1>3. ASSUME NEW s \in Schedulers, NEW p \in Pods, Informer(s, p) \/ PodWorker(s, p)
      PROVE  Goal
  <2>1. \/ pod' = pod
        \/ pod[p].phase = "Assigned" /\ Became(p, "Bound")
        \/ pod[p].phase = "Assigned" /\ Became(p, "NoSchedule")
    BY <1>3, SiteWrites, PatchWrites DEF Informer, QueuePod, UnqueuePod, PodWorker,
       scheduleOne, scheduleNothing, getPod
  <2>. QED
    BY <2>1 DEF Way
<1>4. ASSUME NEW j \in jobs, DispatcherStep(j)
      PROVE  Goal
  <2>1. \/ pod' = pod
        \/ /\ j.pod \in Pods /\ pod[j.pod].phase = "Bound"
           /\ Became(j.pod, "Scheduled") \/ Became(j.pod, "Failed")
    BY <1>4, ReportWrites DEF DispatcherStep, SendFails, CreateServer,
       CreateServerFails, DeleteInstance
  <2>. QED
    BY <2>1 DEF Way
<1>5. CASE Lifetimes \/ UNCHANGED vars
  BY <1>5 DEF Lifetimes, ExecDistributor, ExitScheduler, StartScheduler,
     ExecDispatcher, StartDispatcher, ListBound, ExitDispatcher, vars
<1>. QED
  BY <1>1, <1>2, <1>3, <1>4, <1>5 DEF Next, Lifetimes

(* With one distributor, and until a user changes a pod, no decision about *)
(* a pod is taken back: the Bindings of bindPod and bindToSite and the     *)
(* patch of setPodScheduleErr, which apply to any version, only meet the   *)
(* phase their writer was started for.                                     *)
THEOREM PodsGoTheWayOfAllocations ==
    ASSUME OneDistributor
    PROVE  Spec => PodsFollowLifecycle
<1>1. ASSUME TypeOK, HandsInv, [Next]_vars, touches' = 0
      PROVE  UNCHANGED pod \/ Lifecycle!Next
  BY <1>1, TouchesCounted, PodsHandedOn, StageStep DEF HandsInv
<1>2. TypeOK /\ HandsInv /\ [Next]_vars =>
          [touches' = 0 => Lifecycle!Next]_[p \in Pods |-> Stage(pod[p].phase)]
  BY <1>1
<1>. QED
  BY <1>2, PodTypeCorrect, HandsInvariance, PTL DEF Spec, PodsFollowLifecycle

-----------------------------------------------------------------------------
(* Nothing leaks.  What disturbed a pod stays: restarts, errors and        *)
(* changes are counted, and a deleted pod is not written.                  *)
LEMMA PodUndisturbedBefore ==
    ASSUME TypeOK, HandsInv, [Next]_vars, NEW p \in Pods, Undisturbed(p)'
    PROVE  /\ Undisturbed(p) /\ execs' = 0 /\ errors' = 0 /\ touches' = 0
           /\ execs = 0 /\ restarts = 0 /\ OnePairOfHands
           /\ \A q \in Pods : ~TouchPod(q)
<1>1. execs' = 0 /\ errors' = 0 /\ touches' = 0
  BY DEF Undisturbed
<1>2. /\ execs \in Nat /\ errors \in Nat
      /\ OnePairOfHands /\ touches = 0 /\ \A q \in Pods : ~TouchPod(q)
  BY <1>1, TouchesCounted, ConstantsAssumption DEF TypeOK, HandsInv
<1>3. execs' \in {execs, execs + 1} /\ errors' \in {errors, errors + 1}
  <2>1. execs' \in {execs, execs + 1}
    BY <1>2, StepsCounted DEF Lifetimes, ExecDistributor, ExitScheduler, StartScheduler,
       ExecDispatcher, StartDispatcher, ListBound, ExitDispatcher, bounds
  <2>2. errors' \in {errors, errors + 1}
    <3>1. ASSUME NEW possible, NEW q, NEW o, NEW rest,
                 Succeeds(possible, q, o, rest) \/ Fails(possible, q, o, rest)
          PROVE  errors' \in {errors, errors + 1}
      BY <3>1 DEF Succeeds, Fails, Fault
    <3>2. ASSUME NEW d \in Distributors, NEW q \in Pods, DistributorStep(d, q)
          PROVE  errors' \in {errors, errors + 1}
      BY <3>1, <3>2 DEF DistributorStep, ScheduleOne, bindPod, FailPod, bounds
    <3>3. ASSUME NEW s \in Schedulers, NEW q \in Pods, Informer(s, q) \/ PodWorker(s, q)
          PROVE  errors' \in {errors, errors + 1}
      <4>1. CASE \/ Informer(s, q) \/ getPod(s, q) \/ scheduleNothing(s, q)
                 \/ \E fits \in BOOLEAN : scheduleOne(s, q, fits)
        BY <4>1 DEF Informer, QueuePod, UnqueuePod, scheduleOne, scheduleNothing, getPod,
           Fault, bounds
      <4>2. CASE bindToSite(s, q)
        BY <3>1, <4>2 DEF bindToSite
      <4>3. CASE PatchPodStatus(s, q)
        BY <3>1, <4>3 DEF PatchPodStatus
      <4>. QED
        BY <3>3, <4>1, <4>2, <4>3 DEF PodWorker
    <3>4. ASSUME NEW j \in jobs, DispatcherStep(j)
          PROVE  errors' \in {errors, errors + 1}
      <4>1. CASE ReportPod(j)
        BY <3>1, <4>1 DEF ReportPod
      <4>2. CASE ~ReportPod(j)
        BY <3>4, <4>2 DEF DispatcherStep, SendFails, CreateServer, CreateServerFails,
           DeleteInstance, Fault, bounds
      <4>. QED
        BY <4>1, <4>2
    <3>5. CASE \/ \E q \in Pods : CreatePod(q) \/ DeletePod(q) \/ TouchPod(q)
               \/ Lifetimes \/ UNCHANGED vars
      BY <3>5 DEF CreatePod, DeletePod, TouchPod, Lifetimes, ExecDistributor,
         ExitScheduler, StartScheduler, ExecDispatcher, StartDispatcher, ListBound,
         ExitDispatcher, vars, bounds
    <3>. QED
      BY <3>2, <3>3, <3>4, <3>5 DEF Next, Lifetimes
  <2>. QED
    BY <2>1, <2>2
<1>4. execs = 0 /\ errors = 0 /\ restarts = 0
  BY <1>1, <1>2, <1>3 DEF TypeOK
<1>5. pod[p].phase = "Deleted" => pod'[p] = pod[p]
  BY <1>2, PodsHandedOn DEF Way, Became
<1>6. serving
  <2>1. serving' /\ execs' = execs
    BY <1>1, <1>4 DEF Undisturbed
  <2>2. execs' = execs + 1 \/ UNCHANGED serving \/ ExitDispatcher
    BY <1>2, StepsCounted DEF Lifetimes, ExecDistributor, ExitScheduler, StartScheduler,
       ExecDispatcher, StartDispatcher, ListBound
  <2>3. ExitDispatcher => ~serving'
    BY DEF ExitDispatcher
  <2>4. execs' # execs + 1
    BY <1>2, <2>1
  <2>. QED
    BY <2>1, <2>2, <2>3, <2>4
<1>. QED
  BY <1>1, <1>2, <1>4, <1>5, <1>6 DEF Undisturbed

PodAccounted(v) ==
    \/ pod[v[1]].phase = "Scheduled" /\ pod[v[1]].inst = v[2]
    \/ \E j \in jobs : j.pod = v[1] /\ j.copy.inst = v[2]

LEMMA PodLeakStep ==
    ASSUME TypeOK, HandsInv, NoLeak, [Next]_vars, NEW v \in cloud',
           v[1] \in Pods, Undisturbed(v[1])'
    PROVE  PodAccounted(v)'
<1>0. /\ Undisturbed(v[1]) /\ execs' = 0 /\ errors' = 0 /\ execs = 0 /\ restarts = 0
      /\ OnePairOfHands /\ \A q \in Pods : ~TouchPod(q)
  BY PodUndisturbedBefore
<1>a. serving /\ serving'
  BY <1>0 DEF Undisturbed
<1>1. v \in cloud => PodAccounted(v) /\ 0 < v[2] /\ v[2] <= created[v[1]]
  BY <1>0 DEF NoLeak, PodAccounted, OnePairOfHands, PodHolds
<1>2. ASSUME v \in cloud, jobs \subseteq jobs',
             pod'[v[1]] = pod[v[1]] \/ pod[v[1]].phase # "Scheduled"
      PROVE  PodAccounted(v)'
  BY <1>1, <1>2 DEF PodAccounted
<1>3. ASSUME NEW p \in Pods, CreatePod(p) \/ DeletePod(p)
      PROVE  PodAccounted(v)'
  <2>0. v \in cloud
    BY <1>3 DEF CreatePod, DeletePod, clouds
  <2>1. CASE CreatePod(p)
    BY <1>2, <2>0, <2>1, CreateWrites DEF Became
  <2>2. CASE DeletePod(p) /\ ~(pod[p].phase = "Scheduled" /\ p = v[1])
    BY <1>2, <2>0, <2>2, DeleteWrites DEF Became
  <2>3. CASE DeletePod(p) /\ pod[p].phase = "Scheduled" /\ p = v[1]
    <3>1. PICK n : n = Job(p, TRUE, LastSeen(p))
      OBVIOUS
    <3>2. jobs' = jobs \cup {n}
      BY <1>a, <2>3, <3>1, DeleteWrites
    <3>3. n.pod = p /\ n.copy.inst = pod[p].inst
      BY <3>1 DEF Job, LastSeen, TypeOK, Objects
    <3>. QED
      BY <1>1, <2>0, <2>3, <3>2, <3>3 DEF PodAccounted
  <2>. QED
    BY <1>3, <2>1, <2>2, <2>3
<1>4. ASSUME NEW d \in Distributors, NEW p \in Pods, DistributorStep(d, p)
      PROVE  PodAccounted(v)'
  <2>1. v \in cloud
    BY <1>4 DEF DistributorStep, ScheduleOne, bindPod, FailPod, clouds
  <2>2. /\ jobs' = jobs
        /\ \/ pod' = pod
           \/ pod[p].phase = "Pending" /\ \A q \in Pods : q # p => pod'[q] = pod[q]
    BY <1>0, <1>4, BindWrites, FailWrites DEF DistributorStep, ScheduleOne, Became
  <2>. QED
    BY <1>2, <2>1, <2>2
<1>5. ASSUME NEW s \in Schedulers, NEW p \in Pods, Informer(s, p) \/ PodWorker(s, p)
      PROVE  PodAccounted(v)'
  <2>1. v \in cloud
    BY <1>5 DEF Informer, QueuePod, UnqueuePod, PodWorker, scheduleOne,
       scheduleNothing, bindToSite, getPod, PatchPodStatus, clouds
  <2>2. /\ jobs \subseteq jobs'
        /\ \/ pod' = pod
           \/ pod[p].phase = "Assigned" /\ \A q \in Pods : q # p => pod'[q] = pod[q]
    BY <1>0, <1>5, SiteWrites, PatchWrites DEF Informer, QueuePod, UnqueuePod,
       PodWorker, scheduleOne, scheduleNothing, getPod, Became
  <2>. QED
    BY <1>2, <2>1, <2>2
<1>6. ASSUME NEW j \in jobs, DispatcherStep(j)
      PROVE  PodAccounted(v)'
  <2>0. j \in Jobs /\ j.pod \in Pods /\ j.copy \in Objects /\ JobHolds(j)
    BY <1>0 DEF TypeOK, Jobs, OnePairOfHands
  <2>1. CASE SendFails(j)
    <3>1. errors \in Nat /\ errors' = errors + 1
      BY <2>1, ConstantsAssumption DEF SendFails, Fault, TypeOK
    <3>. QED
      BY <1>0, <3>1
  <2>2. CASE ReportPod(j)
    <3>1. v \in cloud /\ jobs' = jobs \ {j}
      BY <1>0, <2>2, ReportWrites DEF ReportPod, clouds
    <3>2. CASE j.pod = v[1] /\ j.copy.inst = v[2]
      <4>1. pod[j.pod].phase = "Bound"
        BY <1>0, <2>0, <2>2, <3>2, ReportWrites DEF JobHolds, Undisturbed
      <4>2. pod'[j.pod].phase = "Scheduled" /\ pod'[j.pod].inst = j.copy.inst
        BY <1>0, <1>1, <2>2, <3>1, <3>2, <4>1, ReportWrites DEF Became
      <4>. QED
        BY <3>2, <4>2 DEF PodAccounted
    <3>3. CASE ~(j.pod = v[1] /\ j.copy.inst = v[2])
      <4>1. \/ pod' = pod
            \/ /\ pod[j.pod].phase = "Bound"
               /\ \A q \in Pods : q # j.pod => pod'[q] = pod[q]
        BY <1>0, <2>2, ReportWrites DEF Became
      <4>. QED
        BY <1>1, <3>1, <3>3, <4>1 DEF PodAccounted
    <3>. QED
      BY <3>2, <3>3
  <2>3. CASE CreateServer(j) \/ CreateServerFails(j)
    <3> DEFINE k == created[j.pod] + 1
    <3>1. /\ pod' = pod /\ j.step = "send" /\ ~j.deleted
          /\ \/ /\ cloud' = cloud \cup {<<j.pod, k>>}
                /\ jobs' = ToReport(j, "Scheduled", k)
             \/ /\ cloud' = cloud
                /\ jobs' = ToReport(j, "Failed", j.copy.inst)
      <4>1. errors \in Nat
        BY ConstantsAssumption DEF TypeOK
      <4>. QED
        BY <1>0, <2>3, <4>1 DEF CreateServer, CreateServerFails, Fault, clouds
    <3>2. j.copy.inst = 0
      BY <2>0, <3>1 DEF JobHolds
    <3> HIDE DEF k
    <3>3. CASE v \in cloud
      <4>1. jobs \ {j} \subseteq jobs'
        BY <3>1 DEF ToReport
      <4>2. v[2] # j.copy.inst
        BY <1>1, <3>2, <3>3
      <4>. QED
        BY <1>1, <3>1, <3>3, <4>1, <4>2 DEF PodAccounted
    <3>4. CASE v = <<j.pod, k>> /\ jobs' = ToReport(j, "Scheduled", k)
      <4>1. PICK n \in jobs' : n.pod = j.pod /\ n.copy.inst = k
        BY <2>0, <3>4, GoesOn
      <4>. QED
        BY <3>4, <4>1 DEF PodAccounted
    <3>. QED
      BY <3>1, <3>3, <3>4
  <2>4. CASE DeleteInstance(j)
    <3>1. /\ cloud' = cloud \ {<<j.pod, j.copy.inst>>} /\ jobs' = jobs \ {j}
          /\ pod' = pod /\ v = <<v[1], v[2]>>
      BY <2>4 DEF DeleteInstance, TypeOK
    <3>. QED
      BY <1>1, <3>1 DEF PodAccounted
  <2>. QED
    BY <1>6, <2>1, <2>2, <2>3, <2>4 DEF DispatcherStep
<1>7. CASE Lifetimes
  <2>1. CASE \E s \in Schedulers : ExitScheduler(s)
    BY <1>2, <2>1 DEF ExitScheduler, clouds
  <2>2. CASE ~\E s \in Schedulers : ExitScheduler(s)
    BY <1>0, <1>a, <1>7, <2>2 DEF Lifetimes, ExecDistributor, StartScheduler,
       ExecDispatcher, StartDispatcher, ListBound, ExitDispatcher
  <2>. QED
    BY <2>1, <2>2
<1>8. CASE UNCHANGED vars
  BY <1>2, <1>8 DEF vars, clouds
<1>. QED
  BY <1>0, <1>3, <1>4, <1>5, <1>6, <1>7, <1>8 DEF Next, Lifetimes

(* With one distributor, while no process is restarted, the dispatcher     *)
(* does not die, no call fails and nobody changes a pod or deletes it      *)
(* while its VM is being created, every instance is recorded in its pod or *)
(* known to a goroutine that records or deletes it: the UpdateStatus of    *)
(* SendPodToCluster is not refused, and the DeleteFunc of a Scheduled pod  *)
(* carries the instance.                                                   *)
THEOREM NoPodLeaks ==
    ASSUME OneDistributor
    PROVE  Spec => []NoLeak
<1>1. Init => NoLeak
  BY DEF Init, NoLeak
<1>2. TypeOK /\ HandsInv /\ NoLeak /\ [Next]_vars /\ TypeOK' => NoLeak'
  <2> SUFFICES ASSUME TypeOK, HandsInv, NoLeak, [Next]_vars, TypeOK',
                      NEW v \in cloud', Undisturbed(v[1])'
               PROVE  PodAccounted(v)'
    BY DEF NoLeak, PodAccounted
  <2>1. v[1] \in Pods
    BY DEF TypeOK
  <2>. QED
    BY <2>1, PodLeakStep
<1>. QED
  BY <1>1, <1>2, PodTypeCorrect, HandsInvariance, PTL DEF Spec
==============================================================================
