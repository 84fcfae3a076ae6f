--------------------------- MODULE SchedulerProofs ---------------------------
(***************************************************************************)
(* Proofs about the scheduler and the scheduler controller.                *)
(*                                                                         *)
(* SiteResources, for any sites, capacities, requests and threads: types,  *)
(* the accounting of capacity, how far threads can overcommit a site, and  *)
(* which requests are refused, for any number of threads; for one thread,  *)
(* that no site is overcommitted and that the scheduler implements         *)
(* CapacityLedger.                                                         *)
(*                                                                         *)
(* SchedulerController, for any schedulers, clusters and bounds: the tree  *)
(* of geolocations, the division of the clusters, and the processes that   *)
(* are started.                                                            *)
(***************************************************************************)
EXTENDS SiteResources, SchedulerController, FiniteSetTheorems, SequenceTheorems, TLAPS

\* Where a Schedule call is tells what it holds: a request of its own that
\* is still undecided, something left to place, and sites that have a Site.
CycleInv ==
    \A t \in Threads :
        /\ pc[t] # "idle" => /\ req[t] \in Requests
                             /\ ThreadOf[req[t]] = t
                             /\ phase[req[t]] = "Assigned"
        /\ pc[t] = "strategy" => left[t] > 0 /\ sum[t] > 0

\* The sites a call has chosen have a Site: what it places, it places there.
ReadyInv ==
    \A t \in Threads :
        /\ \A s \in fit[t] : entry[s] = "ready"
        /\ pc[t] # "filter" => todo[t] \subseteq fit[t]
        /\ order[t] \in Seq(fit[t])
-----------------------------------------------------------------------------
\* A site never gets more stacks than its StackMaxCount, and not fewer than none.
LEMMA StackCountBounds ==
    ASSUME NEW r \in Requests, NEW most \in Nat, NEW all \in Nat, all > 0, NEW rest \in Int, rest > 0
    PROVE  StackCount(r, most, all, rest) \in Nat /\ StackCount(r, most, all, rest) <= most
<1> DEFINE share == (2 * Replicas[r] * most + all) \div (2 * all)
<1>1. Replicas[r] \in Nat
  BY ConstantsAssumption
<1>2. 2 * Replicas[r] * most + all \in Int
  BY <1>1
<1>3. 2 * all \in Int /\ 2 * all > 0
  OBVIOUS
<1>4. share \in Int
  <2>1. \A a, b \in Int : b > 0 => a \div b \in Int
    OBVIOUS
  <2> QED  BY <2>1, <1>2, <1>3
<1> HIDE DEF share
<1>5. StackCount(r, most, all, rest)
        = IF r \in Centralize THEN Lesser(rest, most)
          ELSE Lesser(IF share >= 1 THEN share ELSE 1, most)
  BY DEF StackCount, share
<1> QED  BY <1>4, <1>5 DEF Lesser

\* A new cycle state has the types.
LEMMA NewCycleTypes ==
    ASSUME PlanTypes, CallTypes, NEW t \in Threads, NewCycleState(t)
    PROVE  PlanTypes' /\ fit' \in [Threads -> SUBSET Sites]
<1>1. Zero \in [Sites -> Nat]
  BY DEF Zero
<1>2. <<>> \in Seq(Sites)
  OBVIOUS
<1> QED  BY <1>1, <1>2 DEF NewCycleState, PlanTypes, CallTypes

\* A call starts with the types.
LEMMA CallType ==
    ASSUME TypeOK, NEW t \in Threads, NEW r \in Requests, NEW v \in Nat, Call(t, r, v)
    PROVE  PlanTypes' /\ CallTypes'
<1>1. Known \in SUBSET Sites
  BY DEF Known
<1>2. PlanTypes' /\ fit' \in [Threads -> SUBSET Sites]
  BY NewCycleTypes DEF Call, TypeOK
<1> QED  BY <1>1, <1>2 DEF Call, TypeOK, CallTypes

\* A thread that becomes idle has the types.
LEMMA IdleType ==
    ASSUME TypeOK, NEW t \in Threads, Idle(t)
    PROVE  PlanTypes' /\ CallTypes'
<1>1. PlanTypes' /\ fit' \in [Threads -> SUBSET Sites]
  BY NewCycleTypes DEF Idle, TypeOK
<1> QED  BY <1>1 DEF Idle, TypeOK, CallTypes

\* A return leaves the types behind.
LEMMA ReturnType ==
    ASSUME TypeOK, NEW t \in Threads, NEW p \in {"Bound", "NotScheduled"}, Return(t, p)
    PROVE  /\ PlanTypes' /\ CallTypes'
           /\ phase' \in [Requests -> {"Assigned", "Bound", "NotScheduled"}]
           /\ dropped' = dropped
<1>1. PlanTypes' /\ CallTypes'
  BY IdleType DEF Return
<1>3. phase' \in [Requests -> {"Assigned", "Bound", "NotScheduled"}] /\ dropped' = dropped
  BY DEF Return, TypeOK
<1> QED  BY <1>1, <1>3

\* What a step leaves alone keeps its types.
LEMMA SameTypes ==
    /\ SiteTypes /\ UNCHANGED siteVars => SiteTypes'
    /\ PlanTypes /\ UNCHANGED planVars => PlanTypes'
    /\ HistTypes /\ UNCHANGED histVars => HistTypes'
    /\ EnvTypes /\ UNCHANGED <<up, envVars>> => EnvTypes'
BY DEF SiteTypes, siteVars, PlanTypes, planVars, HistTypes, histVars, EnvTypes, envVars

\* Success: the next VM or the end of the request.
LEMMA SucceedType ==
    ASSUME TypeOK, CycleInv, NEW t \in Threads, pc[t] # "idle", Succeed(t),
           UNCHANGED <<siteVars, histVars, up, envVars>>
    PROVE  TypeOK'
<1>1. req[t] \in Requests /\ vm[t] + 1 \in Nat
  BY DEF CycleInv, TypeOK, CallTypes
<1>2. SiteTypes' /\ HistTypes' /\ EnvTypes'
  BY SameTypes DEF TypeOK
<1>3. CASE Call(t, req[t], vm[t] + 1) /\ UNCHANGED apiVars
  BY <1>1, <1>2, <1>3, CallType DEF TypeOK, apiVars
<1>4. CASE Return(t, "Bound")
  BY <1>2, <1>4, ReturnType DEF TypeOK
<1> QED  BY <1>3, <1>4 DEF Succeed

\* A pod that is dropped.
LEMMA DropType ==
    ASSUME TypeOK, NEW t \in Threads, req[t] \in Pods, Drop(t),
           UNCHANGED <<siteVars, histVars, up, envVars>>
    PROVE  TypeOK'
<1>1. SiteTypes' /\ HistTypes' /\ EnvTypes'
  BY SameTypes DEF TypeOK
<1>2. PlanTypes' /\ CallTypes'
  BY IdleType DEF Drop
<1>3. phase' = phase /\ dropped' \subseteq Pods
  BY DEF Drop, TypeOK
<1> QED  BY <1>1, <1>2, <1>3 DEF TypeOK

\* Failure.
LEMMA FailType ==
    ASSUME TypeOK, NEW t \in Threads, Fail(t), UNCHANGED <<siteVars, histVars, up, envVars>>
    PROVE  TypeOK'
<1>1. SiteTypes' /\ HistTypes' /\ EnvTypes'
  BY SameTypes DEF TypeOK
<1> QED  BY <1>1, ReturnType DEF Fail, TypeOK
-----------------------------------------------------------------------------
\* The initial states have the types.
LEMMA TypeInit == Init => TypeOK /\ CycleInv
<1> SUFFICES ASSUME Init PROVE TypeOK /\ CycleInv
  OBVIOUS
<1>1. Zero \in [Sites -> Nat]
  BY DEF Zero
<1>2. SiteTypes
  BY <1>1, ConstantsAssumption DEF Init, SiteTypes, NoTotal
<1>3. PlanTypes
  <2>1. <<>> \in Seq(Sites)
    OBVIOUS
  <2> QED  BY <1>1, <2>1 DEF Init, PlanTypes
<1>4. CallTypes /\ HistTypes /\ EnvTypes
  BY <1>1, ConstantsAssumption DEF Init, CallTypes, HistTypes, EnvTypes
<1>5. phase \in [Requests -> {"Assigned", "Bound", "NotScheduled"}] /\ dropped \subseteq Pods
  BY DEF Init
<1>6. CycleInv
  BY DEF Init, CycleInv
<1> QED  BY <1>2, <1>3, <1>4, <1>5, <1>6 DEF TypeOK

\* Every step of a thread keeps the types.
LEMMA TypeSchedule ==
    ASSUME TypeOK, CycleInv, NEW t \in Threads, Schedule(t)
    PROVE  TypeOK'
<1>1. ASSUME NEW r \in Requests, Begin(t, r) PROVE TypeOK'
  BY <1>1, CallType, SameTypes DEF Begin, TypeOK, apiVars
<1>2. ASSUME NEW s \in Sites, FilterSite(t, s) PROVE TypeOK'
  <2>1. SiteTypes' /\ PlanTypes' /\ HistTypes'
    BY <1>2, SameTypes DEF FilterSite, TypeOK
  <2>2. CallTypes' /\ UNCHANGED apiVars
    BY <1>2 DEF FilterSite, TypeOK, CallTypes
  <2>3. (up' = up \/ up' = FALSE) /\ UNCHANGED envVars
    BY <1>2 DEF FilterSite
  <2>4. EnvTypes'
    BY <2>3 DEF TypeOK, EnvTypes, envVars
  <2> QED  BY <2>1, <2>2, <2>4 DEF TypeOK, apiVars
<1>3. ASSUME NEW s \in Sites, ScoreSite(t, s) PROVE TypeOK'
  <2>1. SiteTypes' /\ HistTypes' /\ EnvTypes'
    BY <1>3, SameTypes DEF ScoreSite, TypeOK
  <2>2. CallTypes' /\ UNCHANGED apiVars
    BY <1>3 DEF ScoreSite, TypeOK, CallTypes
  <2>3. PlanTypes'
    BY <1>3 DEF ScoreSite, TypeOK, PlanTypes, SiteTypes
  <2> QED  BY <2>1, <2>2, <2>3 DEF TypeOK, apiVars
<1>4. ASSUME NEW s \in Sites, PlanSite(t, s) PROVE TypeOK'
  <2> DEFINE n == StackCount(req[t], maxCount[t][s], sum[t], left[t])
  <2>1. n \in Nat
    <3>1. req[t] \in Requests /\ maxCount[t][s] \in Nat /\ sum[t] \in Nat /\ left[t] \in Int
      BY <1>4 DEF PlanSite, TypeOK, PlanTypes, CycleInv
    <3>2. sum[t] > 0 /\ left[t] > 0
      BY <1>4 DEF PlanSite, CycleInv
    <3> QED  BY <3>1, <3>2, StackCountBounds
  <2>2. /\ siteCount' = [siteCount EXCEPT ![t][s] = n]
        /\ left' = [left EXCEPT ![t] = @ - n]
        /\ order' = [order EXCEPT ![t] = Append(@, s)]
        /\ UNCHANGED <<maxCount, sum, count>>
    BY <1>4 DEF PlanSite
  <2> HIDE DEF n
  <2>3. PlanTypes'
    BY <2>1, <2>2 DEF TypeOK, PlanTypes
  <2>4. CallTypes' /\ UNCHANGED apiVars
    BY <1>4 DEF PlanSite, TypeOK, CallTypes
  <2>5. SiteTypes' /\ HistTypes' /\ EnvTypes'
    BY <1>4, SameTypes DEF PlanSite, TypeOK
  <2> QED  BY <2>3, <2>4, <2>5 DEF TypeOK, apiVars
<1>5. CASE Filtered(t)
  <2>1. CASE Fail(t)
    BY <1>5, <2>1, FailType DEF Filtered
  <2>2. CASE ~Fail(t)
    <3>1. CallTypes' /\ UNCHANGED apiVars /\ UNCHANGED planVars
      BY <1>5, <2>2 DEF Filtered, TypeOK, CallTypes
    <3> QED  BY <1>5, <3>1, SameTypes DEF Filtered, TypeOK, apiVars
  <2> QED  BY <2>1, <2>2
<1>6. CASE Scored(t)
  <2>1. CASE Succeed(t)
    BY <1>6, <2>1, SucceedType DEF Scored
  <2>3. CASE req[t] \in Pods /\ Drop(t)
    BY <1>6, <2>3, DropType DEF Scored
  <2>2. CASE ~Succeed(t) /\ ~(req[t] \in Pods /\ Drop(t))
    <3>1. Replicas[req[t]] \in Int
      BY <1>6, ConstantsAssumption DEF Scored, CycleInv
    <3>2. CallTypes' /\ PlanTypes' /\ UNCHANGED apiVars
      BY <1>6, <2>2, <3>1 DEF Scored, TypeOK, CallTypes, PlanTypes
    <3> QED  BY <1>6, <3>2, SameTypes DEF Scored, TypeOK, apiVars
  <2> QED  BY <2>1, <2>2, <2>3
<1>7. CASE Bind(t)
  <2> DEFINE s == Head(order[t])
  <2>1. s \in Sites
    BY <1>7 DEF Bind, InLoop, TypeOK, PlanTypes
  <2>2. req[t] \in Requests
    BY <1>7 DEF Bind, InLoop, CycleInv
  <2>3. siteCount[t][s] \in Nat /\ siteCount[t][s] > 0
    BY <1>7, <2>1 DEF Bind, TypeOK, PlanTypes
  <2>4. Deduct(t, s)
    BY <1>7 DEF Bind
  <2> HIDE DEF s
  <2>5. Deducted(s) \in Int
    <3>1. total[s] \in Int /\ allocatable[s] \in Int /\ requested[s] \in Int
      BY <2>1 DEF TypeOK, SiteTypes, NoTotal
    <3> QED  BY <3>1 DEF Deducted, Lesser
  <2>6. SiteTypes'
    BY <2>1, <2>4, <2>5 DEF Deduct, TypeOK, SiteTypes
  <2>7. PlanTypes'
    BY <2>1, <2>3, <2>4 DEF Deduct, TypeOK, PlanTypes
  <2>8. HistTypes'
    BY <2>1, <2>2, <2>4 DEF Deduct, TypeOK, HistTypes
  <2>9. CallTypes' /\ EnvTypes' /\ UNCHANGED apiVars
    BY <2>4 DEF Deduct, TypeOK, CallTypes, EnvTypes, envVars
  <2> QED  BY <2>6, <2>7, <2>8, <2>9 DEF TypeOK, apiVars
<1>8. CASE NextSite(t)
  <2>1. order[t] \in Seq(Sites) /\ order[t] # <<>>
    BY <1>8 DEF NextSite, InLoop, TypeOK, PlanTypes
  <2>2. Tail(order[t]) \in Seq(Sites)
    BY <2>1
  <2>3. PlanTypes' /\ CallTypes' /\ UNCHANGED apiVars
    BY <1>8, <2>2 DEF NextSite, TypeOK, PlanTypes, CallTypes
  <2> QED  BY <1>8, <2>3, SameTypes DEF NextSite, TypeOK, apiVars
<1>9. CASE Finish(t)
  BY <1>9, SucceedType, FailType DEF Finish
<1> QED  BY <1>1, <1>2, <1>3, <1>4, <1>5, <1>6, <1>7, <1>8, <1>9 DEF Schedule

\* A step of a thread changes the call of that thread only.
LEMMA OnlyMine ==
    ASSUME TypeOK, NEW t \in Threads, Schedule(t), NEW u \in Threads, u # t
    PROVE  /\ pc'[u] = pc[u] /\ req'[u] = req[u] /\ todo'[u] = todo[u] /\ fit'[u] = fit[u]
           /\ sum'[u] = sum[u] /\ left'[u] = left[u] /\ order'[u] = order[u]
           /\ maxCount'[u] = maxCount[u] /\ siteCount'[u] = siteCount[u]
           /\ count'[u] = count[u]
<1> DEFINE Same == /\ pc'[u] = pc[u] /\ req'[u] = req[u] /\ todo'[u] = todo[u] /\ fit'[u] = fit[u]
                   /\ sum'[u] = sum[u] /\ left'[u] = left[u] /\ order'[u] = order[u]
                   /\ maxCount'[u] = maxCount[u] /\ siteCount'[u] = siteCount[u]
                   /\ count'[u] = count[u]
<1> USE DEF TypeOK, PlanTypes, CallTypes
<1>a. ASSUME NEW r, NEW v, Call(t, r, v) PROVE Same
  BY <1>a DEF Call, NewCycleState
<1>b. ASSUME Idle(t) PROVE Same
  BY <1>b DEF Idle, NewCycleState
<1>1. ASSUME NEW r \in Requests, Begin(t, r) PROVE Same
  BY <1>1, <1>a DEF Begin
<1>2. ASSUME NEW s \in Sites, FilterSite(t, s) PROVE Same
  BY <1>2 DEF FilterSite, planVars
<1>3. ASSUME NEW s \in Sites, ScoreSite(t, s) PROVE Same
  BY <1>3 DEF ScoreSite
<1>4. ASSUME NEW s \in Sites, PlanSite(t, s) PROVE Same
  BY <1>4 DEF PlanSite
<1>5. CASE Filtered(t)
  BY <1>5, <1>b DEF Filtered, Fail, Return, planVars
<1>6. CASE Scored(t)
  BY <1>6, <1>a, <1>b DEF Scored, Succeed, Return, Drop
<1>7. CASE Bind(t)
  BY <1>7 DEF Bind, Deduct
<1>8. CASE NextSite(t)
  BY <1>8 DEF NextSite
<1>9. CASE Finish(t)
  BY <1>9, <1>a, <1>b DEF Finish, Succeed, Fail, Return
<1> QED  BY <1>1, <1>2, <1>3, <1>4, <1>5, <1>6, <1>7, <1>8, <1>9 DEF Schedule

\* A step changes the phase of no request but the one it works on, and only
\* by a return: Bound or NotScheduled.
LEMMA PhaseChange ==
    ASSUME TypeOK, CycleInv, NEW t \in Threads, Schedule(t)
    PROVE  \/ UNCHANGED phase
           \/ /\ pc[t] # "idle" /\ pc'[t] = "idle"
              /\ \E p \in {"Bound", "NotScheduled"} : phase' = [phase EXCEPT ![req[t]] = p]
<1> DEFINE Goal == \/ UNCHANGED phase
                   \/ /\ pc[t] # "idle" /\ pc'[t] = "idle"
                      /\ \E p \in {"Bound", "NotScheduled"} : phase' = [phase EXCEPT ![req[t]] = p]
<1> USE DEF apiVars
<1>a. ASSUME NEW p \in {"Bound", "NotScheduled"}, Return(t, p), pc[t] # "idle" PROVE Goal
  BY <1>a DEF Return, Idle, TypeOK, CallTypes
<1>1. ASSUME NEW r \in Requests, Begin(t, r) PROVE Goal
  BY <1>1 DEF Begin
<1>2. ASSUME NEW s \in Sites, FilterSite(t, s) \/ ScoreSite(t, s) \/ PlanSite(t, s) PROVE Goal
  BY <1>2 DEF FilterSite, ScoreSite, PlanSite
<1>5. CASE Filtered(t)
  BY <1>5, <1>a DEF Filtered, Fail
<1>6. CASE Scored(t)
  BY <1>6, <1>a DEF Scored, Succeed, Drop
<1>7. CASE Bind(t) \/ NextSite(t)
  BY <1>7 DEF Bind, Deduct, NextSite
<1>9. CASE Finish(t)
  BY <1>9, <1>a DEF Finish, Succeed, Fail
<1> QED  BY <1>1, <1>2, <1>5, <1>6, <1>7, <1>9 DEF Schedule

\* The thread's own call stays consistent.
LEMMA CycleMine ==
    ASSUME TypeOK, CycleInv, NEW t \in Threads, Schedule(t)
    PROVE  /\ pc'[t] # "idle" => /\ req'[t] \in Requests
                                 /\ ThreadOf[req'[t]] = t
                                 /\ phase'[req'[t]] = "Assigned"
           /\ pc'[t] = "strategy" => left'[t] > 0 /\ sum'[t] > 0
<1> DEFINE Goal == /\ pc'[t] # "idle" => /\ req'[t] \in Requests
                                         /\ ThreadOf[req'[t]] = t
                                         /\ phase'[req'[t]] = "Assigned"
                   /\ pc'[t] = "strategy" => left'[t] > 0 /\ sum'[t] > 0
<1> USE DEF TypeOK, CallTypes, PlanTypes, apiVars
<1>a. ASSUME NEW r \in Requests, ThreadOf[r] = t, phase'[r] = "Assigned", NEW v, Call(t, r, v) PROVE Goal
  BY <1>a DEF Call
<1>b. ASSUME Idle(t) PROVE Goal
  BY <1>b DEF Idle
<1>c. pc[t] # "idle" => req[t] \in Requests /\ ThreadOf[req[t]] = t /\ phase[req[t]] = "Assigned"
  BY DEF CycleInv
<1>1. ASSUME NEW r \in Requests, Begin(t, r) PROVE Goal
  BY <1>1, <1>a DEF Begin
<1>2. ASSUME NEW s \in Sites, FilterSite(t, s) PROVE Goal
  BY <1>2, <1>c DEF FilterSite
<1>3. ASSUME NEW s \in Sites, ScoreSite(t, s) PROVE Goal
  BY <1>3, <1>c DEF ScoreSite
<1>4. ASSUME NEW s \in Sites, PlanSite(t, s) PROVE Goal
  <2> DEFINE n == StackCount(req[t], maxCount[t][s], sum[t], left[t])
  <2>1. /\ pc[t] = "strategy"
        /\ pc'[t] = IF left[t] <= n \/ todo[t] = {s} THEN "bind" ELSE pc[t]
        /\ left'[t] = left[t] - n
        /\ req'[t] = req[t] /\ sum'[t] = sum[t] /\ phase' = phase
    BY <1>4 DEF PlanSite
  <2>2. n \in Nat
    <3>1. req[t] \in Requests /\ maxCount[t][s] \in Nat /\ sum[t] \in Nat /\ left[t] \in Int
      BY <2>1, <1>c
    <3>2. sum[t] > 0 /\ left[t] > 0
      BY <2>1 DEF CycleInv
    <3> QED  BY <3>1, <3>2, StackCountBounds
  <2>3. sum[t] > 0 /\ left[t] \in Int
    BY <2>1 DEF CycleInv
  <2> HIDE DEF n
  <2> QED  BY <1>c, <2>1, <2>2, <2>3
<1>5. CASE Filtered(t)
  BY <1>5, <1>b, <1>c DEF Filtered, Fail, Return
<1>6. CASE Scored(t)
  <2>1. pc[t] = "score" /\ req[t] \in Requests
    BY <1>6, <1>c DEF Scored
  <2>2. CASE Succeed(t)
    BY <2>1, <2>2, <1>a, <1>b, <1>c DEF Succeed, Return
  <2>4. CASE Drop(t)
    BY <2>4, <1>b DEF Drop
  <2>3. CASE ~Succeed(t) /\ ~Drop(t)
    <3>1. Replicas[req[t]] \in Int /\ Replicas[req[t]] > 0 /\ sum[t] \in Int
      BY <2>1, ConstantsAssumption
    <3> QED  BY <1>6, <2>3, <3>1, <1>c DEF Scored
  <2> QED  BY <2>2, <2>3, <2>4
<1>7. CASE Bind(t)
  BY <1>7, <1>c DEF Bind, InLoop, Deduct
<1>8. CASE NextSite(t)
  BY <1>8, <1>c DEF NextSite, InLoop
<1>9. CASE Finish(t)
  BY <1>9, <1>a, <1>b, <1>c DEF Finish, Succeed, Fail, Return
<1> QED  BY <1>1, <1>2, <1>3, <1>4, <1>5, <1>6, <1>7, <1>8, <1>9 DEF Schedule

\* A step of a thread keeps every call consistent: requests are not shared.
LEMMA CycleSchedule ==
    ASSUME TypeOK, CycleInv, NEW t \in Threads, Schedule(t)
    PROVE  CycleInv'
<1> SUFFICES ASSUME NEW u \in Threads
             PROVE  /\ pc'[u] # "idle" => /\ req'[u] \in Requests
                                          /\ ThreadOf[req'[u]] = u
                                          /\ phase'[req'[u]] = "Assigned"
                    /\ pc'[u] = "strategy" => left'[u] > 0 /\ sum'[u] > 0
  BY DEF CycleInv
<1>1. CASE u = t
  BY <1>1, CycleMine
<1>2. CASE u # t
  <2>1. /\ pc'[u] = pc[u] /\ req'[u] = req[u] /\ left'[u] = left[u] /\ sum'[u] = sum[u]
    BY <1>2, OnlyMine
  <2>2. ASSUME pc[u] # "idle" PROVE phase'[req[u]] = phase[req[u]]
    <3>1. req[u] \in Requests /\ ThreadOf[req[u]] = u
      BY <2>2 DEF CycleInv
    <3>2. CASE UNCHANGED phase
      BY <3>2
    <3>3. ASSUME pc[t] # "idle", NEW p, phase' = [phase EXCEPT ![req[t]] = p]
          PROVE  phase'[req[u]] = phase[req[u]]
      <4>1. req[t] \in Requests /\ ThreadOf[req[t]] = t
        BY <3>3 DEF CycleInv
      <4>2. req[t] # req[u]
        BY <1>2, <3>1, <4>1
      <4> QED  BY <3>1, <3>3, <4>2 DEF TypeOK
    <3> QED  BY <3>2, <3>3, PhaseChange
  <2> QED  BY <2>1, <2>2 DEF CycleInv
<1> QED  BY <1>1, <1>2

\* The reports and the cluster worker leave the calls alone.
LEMMA TypeOthers ==
    ASSUME TypeOK, CycleInv, NEW s \in Sites,
           UpdateSiteDynamicResource(s) \/ UpdateStaticSiteResourceInfo(s)
    PROVE  TypeOK' /\ CycleInv'
<1>1. UNCHANGED <<callVars, histVars, apiVars, up>>
  BY DEF UpdateSiteDynamicResource, UpdateStaticSiteResourceInfo
<1>2. CallTypes' /\ PlanTypes' /\ HistTypes'
  BY <1>1, SameTypes DEF TypeOK, callVars, CallTypes
<1>3. Capacity[s] \in Nat
  BY ConstantsAssumption
<1>4. SiteTypes'
  <2>1. CASE UpdateSiteDynamicResource(s)
    BY <2>1, ConstantsAssumption DEF UpdateSiteDynamicResource, TypeOK, SiteTypes
  <2>2. CASE UpdateStaticSiteResourceInfo(s)
    BY <1>3, <2>2 DEF UpdateStaticSiteResourceInfo, TypeOK, SiteTypes
  <2> QED  BY <2>1, <2>2
<1>5. EnvTypes'
  <2>1. reports' \in Nat /\ updates' \in Nat
    BY DEF UpdateSiteDynamicResource, UpdateStaticSiteResourceInfo, TypeOK, EnvTypes
  <2>2. room' \in [Sites -> Nat]
    <3>1. CASE UpdateSiteDynamicResource(s)
      <4>1. PICK v \in 0 .. MaxTotal : room' = [room EXCEPT ![s] = Greater(@, v)]
        BY <3>1 DEF UpdateSiteDynamicResource
      <4>2. Greater(room[s], v) \in Nat
        BY <4>1, ConstantsAssumption DEF Greater, TypeOK, EnvTypes
      <4> QED  BY <4>1, <4>2 DEF TypeOK, EnvTypes
    <3>2. CASE UpdateStaticSiteResourceInfo(s)
      BY <3>2 DEF UpdateStaticSiteResourceInfo, TypeOK, EnvTypes
    <3> QED  BY <3>1, <3>2
  <2> QED  BY <1>1, <2>1, <2>2 DEF TypeOK, EnvTypes
<1>6. CycleInv'
  BY <1>1 DEF CycleInv, callVars, planVars, apiVars
<1> QED  BY <1>1, <1>2, <1>4, <1>5, <1>6 DEF TypeOK, apiVars

\* Every step of the system keeps the types and the calls consistent.
LEMMA TypeNext == TypeOK /\ CycleInv /\ [Next]_vars => TypeOK' /\ CycleInv'
<1> SUFFICES ASSUME TypeOK, CycleInv, [Next]_vars PROVE TypeOK' /\ CycleInv'
  OBVIOUS
<1>1. ASSUME NEW t \in Threads, Schedule(t) PROVE TypeOK' /\ CycleInv'
  BY <1>1, TypeSchedule, CycleSchedule
<1>2. ASSUME NEW s \in Sites, UpdateSiteDynamicResource(s) \/ UpdateStaticSiteResourceInfo(s)
      PROVE  TypeOK' /\ CycleInv'
  BY <1>2, TypeOthers
<1>3. CASE UNCHANGED vars
  <2>1. UNCHANGED <<siteVars, callVars, planVars, histVars, apiVars, up, envVars>>
    BY <1>3 DEF vars, callVars
  <2>2. SiteTypes' /\ PlanTypes' /\ HistTypes' /\ EnvTypes'
    BY <2>1, SameTypes DEF TypeOK
  <2> QED  BY <2>1, <2>2 DEF TypeOK, CallTypes, CycleInv, callVars, planVars, apiVars
<1> QED  BY <1>1, <1>2, <1>3 DEF Next, Done

\* The site cache, the calls and the phases keep their types, whatever the
\* threads, the reports and the cluster updates do; a request is only ever
\* worked on by its own thread, and only while it is undecided.
THEOREM TypeCorrect == Spec => []TypeOK
<1>1. Init => TypeOK /\ CycleInv
  BY TypeInit
<1>2. TypeOK /\ CycleInv /\ [Next]_vars => (TypeOK /\ CycleInv)'
  BY TypeNext
<1> QED  BY <1>1, <1>2, PTL DEF Spec
-----------------------------------------------------------------------------
(* The accounting of capacity, for any number of threads. *)

\* The one thing that forgets what was placed is an update that replaces
\* the entry of a site.
NoUpdates == MaxUpdates = 0

\* Deductions and placements agree, the room covers what was declared and
\* what was reported, and nothing is placed on a site before its cluster is
\* known.
AccountInv ==
    \A s \in Sites :
        /\ requested[s] = placed[s]
        /\ Capacity[s] <= room[s] /\ total[s] <= room[s]
        /\ entry[s] = "ready" => allocatable[s] + placed[s] <= room[s]
        /\ entry[s] # "ready" => placed[s] = 0

\* A thread changes neither what the sites are said to have nor the bounds.
LEMMA ScheduleEnv ==
    ASSUME NEW t \in Threads, Schedule(t)
    PROVE  room' = room /\ updates' = updates
BY DEF Schedule, Begin, FilterSite, ScoreSite, PlanSite, Filtered, Scored, Bind, Deduct, NextSite,
       Finish, envVars

\* What a report of site s does.
LEMMA ReportRoom ==
    ASSUME TypeOK, NEW s \in Sites, UpdateSiteDynamicResource(s)
    PROVE  \E v \in Nat :
              /\ total' = [total EXCEPT ![s] = v]
              /\ room'[s] \in Nat /\ v <= room'[s] /\ room[s] <= room'[s]
              /\ \A q \in Sites : q # s => room'[q] = room[q]
<1>1. PICK v \in 0 .. MaxTotal : /\ total' = [total EXCEPT ![s] = v]
                               /\ room' = [room EXCEPT ![s] = Greater(@, v)]
  BY DEF UpdateSiteDynamicResource
<1>2. room \in [Sites -> Nat] /\ v \in Nat
  BY ConstantsAssumption DEF TypeOK, EnvTypes
<1>3. room'[s] = Greater(room[s], v) /\ \A q \in Sites : q # s => room'[q] = room[q]
  BY <1>1, <1>2
<1>4. room[s] \in Nat
  BY <1>2
<1>5. Greater(room[s], v) \in Nat /\ v <= Greater(room[s], v) /\ room[s] <= Greater(room[s], v)
  BY <1>2, <1>4 DEF Greater
<1> QED  BY <1>1, <1>2, <1>3, <1>5

\* What a site was said to have never shrinks.
LEMMA RoomGrows ==
    ASSUME TypeOK, NEW s \in Sites, UpdateSiteDynamicResource(s) \/ UpdateStaticSiteResourceInfo(s)
    PROVE  \A q \in Sites : room[q] <= room'[q]
<1>1. \A q \in Sites : room[q] \in Nat
  BY DEF TypeOK, EnvTypes
<1>2. CASE UpdateSiteDynamicResource(s)
  <2>1. room[s] <= room'[s] /\ \A q \in Sites : q # s => room'[q] = room[q]
    BY <1>2, ReportRoom
  <2> QED  BY <1>1, <2>1
<1>3. CASE UpdateStaticSiteResourceInfo(s)
  BY <1>1, <1>3 DEF UpdateStaticSiteResourceInfo
<1> QED  BY <1>2, <1>3

\* A thread chooses, plans and binds only sites that have a Site.
LEMMA ReadyMine ==
    ASSUME TypeOK, ReadyInv, NEW t \in Threads, Schedule(t)
    PROVE  /\ entry' = entry
           /\ \A s \in fit'[t] : entry[s] = "ready"
           /\ pc'[t] # "filter" => todo'[t] \subseteq fit'[t]
           /\ order'[t] \in Seq(fit'[t])
<1> DEFINE Goal == /\ entry' = entry
                   /\ \A s \in fit'[t] : entry[s] = "ready"
                   /\ pc'[t] # "filter" => todo'[t] \subseteq fit'[t]
                   /\ order'[t] \in Seq(fit'[t])
<1> USE DEF TypeOK, CallTypes, PlanTypes
<1>0. \A S : <<>> \in Seq(S)
  OBVIOUS
<1>a. ASSUME NEW r, NEW v, Call(t, r, v), entry' = entry PROVE Goal
  BY <1>0, <1>a DEF Call, NewCycleState
<1>b. ASSUME Idle(t), entry' = entry PROVE Goal
  BY <1>0, <1>b DEF Idle, NewCycleState
<1>c. /\ \A s \in fit[t] : entry[s] = "ready"
      /\ pc[t] # "filter" => todo[t] \subseteq fit[t]
      /\ order[t] \in Seq(fit[t])
  BY DEF ReadyInv
<1>1. ASSUME NEW r \in Requests, Begin(t, r) PROVE Goal
  BY <1>1, <1>a DEF Begin, siteVars
<1>2. ASSUME NEW s \in Sites, FilterSite(t, s) PROVE Goal
  <2>1. /\ entry' = entry /\ order'[t] = order[t] /\ pc'[t] = "filter"
        /\ fit[t] \subseteq fit'[t]
        /\ fit'[t] \subseteq fit[t] \/ (entry[s] = "ready" /\ fit'[t] \subseteq fit[t] \cup {s})
    BY <1>2 DEF FilterSite, siteVars, planVars
  <2>2. order[t] \in Seq(fit'[t])
    BY <1>c, <2>1
  <2> QED  BY <1>c, <2>1, <2>2
<1>3. ASSUME NEW s \in Sites, ScoreSite(t, s) PROVE Goal
  BY <1>3, <1>c DEF ScoreSite, siteVars
<1>4. ASSUME NEW s \in Sites, PlanSite(t, s) PROVE Goal
  <2>1. /\ entry' = entry /\ fit'[t] = fit[t] /\ todo'[t] = todo[t] \ {s}
        /\ order'[t] = Append(order[t], s) /\ s \in todo[t] /\ pc[t] = "strategy"
    BY <1>4 DEF PlanSite, siteVars
  <2>2. order'[t] \in Seq(fit'[t])
    BY <1>c, <2>1
  <2> QED  BY <1>c, <2>1, <2>2
<1>5. CASE Filtered(t)
  BY <1>5, <1>b, <1>c DEF Filtered, Fail, Return, siteVars, planVars
<1>6. CASE Scored(t)
  BY <1>6, <1>a, <1>b, <1>c DEF Scored, Succeed, Drop, Return, siteVars
<1>7. CASE Bind(t)
  BY <1>7, <1>c DEF Bind, Deduct, InLoop
<1>8. CASE NextSite(t)
  <2>1. /\ entry' = entry /\ fit'[t] = fit[t] /\ todo'[t] = todo[t] /\ pc'[t] = pc[t]
        /\ order'[t] = Tail(order[t]) /\ order[t] # <<>>
    BY <1>8 DEF NextSite, InLoop, siteVars
  <2> QED  BY <1>c, <2>1
<1>9. CASE Finish(t)
  BY <1>9, <1>a, <1>b DEF Finish, Succeed, Fail, Return, siteVars
<1> QED  BY <1>1, <1>2, <1>3, <1>4, <1>5, <1>6, <1>7, <1>8, <1>9 DEF Schedule

\* Only Bind changes a site, and what was placed on it.
LEMMA OnlyBindDeducts ==
    ASSUME NEW t \in Threads, Schedule(t), ~Bind(t)
    PROVE  UNCHANGED <<siteVars, histVars>>
BY DEF Schedule, Begin, FilterSite, ScoreSite, PlanSite, Filtered, Scored, NextSite, Finish

\* What Bind does to the site it deducts from.
LEMMA BindDeducts ==
    ASSUME TypeOK, CycleInv, ReadyInv, NEW t \in Threads, Bind(t)
    PROVE  \E s \in Sites :
             /\ entry[s] = "ready" /\ siteCount[t][s] > 0
             /\ requested' = [requested EXCEPT ![s] = @ + 1]
             /\ allocatable' = [allocatable EXCEPT ![s] = Deducted(s)]
             /\ placed' = [placed EXCEPT ![s] = @ + 1]
             /\ siteCount' = [siteCount EXCEPT ![t][s] = @ - 1]
             /\ UNCHANGED <<entry, total, phase, pc, maxCount>>
<1> DEFINE s == Head(order[t])
<1>1. order[t] \in Seq(fit[t]) /\ order[t] # <<>> /\ fit[t] \subseteq Sites
  BY DEF ReadyInv, TypeOK, CallTypes, Bind, InLoop
<1>2. s \in fit[t]
  BY <1>1
<1>3. s \in Sites /\ entry[s] = "ready"
  BY <1>1, <1>2 DEF ReadyInv
<1>4. siteCount[t][s] > 0 /\ Deduct(t, s)
  BY DEF Bind
<1> HIDE DEF s
<1> QED  BY <1>3, <1>4 DEF Deduct, apiVars

\* Reports and cluster events keep the accounts; an update would not.
LEMMA AccountOthers ==
    ASSUME NoUpdates, TypeOK, AccountInv, NEW s \in Sites,
           UpdateSiteDynamicResource(s) \/ UpdateStaticSiteResourceInfo(s)
    PROVE  AccountInv'
<1>1. Capacity[s] \in Nat
  BY ConstantsAssumption
<1>2. CASE UpdateSiteDynamicResource(s)
  <2>1. PICK v \in Nat : /\ total' = [total EXCEPT ![s] = v]
                        /\ room'[s] \in Nat /\ v <= room'[s] /\ room[s] <= room'[s]
                        /\ \A q \in Sites : q # s => room'[q] = room[q]
    BY <1>2, ReportRoom
  <2>2. /\ entry' = [entry EXCEPT ![s] = IF @ = "absent" THEN "bare" ELSE @]
        /\ UNCHANGED <<allocatable, requested, placed>>
    BY <1>2 DEF UpdateSiteDynamicResource, histVars
  <2> SUFFICES ASSUME NEW q \in Sites
               PROVE  /\ requested'[q] = placed'[q]
                      /\ Capacity[q] <= room'[q] /\ total'[q] <= room'[q]
                      /\ entry'[q] = "ready" => allocatable'[q] + placed'[q] <= room'[q]
                      /\ entry'[q] # "ready" => placed'[q] = 0
    BY DEF AccountInv
  <2>3. CASE q # s
    <3>1. room'[q] = room[q] /\ total'[q] = total[q] /\ entry'[q] = entry[q]
      BY <2>1, <2>2, <2>3 DEF TypeOK, SiteTypes
    <3> QED  BY <2>2, <3>1 DEF AccountInv
  <2>4. CASE q = s
    <3>1. total'[s] = v /\ (entry'[s] = "ready" <=> entry[s] = "ready")
      BY <2>1, <2>2 DEF TypeOK, SiteTypes
    <3>2. /\ Capacity[s] \in Nat /\ allocatable[s] \in Int /\ placed[s] \in Nat
          /\ room[s] \in Nat /\ room'[s] \in Nat
      BY <1>1, <2>1 DEF TypeOK, SiteTypes, HistTypes, EnvTypes
    <3>3. /\ requested[s] = placed[s] /\ Capacity[s] <= room[s]
          /\ entry[s] = "ready" => allocatable[s] + placed[s] <= room[s]
          /\ entry[s] # "ready" => placed[s] = 0
      BY DEF AccountInv
    <3>4. Capacity[s] <= room'[s] /\ total'[s] <= room'[s]
      BY <2>1, <3>1, <3>2, <3>3
    <3>5. ASSUME entry[s] = "ready" PROVE allocatable[s] + placed[s] <= room'[s]
      BY <2>1, <3>2, <3>3, <3>5
    <3> QED  BY <2>2, <2>4, <3>1, <3>3, <3>4, <3>5
  <2> QED  BY <2>3, <2>4
<1>3. CASE UpdateStaticSiteResourceInfo(s)
  <2>1. entry[s] # "ready"
    BY <1>3, ConstantsAssumption DEF UpdateStaticSiteResourceInfo, NoUpdates, TypeOK, EnvTypes
  <2>2. /\ entry' = [entry EXCEPT ![s] = "ready"]
        /\ allocatable' = [allocatable EXCEPT ![s] = Capacity[s]]
        /\ requested' = [requested EXCEPT ![s] = 0]
        /\ total' = [total EXCEPT ![s] = NoTotal]
        /\ placed' = placed /\ room' = room
    BY <1>3 DEF UpdateStaticSiteResourceInfo, histVars
  <2>3. \A q \in Sites : room[q] \in Nat /\ Capacity[q] <= room[q]
    BY DEF AccountInv, TypeOK, EnvTypes
  <2> QED  BY <1>1, <2>1, <2>2, <2>3 DEF AccountInv, TypeOK, SiteTypes, HistTypes, NoTotal
<1> QED  BY <1>2, <1>3

\* A deduction takes at least what was placed.
LEMMA AccountBind ==
    ASSUME TypeOK, CycleInv, ReadyInv, AccountInv, NEW t \in Threads, Bind(t)
    PROVE  AccountInv'
<1>1. PICK s \in Sites :
             /\ entry[s] = "ready"
             /\ requested' = [requested EXCEPT ![s] = @ + 1]
             /\ allocatable' = [allocatable EXCEPT ![s] = Deducted(s)]
             /\ placed' = [placed EXCEPT ![s] = @ + 1]
             /\ UNCHANGED <<entry, total>>
  BY BindDeducts
<1>2. /\ total[s] \in Int /\ allocatable[s] \in Int /\ requested[s] \in Nat /\ placed[s] \in Nat
      /\ room[s] \in Nat
  BY DEF TypeOK, SiteTypes, HistTypes, EnvTypes, NoTotal
<1>3. Deducted(s) + (placed[s] + 1) <= room[s]
  <2>1. /\ requested[s] = placed[s] /\ total[s] <= room[s]
        /\ allocatable[s] + placed[s] <= room[s]
    BY <1>1 DEF AccountInv
  <2> QED  BY <1>2, <2>1 DEF Deducted, Lesser
<1>4. requested'[s] = placed'[s] /\ allocatable'[s] = Deducted(s) /\ placed'[s] = placed[s] + 1
  BY <1>1, <1>2 DEF TypeOK, SiteTypes, HistTypes, AccountInv
<1> SUFFICES ASSUME NEW q \in Sites
             PROVE  /\ requested'[q] = placed'[q]
                    /\ Capacity[q] <= room'[q] /\ total'[q] <= room'[q]
                    /\ entry'[q] = "ready" => allocatable'[q] + placed'[q] <= room'[q]
                    /\ entry'[q] # "ready" => placed'[q] = 0
  BY DEF AccountInv
<1>r. room' = room
  BY ScheduleEnv DEF Schedule
<1>5. CASE q = s
  BY <1>1, <1>3, <1>4, <1>5, <1>r DEF AccountInv
<1>6. CASE q # s
  BY <1>1, <1>6, <1>r DEF AccountInv, TypeOK, SiteTypes, HistTypes
<1> QED  BY <1>5, <1>6

\* A site once known stays known, and the calls hold known sites only.
LEMMA ReadyNext ==
    ASSUME TypeOK, ReadyInv, [Next]_vars
    PROVE  ReadyInv' /\ \A s \in Sites : entry[s] = "ready" => entry'[s] = "ready"
<1>1. ASSUME NEW t \in Threads, Schedule(t)
      PROVE  ReadyInv' /\ entry' = entry
  <2>1. entry' = entry
    BY <1>1, ReadyMine
  <2>2. ASSUME NEW u \in Threads
        PROVE  /\ \A s \in fit'[u] : entry'[s] = "ready"
               /\ pc'[u] # "filter" => todo'[u] \subseteq fit'[u]
               /\ order'[u] \in Seq(fit'[u])
    <3>1. CASE u = t
      BY <1>1, <2>1, <3>1, ReadyMine
    <3>2. CASE u # t
      BY <1>1, <2>1, <3>2, OnlyMine DEF ReadyInv
    <3> QED  BY <3>1, <3>2
  <2> QED  BY <2>1, <2>2 DEF ReadyInv
<1>2. ASSUME NEW s \in Sites, UpdateSiteDynamicResource(s) \/ UpdateStaticSiteResourceInfo(s)
      PROVE  ReadyInv' /\ \A q \in Sites : entry[q] = "ready" => entry'[q] = "ready"
  <2>1. \A q \in Sites : entry[q] = "ready" => entry'[q] = "ready"
    BY <1>2 DEF UpdateSiteDynamicResource, UpdateStaticSiteResourceInfo, TypeOK, SiteTypes
  <2>2. UNCHANGED callVars
    BY <1>2 DEF UpdateSiteDynamicResource, UpdateStaticSiteResourceInfo
  <2>3. \A t \in Threads : fit[t] \subseteq Sites
    BY DEF TypeOK, CallTypes
  <2> QED  BY <2>1, <2>2, <2>3 DEF ReadyInv, callVars, planVars
<1>3. CASE UNCHANGED vars
  BY <1>3 DEF vars, siteVars, callVars, planVars, ReadyInv
<1> QED  BY <1>1, <1>2, <1>3 DEF Next, Done

\* Every step keeps the accounts.
LEMMA AccountNext ==
    ASSUME NoUpdates, TypeOK, CycleInv, ReadyInv, AccountInv, [Next]_vars
    PROVE  ReadyInv' /\ AccountInv'
<1>0. ReadyInv'
  BY ReadyNext
<1>1. ASSUME NEW t \in Threads, Schedule(t) PROVE AccountInv'
  <2>1. CASE Bind(t)
    BY <2>1, AccountBind
  <2>2. CASE ~Bind(t)
    BY <1>1, <2>2, OnlyBindDeducts, ScheduleEnv DEF AccountInv, siteVars, histVars
  <2> QED  BY <2>1, <2>2
<1>2. ASSUME NEW s \in Sites, UpdateSiteDynamicResource(s) \/ UpdateStaticSiteResourceInfo(s)
      PROVE  AccountInv'
  BY <1>2, AccountOthers
<1>3. CASE UNCHANGED vars
  BY <1>0, <1>3 DEF vars, siteVars, histVars, envVars, AccountInv
<1> QED  BY <1>0, <1>1, <1>2, <1>3 DEF Next, Done

\* The accounts are right initially.
LEMMA AccountInit == Init => ReadyInv /\ AccountInv
<1> SUFFICES ASSUME Init PROVE ReadyInv /\ AccountInv
  OBVIOUS
<1>1. ReadyInv
  <2>1. <<>> \in Seq({})
    OBVIOUS
  <2> QED  BY <2>1 DEF Init, ReadyInv
<1>2. AccountInv
  BY ConstantsAssumption DEF Init, AccountInv, Zero, NoTotal
<1> QED  BY <1>1, <1>2

\* For any number of threads: unless an update replaces the entry of a
\* site, what it offers and what was placed on it never exceed the most the
\* site was declared or reported to have, through every deduction and report.
THEOREM CapacityIsAccounted ==
    ASSUME NoUpdates
    PROVE  Spec => []CapacityAccounted
<1> DEFINE Inv == TypeOK /\ CycleInv /\ ReadyInv /\ AccountInv
<1>1. Init => Inv
  BY TypeInit, AccountInit
<1>2. Inv /\ [Next]_vars => Inv'
  BY NoUpdates, TypeNext, AccountNext
<1>3. Inv => CapacityAccounted
  BY DEF AccountInv, CapacityAccounted
<1> QED  BY <1>1, <1>2, <1>3, PTL DEF Spec
-----------------------------------------------------------------------------
(* One thread: no overcommitment, and the ledger. *)

OneThreadOnly == \A t, u \in Threads : t = u

\* What the call has seen and planned still fits: the strengthening that
\* bridges the steps between the filter and the deduction.  Another thread's
\* deduction would break it.
PlanInv ==
    \A s \in Sites :
        /\ placed[s] <= room[s]
        /\ \A t \in Threads : /\ siteCount[t][s] + placed[s] <= room[s]
                              /\ pc[t] # "bind" => maxCount[t][s] + placed[s] <= room[s]

\* A new cycle state plans nothing.
LEMMA PlanFresh ==
    ASSUME TypeOK, PlanInv, NEW t \in Threads, NewCycleState(t), placed' = placed, NEW s \in Sites
    PROVE  /\ siteCount'[t][s] + placed'[s] <= room[s]
           /\ maxCount'[t][s] + placed'[s] <= room[s]
<1>1. siteCount'[t][s] = 0 /\ maxCount'[t][s] = 0
  BY DEF NewCycleState, Zero, TypeOK, PlanTypes
<1>2. placed[s] \in Nat /\ placed[s] <= room[s] /\ room[s] \in Nat
  BY DEF PlanInv, TypeOK, HistTypes, EnvTypes
<1> QED  BY <1>1, <1>2

\* What a thread has seen and planned fits after each of its own steps.
LEMMA PlanMine ==
    ASSUME TypeOK, CycleInv, ReadyInv, AccountInv, PlanInv, NEW t \in Threads, Schedule(t), NEW q \in Sites
    PROVE  /\ siteCount'[t][q] + placed'[q] <= room[q]
           /\ pc'[t] # "bind" => maxCount'[t][q] + placed'[q] <= room[q]
<1> DEFINE Goal == /\ siteCount'[t][q] + placed'[q] <= room[q]
                   /\ pc'[t] # "bind" => maxCount'[t][q] + placed'[q] <= room[q]
<1>a. ASSUME NewCycleState(t), placed' = placed PROVE Goal
  BY <1>a, PlanFresh
<1>b. /\ siteCount[t][q] + placed[q] <= room[q]
      /\ pc[t] # "bind" => maxCount[t][q] + placed[q] <= room[q]
      /\ placed[q] <= room[q]
  BY DEF PlanInv
<1>c. /\ siteCount[t][q] \in Nat /\ maxCount[t][q] \in Nat
      /\ placed[q] \in Nat /\ room[q] \in Nat /\ allocatable[q] \in Int
  BY DEF TypeOK, PlanTypes, HistTypes, SiteTypes, EnvTypes
<1>1. ASSUME NEW r \in Requests, Begin(t, r) PROVE Goal
  BY <1>1, <1>a DEF Begin, Call, histVars
<1>2. ASSUME NEW s \in Sites, FilterSite(t, s) PROVE Goal
  BY <1>2, <1>b DEF FilterSite, planVars, histVars
<1>3. ASSUME NEW s \in Sites, ScoreSite(t, s) PROVE Goal
  <2> DEFINE most == IF allocatable[s] >= 1 THEN allocatable[s] ELSE 0
  <2>1. /\ pc[t] = "score" /\ s \in todo[t] /\ placed' = placed /\ siteCount' = siteCount
        /\ maxCount' = [maxCount EXCEPT ![t][s] = most]
    BY <1>3 DEF ScoreSite, histVars
  <2>2. entry[s] = "ready"
    BY <2>1 DEF ReadyInv
  <2>3. allocatable[s] + placed[s] <= room[s]
    BY <2>2 DEF AccountInv
  <2>4. CASE q = s
    <3>1. maxCount'[t][q] = most
      BY <2>1, <2>4 DEF TypeOK, PlanTypes
    <3> QED  BY <1>b, <1>c, <2>1, <2>3, <2>4, <3>1
  <2>5. CASE q # s
    <3>1. maxCount'[t][q] = maxCount[t][q]
      BY <2>1, <2>5 DEF TypeOK, PlanTypes
    <3> QED  BY <1>b, <2>1, <3>1
  <2> QED  BY <2>4, <2>5
<1>4. ASSUME NEW s \in Sites, PlanSite(t, s) PROVE Goal
  <2> DEFINE n == StackCount(req[t], maxCount[t][s], sum[t], left[t])
  <2>1. /\ pc[t] = "strategy" /\ placed' = placed /\ maxCount' = maxCount
        /\ siteCount' = [siteCount EXCEPT ![t][s] = n]
    BY <1>4 DEF PlanSite, histVars
  <2>2. n \in Nat /\ n <= maxCount[t][s]
    <3>1. req[t] \in Requests /\ maxCount[t][s] \in Nat /\ sum[t] \in Nat /\ left[t] \in Int
      BY <2>1 DEF TypeOK, PlanTypes, CycleInv
    <3>2. sum[t] > 0 /\ left[t] > 0
      BY <2>1 DEF CycleInv
    <3> QED  BY <3>1, <3>2, StackCountBounds
  <2> HIDE DEF n
  <2>3. CASE q = s
    <3>1. siteCount'[t][q] = n
      BY <2>1, <2>3 DEF TypeOK, PlanTypes
    <3> QED  BY <1>b, <1>c, <2>1, <2>2, <2>3, <3>1
  <2>4. CASE q # s
    <3>1. siteCount'[t][q] = siteCount[t][q]
      BY <2>1, <2>4 DEF TypeOK, PlanTypes
    <3> QED  BY <1>b, <2>1, <3>1
  <2> QED  BY <2>3, <2>4
<1>5. CASE Filtered(t)
  BY <1>5, <1>a, <1>b DEF Filtered, Fail, Return, Idle, planVars, histVars
<1>6. CASE Scored(t)
  BY <1>6, <1>a, <1>b DEF Scored, Succeed, Drop, Call, Return, Idle, histVars
<1>7. CASE Bind(t)
  <2>1. PICK s \in Sites : /\ placed' = [placed EXCEPT ![s] = @ + 1]
                           /\ siteCount' = [siteCount EXCEPT ![t][s] = @ - 1]
                           /\ UNCHANGED pc
    BY <1>7, BindDeducts
  <2>2. siteCount'[t][q] + placed'[q] = siteCount[t][q] + placed[q]
    BY <1>c, <2>1 DEF TypeOK, PlanTypes, HistTypes
  <2>3. pc'[t] = "bind"
    BY <1>7, <2>1 DEF Bind, InLoop
  <2> QED  BY <1>b, <2>2, <2>3
<1>8. CASE NextSite(t)
  BY <1>8, <1>b DEF NextSite, histVars
<1>9. CASE Finish(t)
  BY <1>9, <1>a DEF Finish, Succeed, Fail, Call, Return, Idle, histVars
<1> QED  BY <1>1, <1>2, <1>3, <1>4, <1>5, <1>6, <1>7, <1>8, <1>9 DEF Schedule

\* With no other thread, it fits after every step.
LEMMA PlanNext ==
    ASSUME OneThreadOnly, TypeOK, CycleInv, ReadyInv, AccountInv, PlanInv, [Next]_vars
    PROVE  PlanInv'
<1>1. ASSUME NEW t \in Threads, Schedule(t), TypeOK' PROVE PlanInv'
  <2>0. room' = room
    BY <1>1, ScheduleEnv
  <2> SUFFICES ASSUME NEW q \in Sites
               PROVE  /\ placed'[q] <= room[q]
                      /\ \A u \in Threads :
                            /\ siteCount'[u][q] + placed'[q] <= room[q]
                            /\ pc'[u] # "bind" => maxCount'[u][q] + placed'[q] <= room[q]
    BY <2>0 DEF PlanInv
  <2>1. /\ siteCount'[t][q] + placed'[q] <= room[q]
        /\ pc'[t] # "bind" => maxCount'[t][q] + placed'[q] <= room[q]
    BY <1>1, PlanMine
  <2>2. siteCount'[t][q] \in Nat /\ placed'[q] \in Nat /\ room[q] \in Nat
    BY <1>1 DEF TypeOK, PlanTypes, HistTypes, EnvTypes
  <2>3. placed'[q] <= room[q]
    BY <2>1, <2>2
  <2> QED  BY <2>1, <2>3 DEF OneThreadOnly
<1>2. ASSUME UNCHANGED <<callVars, histVars>>, TypeOK', \A q \in Sites : room[q] <= room'[q]
      PROVE  PlanInv'
  <2> SUFFICES ASSUME NEW q \in Sites, NEW u \in Threads
               PROVE  /\ placed[q] <= room'[q]
                      /\ siteCount[u][q] + placed[q] <= room'[q]
                      /\ pc[u] # "bind" => maxCount[u][q] + placed[q] <= room'[q]
    <3>1. UNCHANGED <<placed, siteCount, maxCount, pc>>
      BY <1>2 DEF callVars, planVars, histVars
    <3>2. CASE Threads = {}
      <4>1. \A q \in Sites : /\ placed[q] \in Nat /\ room[q] \in Nat /\ room'[q] \in Nat
                            /\ placed[q] <= room[q]
        BY <1>2 DEF TypeOK, HistTypes, EnvTypes, PlanInv
      <4>2. \A q \in Sites : placed[q] <= room'[q]
        BY <1>2, <4>1
      <4> QED  BY <3>1, <3>2, <4>2 DEF PlanInv
    <3>3. CASE Threads # {}
      BY <3>1, <3>3 DEF PlanInv
    <3> QED  BY <3>2, <3>3
  <2>1. /\ placed[q] \in Nat /\ siteCount[u][q] \in Nat /\ maxCount[u][q] \in Nat
        /\ room[q] \in Nat /\ room'[q] \in Nat
    BY <1>2 DEF TypeOK, HistTypes, PlanTypes, EnvTypes
  <2>2. /\ placed[q] <= room[q] /\ siteCount[u][q] + placed[q] <= room[q]
        /\ pc[u] # "bind" => maxCount[u][q] + placed[q] <= room[q]
    BY DEF PlanInv
  <2> QED  BY <1>2, <2>1, <2>2
<1>3. TypeOK'
  BY TypeNext
<1>4. ASSUME NEW s \in Sites, UpdateSiteDynamicResource(s) \/ UpdateStaticSiteResourceInfo(s)
      PROVE  UNCHANGED <<callVars, histVars>> /\ \A q \in Sites : room[q] <= room'[q]
  BY <1>4, RoomGrows DEF UpdateSiteDynamicResource, UpdateStaticSiteResourceInfo
<1>5. UNCHANGED vars => UNCHANGED <<callVars, histVars>> /\ room' = room
  BY DEF vars, envVars
<1>6. room' = room => \A q \in Sites : room[q] <= room'[q]
  BY DEF TypeOK, EnvTypes
<1> QED  BY <1>1, <1>2, <1>3, <1>4, <1>5, <1>6 DEF Next, Done

\* Initially nothing is planned.
LEMMA PlanInit == Init => PlanInv
BY ConstantsAssumption DEF Init, PlanInv, Zero

\* The invariant of a single scheduling thread.
SchedulerInv == TypeOK /\ CycleInv /\ ReadyInv /\ AccountInv /\ PlanInv

\* The invariant is inductive.
LEMMA SchedulerInvariant ==
    ASSUME NoUpdates, OneThreadOnly
    PROVE  Spec => []SchedulerInv
<1>1. Init => SchedulerInv
  BY TypeInit, AccountInit, PlanInit DEF SchedulerInv
<1>2. SchedulerInv /\ [Next]_vars => SchedulerInv'
  BY NoUpdates, OneThreadOnly, TypeNext, AccountNext, PlanNext DEF SchedulerInv
<1> QED  BY <1>1, <1>2, PTL DEF Spec

\* One thread never places more stacks on a site than the site was ever said
\* to have, however long ago it filtered and whatever is reported meanwhile,
\* as long as no update replaces the entry of a site.
THEOREM NothingOvercommitted ==
    ASSUME NoUpdates, OneThreadOnly
    PROVE  Spec => []NoOvercommit
<1>1. SchedulerInv => NoOvercommit
  BY DEF SchedulerInv, PlanInv, NoOvercommit
<1> QED  BY <1>1, SchedulerInvariant, PTL

\* Each step of a single scheduling thread is a step of the ledger or
\* leaves it alone.
LEMMA LedgerStep ==
    ASSUME SchedulerInv, SchedulerInv', [Next]_vars
    PROVE  [Ledger!Next]_<<room, [s \in Sites |-> room[s] - placed[s]], phase>>
<1> DEFINE free == [s \in Sites |-> room[s] - placed[s]]
<1>1. ASSUME NEW t \in Threads, Schedule(t)
      PROVE  Ledger!Next \/ UNCHANGED <<room, free, phase>>
  <2>0. room' = room
    BY <1>1, ScheduleEnv
  <2>1. CASE Bind(t)
    <3>1. PICK s \in Sites : /\ siteCount[t][s] > 0
                             /\ placed' = [placed EXCEPT ![s] = @ + 1]
                             /\ UNCHANGED phase
      BY <2>1, BindDeducts DEF SchedulerInv
    <3>2. /\ siteCount[t][s] \in Nat /\ placed[s] \in Nat /\ room[s] \in Nat
          /\ siteCount[t][s] + placed[s] <= room[s]
      BY DEF SchedulerInv, TypeOK, PlanTypes, HistTypes, EnvTypes, PlanInv
    <3>3. free[s] > 0
      BY <3>1, <3>2
    <3>4. free' = [free EXCEPT ![s] = @ - 1]
      <4>1. ASSUME NEW q \in Sites
            PROVE  room[q] - placed'[q] = IF q = s THEN free[s] - 1 ELSE free[q]
        <5>1. placed[q] \in Nat /\ room[q] \in Nat
          BY DEF SchedulerInv, TypeOK, HistTypes, EnvTypes
        <5>2. placed'[q] = IF q = s THEN placed[q] + 1 ELSE placed[q]
          BY <3>1 DEF SchedulerInv, TypeOK, HistTypes
        <5> QED  BY <5>1, <5>2
      <4>2. free' = [q \in Sites |-> room[q] - placed'[q]]
        BY <2>0
      <4>3. free \in [Sites -> Int] /\ DOMAIN free = Sites
        BY DEF SchedulerInv, TypeOK, HistTypes, EnvTypes
      <4> HIDE DEF free
      <4> QED  BY <4>1, <4>2, <4>3
    <3>5. Ledger!Take(s)
      BY <2>0, <3>1, <3>3, <3>4 DEF Ledger!Take
    <3> QED  BY <3>5 DEF Ledger!Next
  <2>2. CASE ~Bind(t)
    <3>1. placed' = placed
      BY <1>1, <2>2, OnlyBindDeducts DEF histVars
    <3>2. UNCHANGED <<room, free>>
      BY <2>0, <3>1
    <3>3. CASE UNCHANGED phase
      BY <3>2, <3>3
    <3>4. CASE pc[t] # "idle" /\ \E p \in {"Bound", "NotScheduled"} : phase' = [phase EXCEPT ![req[t]] = p]
      <4>1. req[t] \in Requests /\ phase[req[t]] = "Assigned"
        BY <3>4 DEF SchedulerInv, CycleInv
      <4>2. Ledger!Decide(req[t])
        BY <3>2, <3>4, <4>1 DEF Ledger!Decide
      <4> QED  BY <4>1, <4>2 DEF Ledger!Next
    <3> QED  BY <1>1, <3>3, <3>4, PhaseChange DEF SchedulerInv
  <2> QED  BY <2>1, <2>2
<1>2. ASSUME NEW s \in Sites, UpdateSiteDynamicResource(s)
      PROVE  Ledger!Next \/ UNCHANGED <<room, free, phase>>
  <2>1. placed' = placed /\ phase' = phase
    BY <1>2 DEF UpdateSiteDynamicResource, histVars, apiVars
  <2>2. /\ room'[s] \in Nat /\ room[s] <= room'[s] /\ room \in [Sites -> Nat]
        /\ room' \in [Sites -> Nat] /\ \A q \in Sites : q # s => room'[q] = room[q]
    BY <1>2, ReportRoom DEF SchedulerInv, TypeOK, EnvTypes
  <2>3. CASE room'[s] = room[s]
    <3>1. room' = room
      BY <2>2, <2>3
    <3> QED  BY <2>1, <3>1
  <2>4. CASE room'[s] # room[s]
    <3>1. room'[s] > room[s]
      BY <2>2, <2>4
    <3>2. room' = [room EXCEPT ![s] = room'[s]]
      BY <2>2
    <3>3. free' = [free EXCEPT ![s] = @ + (room'[s] - room[s])]
      <4>1. ASSUME NEW q \in Sites
            PROVE  room'[q] - placed[q] = IF q = s THEN free[s] + (room'[s] - room[s]) ELSE free[q]
        <5>1. placed[q] \in Nat /\ room[q] \in Nat /\ room'[q] \in Nat
          BY <2>2 DEF SchedulerInv, TypeOK, HistTypes
        <5> QED  BY <2>2, <5>1
      <4>2. free' = [q \in Sites |-> room'[q] - placed[q]]
        BY <2>1
      <4>3. free \in [Sites -> Int] /\ DOMAIN free = Sites
        BY DEF SchedulerInv, TypeOK, HistTypes, EnvTypes
      <4> HIDE DEF free
      <4> QED  BY <4>1, <4>2, <4>3
    <3>4. Ledger!Grow(s)
      BY <2>1, <3>1, <3>2, <3>3 DEF Ledger!Grow
    <3> QED  BY <3>4 DEF Ledger!Next
  <2> QED  BY <2>3, <2>4
<1>3. ASSUME NEW s \in Sites, UpdateStaticSiteResourceInfo(s)
      PROVE  UNCHANGED <<room, free, phase>>
  BY <1>3 DEF UpdateStaticSiteResourceInfo, histVars, apiVars
<1>4. CASE UNCHANGED vars
  BY <1>4 DEF vars, histVars, apiVars, envVars
<1> QED  BY <1>1, <1>2, <1>3, <1>4 DEF Next, Done

\* One thread that schedules implements CapacityLedger: filtering, scoring,
\* planning and binding over a cache that reports change meanwhile look like
\* placements that each find room, like sites said to have more, and like
\* decisions taken once.
THEOREM SchedulerImplementsLedger ==
    ASSUME NoUpdates, OneThreadOnly
    PROVE  Spec => LedgerSpec
<1>1. Init => Ledger!Init
  <2> SUFFICES ASSUME Init PROVE Ledger!Init
    OBVIOUS
  <2>1. [s \in Sites |-> room[s] - placed[s]] = Capacity
    BY ConstantsAssumption DEF Init, Zero
  <2> QED  BY <2>1 DEF Init, Ledger!Init
<1>2. SchedulerInv /\ SchedulerInv' /\ [Next]_vars
        => [Ledger!Next]_<<room, [s \in Sites |-> room[s] - placed[s]], phase>>
  BY LedgerStep
<1> QED  BY <1>1, <1>2, SchedulerInvariant, PTL DEF Spec, LedgerSpec, Ledger!Spec
-----------------------------------------------------------------------------
(* Binding is all or nothing, for any number of threads and updates. *)

Working(r) == pc[ThreadOf[r]] # "idle" /\ req[ThreadOf[r]] = r

\* The stacks of the call in progress for r.
Current(r) == IF Working(r) THEN count[ThreadOf[r]] ELSE 0

\* What a request has is whole VMs and the stacks of the call in progress,
\* of which there are none before the binding and never too many.
WholeInv ==
    /\ \A t \in Threads : /\ pc[t] # "bind" => count[t] = 0
                          /\ pc[t] = "bind" => count[t] <= Replicas[req[t]]
    /\ \A r \in Requests : phase[r] # "NotScheduled" =>
           \E k \in Nat : got[r] = k * Replicas[r] + Current(r)

\* Adding the last stack of a VM makes one more whole VM.
LEMMA OneMoreVM ==
    ASSUME NEW n \in Nat \ {0}, NEW k \in Nat
    PROVE  (k + 1) * n = k * n + n /\ k * n \in Nat /\ (k * n) % n = 0
  OBVIOUS

\* How a thread's step changes what its request has and where its call is.
LEMMA WholeMine ==
    ASSUME TypeOK, CycleInv, WholeInv, NEW t \in Threads, Schedule(t)
    PROVE  /\ pc'[t] # "bind" => count'[t] = 0
           /\ pc'[t] = "bind" => count'[t] <= Replicas[req'[t]]
           /\ \A r \in Requests : ThreadOf[r] = t /\ phase'[r] # "NotScheduled" =>
                 \E k \in Nat : got'[r] = k * Replicas[r] +
                     (IF pc'[t] # "idle" /\ req'[t] = r THEN count'[t] ELSE 0)
<1> DEFINE Bounded == /\ pc'[t] # "bind" => count'[t] = 0
                      /\ pc'[t] = "bind" => count'[t] <= Replicas[req'[t]]
           Own(r) == IF pc[t] # "idle" /\ req[t] = r THEN count[t] ELSE 0
           OwnThen(r) == IF pc'[t] # "idle" /\ req'[t] = r THEN count'[t] ELSE 0
           Whole == \A r \in Requests : ThreadOf[r] = t /\ phase'[r] # "NotScheduled" =>
                       \E k \in Nat : got'[r] = k * Replicas[r] + OwnThen(r)
           Goal == Bounded /\ Whole
<1>0. /\ pc[t] # "bind" => count[t] = 0
      /\ pc[t] = "bind" => count[t] <= Replicas[req[t]]
      /\ \A r \in Requests : ThreadOf[r] = t /\ phase[r] # "NotScheduled" =>
            \E k \in Nat : got[r] = k * Replicas[r] + Own(r)
  BY DEF WholeInv, Current, Working
<1>c. pc[t] # "idle" => /\ req[t] \in Requests /\ ThreadOf[req[t]] = t
                        /\ phase[req[t]] = "Assigned" /\ Replicas[req[t]] \in Nat \ {0}
  BY ConstantsAssumption DEF CycleInv
<1>t. count[t] \in Nat /\ got \in [Requests -> Nat] /\ count \in [Threads -> Nat]
  BY DEF TypeOK, PlanTypes, HistTypes
<1>p. phase \in [Requests -> {"Assigned", "Bound", "NotScheduled"}]
  BY DEF TypeOK
<1> USE DEF TypeOK, CallTypes, PlanTypes, apiVars
<1>1. ASSUME UNCHANGED <<got, phase>>, pc[t] # "idle", pc'[t] # "idle", pc[t] # "bind",
             req'[t] = req[t], count'[t] = count[t]
      PROVE  Goal
  <2>1. Bounded
    BY <1>0, <1>1, <1>c
  <2>2. \A r \in Requests : OwnThen(r) = Own(r)
    BY <1>1
  <2> QED  BY <1>0, <1>1, <2>1, <2>2
<1>2. ASSUME NEW r \in Requests, Begin(t, r) PROVE Goal
  <2>1. /\ pc[t] = "idle" /\ pc'[t] = "filter" /\ count'[t] = 0
        /\ UNCHANGED <<got, phase>>
    BY <1>2 DEF Begin, Call, NewCycleState, histVars
  <2>2. \A q \in Requests : OwnThen(q) = 0 /\ Own(q) = 0
    BY <2>1
  <2>3. Bounded
    BY <2>1
  <2> QED  BY <1>0, <2>1, <2>2, <2>3
<1>3. ASSUME NEW s \in Sites, FilterSite(t, s) \/ ScoreSite(t, s) \/ PlanSite(t, s)
      PROVE  Goal
  BY <1>1, <1>3 DEF FilterSite, ScoreSite, PlanSite, planVars, histVars
<1>4. ASSUME Fail(t), pc[t] # "idle", got' = got PROVE Goal
  <2>1. /\ pc'[t] = "idle" /\ count'[t] = 0
        /\ phase' = [phase EXCEPT ![req[t]] = "NotScheduled"]
    BY <1>4 DEF Fail, Return, Idle, NewCycleState
  <2>2. Bounded
    BY <2>1
  <2>3. ASSUME NEW r \in Requests, ThreadOf[r] = t, phase'[r] # "NotScheduled"
        PROVE  r # req[t] /\ phase'[r] = phase[r]
    BY <1>4, <1>c, <1>p, <2>1, <2>3
  <2>4. Whole
    BY <1>0, <1>4, <2>1, <2>3
  <2> QED  BY <2>2, <2>4
<1>5. ASSUME Succeed(t), pc[t] # "idle", got' = got,
             count[t] = 0 \/ count[t] = Replicas[req[t]]
      PROVE  Goal
  <2>1. /\ pc'[t] # "bind" /\ count'[t] = 0
        /\ phase' = phase \/ phase' = [phase EXCEPT ![req[t]] = "Bound"]
    BY <1>5 DEF Succeed, Call, Return, Idle, NewCycleState
  <2>2. Bounded
    BY <2>1
  <2>3. ASSUME NEW r \in Requests, ThreadOf[r] = t, phase'[r] # "NotScheduled"
        PROVE  \E k \in Nat : got'[r] = k * Replicas[r] + OwnThen(r)
    <3>1. OwnThen(r) = 0 /\ phase[r] # "NotScheduled"
      BY <1>c, <1>p, <1>5, <2>1, <2>3
    <3>2. PICK k \in Nat : got[r] = k * Replicas[r] + Own(r)
      BY <1>0, <2>3, <3>1
    <3>3. Replicas[r] \in Nat \ {0}
      BY ConstantsAssumption
    <3>4. Own(r) = 0 \/ Own(r) = Replicas[r]
      BY <1>5
    <3>5. got[r] = k * Replicas[r] \/ got[r] = (k + 1) * Replicas[r]
      <4> DEFINE m == k * Replicas[r]
      <4>1. m \in Nat /\ (k + 1) * Replicas[r] = m + Replicas[r]
        BY <3>3, OneMoreVM
      <4>2. got[r] = m + Own(r)
        BY <3>2
      <4> HIDE DEF m, Own
      <4>3. got[r] = m \/ got[r] = m + Replicas[r]
        BY <3>3, <3>4, <4>1, <4>2
      <4> QED  BY <4>1, <4>3 DEF m
    <3>6. k * Replicas[r] \in Nat /\ (k + 1) * Replicas[r] \in Nat
      BY <3>3, OneMoreVM
    <3> QED  BY <1>5, <3>1, <3>5, <3>6
  <2> QED  BY <2>2, <2>3
<1>6. CASE Filtered(t)
  <2>1. pc[t] = "filter" /\ got' = got
    BY <1>6 DEF Filtered, histVars
  <2>2. CASE Fail(t)
    BY <1>4, <2>1, <2>2
  <2>3. CASE ~Fail(t)
    BY <1>1, <1>6, <2>1, <2>3 DEF Filtered, planVars
  <2> QED  BY <2>2, <2>3
<1>7. CASE Scored(t)
  <2>1. pc[t] = "score" /\ got' = got
    BY <1>7 DEF Scored, histVars
  <2>2. CASE Succeed(t)
    BY <1>0, <1>5, <2>1, <2>2
  <2>3. CASE Drop(t)
    <3>1. pc'[t] = "idle" /\ count'[t] = 0 /\ phase' = phase /\ count[t] = 0
      BY <1>0, <2>1, <2>3 DEF Drop, Idle, NewCycleState
    <3>2. Bounded
      BY <3>1
    <3>3. \A r \in Requests : OwnThen(r) = 0 /\ Own(r) = 0
      BY <3>1
    <3> QED  BY <1>0, <2>1, <3>1, <3>2, <3>3
  <2>4. CASE ~Succeed(t) /\ ~Drop(t)
    BY <1>1, <1>7, <2>1, <2>4 DEF Scored
  <2> QED  BY <2>2, <2>3, <2>4
<1>8. CASE Bind(t)
  <2>1. /\ pc[t] = "bind" /\ count[t] < Replicas[req[t]]
        /\ count' = [count EXCEPT ![t] = @ + 1]
        /\ got' = [got EXCEPT ![req[t]] = @ + 1]
        /\ UNCHANGED <<pc, req, phase>>
    BY <1>8 DEF Bind, InLoop, Deduct
  <2>2. Bounded
    BY <1>c, <1>t, <2>1
  <2>3. ASSUME NEW r \in Requests, ThreadOf[r] = t, phase'[r] # "NotScheduled"
        PROVE  \E k \in Nat : got'[r] = k * Replicas[r] + OwnThen(r)
    <3>1. PICK k \in Nat : got[r] = k * Replicas[r] + Own(r)
      BY <1>0, <2>1, <2>3
    <3>2. k * Replicas[r] \in Nat
      BY ConstantsAssumption, OneMoreVM
    <3>3. CASE r = req[t]
      <4>1. got'[r] = got[r] + 1 /\ OwnThen(r) = count[t] + 1 /\ Own(r) = count[t]
        BY <1>c, <1>t, <2>1, <3>3
      <4> DEFINE m == k * Replicas[r]
      <4>2. m \in Nat /\ got[r] = m + Own(r)
        BY <3>1, <3>2
      <4> HIDE DEF m, Own, OwnThen
      <4>3. got'[r] = m + OwnThen(r)
        BY <1>t, <4>1, <4>2
      <4> QED  BY <4>3 DEF m
    <3>4. CASE r # req[t]
      <4>1. got'[r] = got[r] /\ OwnThen(r) = 0 /\ Own(r) = 0
        BY <1>t, <2>1, <3>4
      <4> QED  BY <3>1, <4>1
    <3> QED  BY <3>3, <3>4
  <2> QED  BY <2>2, <2>3
<1>9. CASE NextSite(t)
  <2>1. /\ pc[t] = "bind" /\ UNCHANGED <<got, phase, pc, req, count>>
    BY <1>9 DEF NextSite, InLoop, histVars
  <2>2. Bounded /\ \A r \in Requests : OwnThen(r) = Own(r)
    BY <1>0, <2>1
  <2> QED  BY <1>0, <2>1, <2>2
<1>10. CASE Finish(t)
  <2>1. pc[t] = "bind" /\ got' = got
    BY <1>10 DEF Finish, histVars
  <2>2. CASE Fail(t)
    BY <1>4, <2>1, <2>2
  <2>3. CASE count[t] >= Replicas[req[t]] /\ Succeed(t)
    <3>1. count[t] = Replicas[req[t]]
      BY <1>0, <1>c, <1>t, <2>1, <2>3
    <3> QED  BY <1>5, <2>1, <2>3, <3>1
  <2> QED  BY <1>10, <2>2, <2>3 DEF Finish
<1> QED  BY <1>2, <1>3, <1>6, <1>7, <1>8, <1>9, <1>10 DEF Schedule

\* The requests of the other threads keep what they have.
LEMMA WholeNext ==
    ASSUME TypeOK, CycleInv, WholeInv, [Next]_vars
    PROVE  WholeInv'
<1>1. ASSUME NEW t \in Threads, Schedule(t) PROVE WholeInv'
  <2>1. ASSUME NEW u \in Threads
        PROVE  /\ pc'[u] # "bind" => count'[u] = 0
               /\ pc'[u] = "bind" => count'[u] <= Replicas[req'[u]]
    <3>1. CASE u = t
      BY <1>1, <3>1, WholeMine
    <3>2. CASE u # t
      BY <1>1, <3>2, OnlyMine DEF WholeInv
    <3> QED  BY <3>1, <3>2
  <2>2. ASSUME NEW r \in Requests, phase'[r] # "NotScheduled"
        PROVE  \E k \in Nat : got'[r] = k * Replicas[r] +
                  (IF pc'[ThreadOf[r]] # "idle" /\ req'[ThreadOf[r]] = r
                   THEN count'[ThreadOf[r]] ELSE 0)
    <3>1. CASE ThreadOf[r] = t
      BY <1>1, <2>2, <3>1, WholeMine
    <3>2. CASE ThreadOf[r] # t
      <4>1. ThreadOf[r] \in Threads
        BY ConstantsAssumption
      <4>2. /\ pc'[ThreadOf[r]] = pc[ThreadOf[r]] /\ req'[ThreadOf[r]] = req[ThreadOf[r]]
            /\ count'[ThreadOf[r]] = count[ThreadOf[r]]
        BY <1>1, <3>2, <4>1, OnlyMine
      <4>3. phase'[r] = phase[r]
        <5>1. pc[t] # "idle" => r # req[t]
          BY <3>2 DEF CycleInv
        <5> QED  BY <1>1, <5>1, PhaseChange DEF TypeOK
      <4>4. got'[r] = got[r]
        <5>1. CASE Bind(t)
          <6>1. got' = [got EXCEPT ![req[t]] = @ + 1] /\ pc[t] = "bind"
            BY <5>1 DEF Bind, Deduct, InLoop
          <6>2. r # req[t]
            BY <3>2, <6>1 DEF CycleInv
          <6> QED  BY <6>1, <6>2 DEF TypeOK, HistTypes
        <5>2. CASE ~Bind(t)
          BY <1>1, <5>2, OnlyBindDeducts DEF histVars
        <5> QED  BY <5>1, <5>2
      <4> QED  BY <2>2, <4>2, <4>3, <4>4 DEF WholeInv, Current, Working
    <3> QED  BY <3>1, <3>2
  <2> QED  BY <2>1, <2>2 DEF WholeInv, Current, Working
<1>2. ASSUME UNCHANGED <<callVars, histVars, phase>> PROVE WholeInv'
  BY <1>2 DEF WholeInv, Current, Working, callVars, planVars, histVars
<1>3. ASSUME NEW s \in Sites, UpdateSiteDynamicResource(s) \/ UpdateStaticSiteResourceInfo(s)
      PROVE  UNCHANGED <<callVars, histVars, phase>>
  BY <1>3 DEF UpdateSiteDynamicResource, UpdateStaticSiteResourceInfo, apiVars
<1> QED  BY <1>1, <1>2, <1>3 DEF Next, Done, vars, apiVars

\* Whatever competes for the sites and whatever is reported or updated, a
\* request that is Bound has all the replicas, or none, of each of its VMs.
THEOREM BoundIsWhole == Spec => []WholeReplicas
<1> DEFINE Inv == TypeOK /\ CycleInv /\ WholeInv
<1>1. Init => WholeInv
  <2> SUFFICES ASSUME Init PROVE WholeInv
    OBVIOUS
  <2>1. /\ \A t \in Threads : pc[t] = "idle" /\ count[t] = 0
        /\ \A r \in Requests : got[r] = 0
    BY DEF Init
  <2>2. ASSUME NEW r \in Requests PROVE got[r] = 0 * Replicas[r] + Current(r)
    <3>1. Current(r) = 0
      BY <2>1, ConstantsAssumption DEF Current, Working
    <3>2. Replicas[r] \in Nat
      BY ConstantsAssumption
    <3> QED  BY <2>1, <3>1, <3>2
  <2> QED  BY <2>1, <2>2 DEF WholeInv
<1>2. Inv /\ [Next]_vars => Inv'
  BY TypeNext, WholeNext
<1>3. Inv => WholeReplicas
  <2> SUFFICES ASSUME Inv, NEW r \in Requests, phase[r] = "Bound"
               PROVE  got[r] % Replicas[r] = 0
    BY DEF WholeReplicas
  <2>1. ThreadOf[r] \in Threads /\ Replicas[r] \in Nat \ {0}
    BY ConstantsAssumption
  <2>2. Current(r) = 0
    BY <2>1 DEF Current, Working, CycleInv
  <2>3. PICK k \in Nat : got[r] = k * Replicas[r] + 0
    BY <2>2 DEF WholeInv
  <2>4. got[r] = k * Replicas[r]
    BY <2>1, <2>3
  <2> QED  BY <2>1, <2>4, OneMoreVM
<1> QED  BY <1>1, <1>2, <1>3, TypeInit, PTL DEF Spec
-----------------------------------------------------------------------------
(* Sums over sites and over threads. *)

\* T adds up the values that a function on D takes on the part A of D: one
\* value changed changes the sum by as much.
Adds(T, A, D) ==
    /\ T \in [[D -> Int] -> Int]
    /\ \A f, g \in [D -> Int], x \in D :
           (\A y \in D : y # x => g[y] = f[y])
           => T[g] = T[f] + (IF x \in A THEN g[x] - f[x] ELSE 0)
    /\ \A f, g \in [D -> Int] : (\A x \in D : f[x] <= g[x]) => T[f] <= T[g]
    /\ \A f \in [D -> Int], c \in Int :
           (\A x \in D : f[x] = c) => T[f] = Cardinality(A) * c
    /\ \A f, g \in [D -> Int], c \in Int :
           (\A x \in D : g[x] <= f[x] + c) => T[g] <= T[f] + Cardinality(A) * c

\* One more element is one more summand.
LEMMA AddsOneMore ==
    ASSUME NEW D, NEW A \in SUBSET D, IsFiniteSet(A), NEW y \in D \ A, NEW T, Adds(T, A, D)
    PROVE  \E U : Adds(U, A \cup {y}, D)
<1> DEFINE U == [f \in [D -> Int] |-> T[f] + f[y]]
<1>1. T \in [[D -> Int] -> Int] /\ \A f \in [D -> Int] : U[f] = T[f] + f[y] /\ U[f] \in Int
  BY DEF Adds
<1>2. U \in [[D -> Int] -> Int]
  BY <1>1
<1> HIDE DEF U
<1>3. ASSUME NEW f \in [D -> Int], NEW g \in [D -> Int], NEW x \in D,
             \A z \in D : z # x => g[z] = f[z]
      PROVE  U[g] = U[f] + (IF x \in A \cup {y} THEN g[x] - f[x] ELSE 0)
  <2>1. T[g] = T[f] + (IF x \in A THEN g[x] - f[x] ELSE 0)
    BY <1>3 DEF Adds
  <2>2. /\ T[f] \in Int /\ T[g] \in Int
        /\ f[x] \in Int /\ g[x] \in Int /\ f[y] \in Int /\ g[y] \in Int
        /\ U[f] = T[f] + f[y] /\ U[g] = T[g] + g[y]
    BY <1>1
  <2>3. CASE x = y
    BY <2>1, <2>2, <2>3
  <2>4. CASE x # y
    <3>1. g[y] = f[y]
      BY <1>3, <2>4
    <3> QED  BY <2>1, <2>2, <2>4, <3>1
  <2> QED  BY <2>3, <2>4
<1>4. ASSUME NEW f \in [D -> Int], NEW g \in [D -> Int], \A x \in D : f[x] <= g[x]
      PROVE  U[f] <= U[g]
  <2>1. T[f] <= T[g] /\ f[y] <= g[y]
    BY <1>4 DEF Adds
  <2>2. T[f] \in Int /\ T[g] \in Int /\ f[y] \in Int /\ g[y] \in Int
    BY <1>1
  <2> QED  BY <1>1, <2>1, <2>2
<1>5. ASSUME NEW f \in [D -> Int], NEW c \in Int, \A x \in D : f[x] = c
      PROVE  U[f] = Cardinality(A \cup {y}) * c
  <2>1. Cardinality(A) \in Nat /\ Cardinality(A \cup {y}) = Cardinality(A) + 1
    BY FS_AddElement, FS_CardinalityType
  <2>2. T[f] = Cardinality(A) * c
    BY <1>5 DEF Adds
  <2>3. U[f] = Cardinality(A) * c + c
    BY <1>1, <1>5, <2>2
  <2>4. \A n \in Nat : n * c + c = (n + 1) * c
    OBVIOUS
  <2> QED  BY <2>1, <2>3, <2>4
<1>7. ASSUME NEW f \in [D -> Int], NEW g \in [D -> Int], NEW c \in Int, \A x \in D : g[x] <= f[x] + c
      PROVE  U[g] <= U[f] + Cardinality(A \cup {y}) * c
  <2>1. Cardinality(A) \in Nat /\ Cardinality(A \cup {y}) = Cardinality(A) + 1
    BY FS_AddElement, FS_CardinalityType
  <2>2. T[g] <= T[f] + Cardinality(A) * c /\ g[y] <= f[y] + c
    BY <1>7 DEF Adds
  <2>3. \A n \in Nat : n * c \in Int /\ n * c + c = (n + 1) * c
    OBVIOUS
  <2>4. PICK m \in Int : m = Cardinality(A) * c /\ m + c = Cardinality(A \cup {y}) * c
    BY <2>1, <2>3
  <2>5. T[f] \in Int /\ T[g] \in Int /\ f[y] \in Int /\ g[y] \in Int
    BY <1>1
  <2>6. T[g] + g[y] <= T[f] + f[y] + (m + c)
    BY <2>2, <2>4, <2>5
  <2> QED  BY <1>1, <2>4, <2>6
<1>6. Adds(U, A \cup {y}, D)
  BY <1>2, <1>3, <1>4, <1>5, <1>7 DEF Adds
<1> QED  BY <1>6

\* The values of a function on a finite set can be added up.
LEMMA AddsExists ==
    ASSUME NEW D, IsFiniteSet(D)
    PROVE  \E T : Adds(T, D, D)
<1> DEFINE Sum(A) == \E T : Adds(T, A, D)
           Open == {n \in Nat : \E A \in SUBSET D :
                       IsFiniteSet(A) /\ Cardinality(A) = n /\ ~Sum(A)}
<1>1. Sum({})
  <2> DEFINE T == [f \in [D -> Int] |-> 0]
  <2>1. /\ T \in [[D -> Int] -> Int] /\ \A f \in [D -> Int] : T[f] = 0
    OBVIOUS
  <2>2. Cardinality({}) = 0
    BY FS_EmptySet
  <2>3. \A c \in Int : 0 * c = 0
    OBVIOUS
  <2> HIDE DEF T
  <2>4. \A f, g \in [D -> Int], x \in D :
            T[g] = T[f] + (IF x \in {} THEN g[x] - f[x] ELSE 0)
    BY <2>1
  <2>6. ASSUME NEW f \in [D -> Int], NEW g \in [D -> Int], NEW c \in Int
        PROVE  T[g] <= T[f] + Cardinality({}) * c /\ T[f] = Cardinality({}) * c /\ T[f] <= T[g]
    <3>1. T[g] = 0 /\ T[f] = 0
      BY <2>1
    <3>2. Cardinality({}) * c = 0
      BY <2>2, <2>3
    <3> QED  BY <3>1, <3>2
  <2>5. Adds(T, {}, D)
    BY <2>1, <2>4, <2>6 DEF Adds
  <2> QED  BY <2>5
<1>2. Open = {}
  <2> SUFFICES ASSUME Open # {} PROVE FALSE
    OBVIOUS
  <2>1. Open \subseteq Nat
    OBVIOUS
  <2>2. PICK n \in Open : \A k \in Open : ~(<<k, n>> \in OpToRel(<, Nat))
    BY <2>1, NatLessThanWellFounded, WFMin
  <2>3. n \in Nat /\ \A k \in Open : ~(k < n)
    <3> HIDE DEF Open
    <3> QED  BY <2>1, <2>2 DEF OpToRel
  <2>4. PICK A \in SUBSET D : IsFiniteSet(A) /\ Cardinality(A) = n /\ ~Sum(A)
    BY <2>2
  <2>5. PICK y : y \in A
    BY <1>1, <2>4
  <2> DEFINE B == A \ {y}
  <2>6. IsFiniteSet(B) /\ Cardinality(B) = n - 1 /\ B \in SUBSET D /\ B \cup {y} = A /\ y \in D \ B
    BY <2>4, <2>5, FS_RemoveElement
  <2>7. n - 1 \in Nat /\ n - 1 < n
    BY <2>3, <2>6, FS_CardinalityType
  <2> HIDE DEF B
  <2>8. Sum(B)
    BY <2>3, <2>6, <2>7
  <2>9. Sum(A)
    BY <2>6, <2>8, AddsOneMore
  <2> QED  BY <2>4, <2>9
<1> QED
  BY <1>2, FS_CardinalityType

\* The sum over all sites, and the one over all threads.
SiteTotal == CHOOSE T : Adds(T, Sites, Sites)
ThreadTotal == CHOOSE T : Adds(T, Threads, Threads)

LEMMA TotalsAdd == Adds(SiteTotal, Sites, Sites) /\ Adds(ThreadTotal, Threads, Threads)
<1>1. (\E T : Adds(T, Sites, Sites)) /\ (\E T : Adds(T, Threads, Threads))
  BY AddsExists, FinitenessAssumption
<1> QED  BY <1>1 DEF SiteTotal, ThreadTotal
-----------------------------------------------------------------------------
(* Several threads: how far a site can be overcommitted. *)

\* What thread t may still place on site s without looking at it again.
Pending(t, s) == IF pc[t] = "bind" THEN siteCount[t][s] ELSE maxCount[t][s]

\* What thread t can place on site s before the site's entry is replaced: it
\* places what is pending, and then finds what the deductions have left.
Claim(t, s) == Greater(Pending(t, s), room[s] - requested[s])

Claims(s) == [t \in Threads |-> Claim(t, s)]

\* A site offers no more than it was said to have less the deductions since its
\* entry was made, and no call has more in hand than the site was said to have.
OfferInv ==
    \A s \in Sites :
        /\ Capacity[s] <= room[s] /\ total[s] <= room[s]
        /\ entry[s] = "ready" => allocatable[s] + requested[s] <= room[s]
        /\ entry[s] # "ready" => requested[s] = 0

PendingInv ==
    \A t \in Threads, s \in Sites :
        /\ siteCount[t][s] <= room[s]
        /\ pc[t] # "bind" => /\ siteCount[t][s] <= maxCount[t][s]
                             /\ maxCount[t][s] <= room[s]
        /\ pc[t] \notin {"strategy", "bind"} => siteCount[t][s] = 0

\* What was placed and what can still be placed stay within the bound.
ClaimInv ==
    \A s \in Sites :
        placed[s] + ThreadTotal[Claims(s)]
            <= Cardinality(Threads) * (1 + updates) * room[s]

\* Values of a site as a call sees them.
LEMMA SiteValues ==
    ASSUME TypeOK, NEW s \in Sites
    PROVE  /\ allocatable[s] \in Int /\ requested[s] \in Nat /\ total[s] \in Int
           /\ placed[s] \in Nat /\ room[s] \in Nat
           /\ \A t \in Threads : /\ siteCount[t][s] \in Nat /\ maxCount[t][s] \in Nat
                                 /\ Pending(t, s) \in Nat /\ Claim(t, s) \in Nat
                                 /\ Pending(t, s) <= Claim(t, s)
                                 /\ room[s] - requested[s] <= Claim(t, s)
<1>1. /\ allocatable[s] \in Int /\ requested[s] \in Nat /\ total[s] \in Int
      /\ placed[s] \in Nat /\ room[s] \in Nat
      /\ \A t \in Threads : siteCount[t][s] \in Nat /\ maxCount[t][s] \in Nat
  BY DEF TypeOK, SiteTypes, HistTypes, PlanTypes, EnvTypes, NoTotal
<1> QED  BY <1>1 DEF Pending, Claim, Greater

\* The offers.
LEMMA OfferNext ==
    ASSUME TypeOK, CycleInv, ReadyInv, OfferInv, [Next]_vars
    PROVE  OfferInv'
<1>1. ASSUME NEW t \in Threads, Schedule(t) PROVE OfferInv'
  <2>0. room' = room
    BY <1>1, ScheduleEnv
  <2>1. CASE Bind(t)
    <3>1. PICK s \in Sites :
             /\ entry[s] = "ready"
             /\ requested' = [requested EXCEPT ![s] = @ + 1]
             /\ allocatable' = [allocatable EXCEPT ![s] = Deducted(s)]
             /\ UNCHANGED <<entry, total>>
      BY <2>1, BindDeducts
    <3>2. /\ total[s] \in Int /\ allocatable[s] \in Int /\ requested[s] \in Nat
          /\ room[s] \in Nat
      BY SiteValues
    <3>3. Deducted(s) + (requested[s] + 1) <= room[s]
      <4>1. total[s] <= room[s] /\ allocatable[s] + requested[s] <= room[s]
        BY <3>1 DEF OfferInv
      <4> QED  BY <3>2, <4>1 DEF Deducted, Lesser
    <3> SUFFICES ASSUME NEW q \in Sites
                 PROVE  /\ Capacity[q] <= room[q] /\ total'[q] <= room[q]
                        /\ entry'[q] = "ready" => allocatable'[q] + requested'[q] <= room[q]
                        /\ entry'[q] # "ready" => requested'[q] = 0
      BY <2>0 DEF OfferInv
    <3>4. CASE q = s
      BY <3>1, <3>3, <3>4 DEF OfferInv, TypeOK, SiteTypes
    <3>5. CASE q # s
      BY <3>1, <3>5 DEF OfferInv, TypeOK, SiteTypes
    <3> QED  BY <3>4, <3>5
  <2>2. CASE ~Bind(t)
    BY <1>1, <2>0, <2>2, OnlyBindDeducts DEF OfferInv, siteVars
  <2> QED  BY <2>1, <2>2
<1>2. ASSUME NEW s \in Sites, UpdateSiteDynamicResource(s) PROVE OfferInv'
  <2>1. PICK v \in Nat : /\ total' = [total EXCEPT ![s] = v]
                        /\ room'[s] \in Nat /\ v <= room'[s] /\ room[s] <= room'[s]
                        /\ \A q \in Sites : q # s => room'[q] = room[q]
    BY <1>2, ReportRoom
  <2>2. /\ entry' = [entry EXCEPT ![s] = IF @ = "absent" THEN "bare" ELSE @]
        /\ UNCHANGED <<allocatable, requested>>
    BY <1>2 DEF UpdateSiteDynamicResource
  <2> SUFFICES ASSUME NEW q \in Sites
               PROVE  /\ Capacity[q] <= room'[q] /\ total'[q] <= room'[q]
                      /\ entry'[q] = "ready" => allocatable'[q] + requested'[q] <= room'[q]
                      /\ entry'[q] # "ready" => requested'[q] = 0
    BY DEF OfferInv
  <2>3. CASE q # s
    <3>1. room'[q] = room[q] /\ total'[q] = total[q] /\ entry'[q] = entry[q]
      BY <2>1, <2>2, <2>3 DEF TypeOK, SiteTypes
    <3> QED  BY <2>2, <3>1 DEF OfferInv
  <2>4. CASE q = s
    <3>1. total'[s] = v /\ (entry'[s] = "ready" <=> entry[s] = "ready")
      BY <2>1, <2>2 DEF TypeOK, SiteTypes
    <3>2. Capacity[s] \in Nat /\ allocatable[s] \in Int /\ requested[s] \in Nat /\ room[s] \in Nat
      BY ConstantsAssumption, SiteValues
    <3>3. /\ Capacity[s] <= room[s]
          /\ entry[s] = "ready" => allocatable[s] + requested[s] <= room[s]
          /\ entry[s] # "ready" => requested[s] = 0
      BY DEF OfferInv
    <3>4. Capacity[s] <= room'[s] /\ total'[s] <= room'[s]
      BY <2>1, <3>1, <3>2, <3>3
    <3>5. ASSUME entry[s] = "ready" PROVE allocatable[s] + requested[s] <= room'[s]
      BY <2>1, <3>2, <3>3, <3>5
    <3> QED  BY <2>2, <2>4, <3>1, <3>3, <3>4, <3>5
  <2> QED  BY <2>3, <2>4
<1>3. ASSUME NEW s \in Sites, UpdateStaticSiteResourceInfo(s) PROVE OfferInv'
  <2>1. /\ entry' = [entry EXCEPT ![s] = "ready"]
        /\ allocatable' = [allocatable EXCEPT ![s] = Capacity[s]]
        /\ requested' = [requested EXCEPT ![s] = 0]
        /\ total' = [total EXCEPT ![s] = NoTotal]
        /\ Capacity[s] \in Nat /\ room' = room
    BY <1>3, ConstantsAssumption DEF UpdateStaticSiteResourceInfo
  <2>2. \A q \in Sites : room[q] \in Nat /\ Capacity[q] <= room[q]
    BY DEF OfferInv, TypeOK, EnvTypes
  <2> QED  BY <2>1, <2>2 DEF OfferInv, TypeOK, SiteTypes, NoTotal
<1>4. CASE UNCHANGED vars
  BY <1>4 DEF vars, siteVars, envVars, OfferInv
<1> QED  BY <1>1, <1>2, <1>3, <1>4 DEF Next, Done

\* A step of a thread other than a deduction leaves what it has in hand within
\* what it had, or within what the site offers.
LEMMA PendingMine ==
    ASSUME TypeOK, CycleInv, ReadyInv, OfferInv, PendingInv, NEW t \in Threads, Schedule(t),
           ~Bind(t), NEW q \in Sites
    PROVE  /\ siteCount'[t][q] <= room[q]
           /\ pc'[t] # "bind" => siteCount'[t][q] <= maxCount'[t][q] /\ maxCount'[t][q] <= room[q]
           /\ pc'[t] \notin {"strategy", "bind"} => siteCount'[t][q] = 0
           /\ Pending(t, q)' <= Claim(t, q)
<1> DEFINE Goal == /\ siteCount'[t][q] <= room[q]
                   /\ pc'[t] # "bind" => /\ siteCount'[t][q] <= maxCount'[t][q]
                                         /\ maxCount'[t][q] <= room[q]
                   /\ pc'[t] \notin {"strategy", "bind"} => siteCount'[t][q] = 0
                   /\ Pending(t, q)' <= Claim(t, q)
<1>c. /\ siteCount[t][q] \in Nat /\ maxCount[t][q] \in Nat
      /\ Claim(t, q) \in Nat /\ room[q] \in Nat /\ Pending(t, q) <= Claim(t, q)
      /\ room[q] - requested[q] <= Claim(t, q)
      /\ requested[q] \in Nat /\ allocatable[q] \in Int
  BY SiteValues
<1>b. /\ siteCount[t][q] <= room[q]
      /\ pc[t] # "bind" => siteCount[t][q] <= maxCount[t][q] /\ maxCount[t][q] <= room[q]
      /\ pc[t] \notin {"strategy", "bind"} => siteCount[t][q] = 0
  BY DEF PendingInv
<1>a. ASSUME NewCycleState(t) PROVE Goal
  <2>1. siteCount'[t][q] = 0 /\ maxCount'[t][q] = 0
    BY <1>a DEF NewCycleState, Zero, TypeOK, PlanTypes
  <2> QED  BY <1>c, <2>1 DEF Pending
<1>d. ASSUME siteCount'[t][q] = siteCount[t][q], maxCount'[t][q] = maxCount[t][q], pc'[t] = pc[t]
      PROVE  Goal
  BY <1>b, <1>c, <1>d DEF Pending
<1>1. ASSUME NEW r \in Requests, Begin(t, r) PROVE Goal
  BY <1>1, <1>a DEF Begin, Call
<1>2. ASSUME NEW s \in Sites, FilterSite(t, s) PROVE Goal
  BY <1>2, <1>d DEF FilterSite, planVars
<1>3. ASSUME NEW s \in Sites, ScoreSite(t, s) PROVE Goal
  <2> DEFINE most == IF allocatable[s] >= 1 THEN allocatable[s] ELSE 0
  <2>1. /\ pc[t] = "score" /\ pc' = pc /\ s \in todo[t] /\ siteCount' = siteCount
        /\ maxCount' = [maxCount EXCEPT ![t][s] = most]
    BY <1>3 DEF ScoreSite
  <2>2. entry[s] = "ready"
    BY <2>1 DEF ReadyInv
  <2>3. allocatable[s] + requested[s] <= room[s]
    BY <2>2 DEF OfferInv
  <2>4. CASE q = s
    <3>1. maxCount'[t][q] = most /\ siteCount'[t][q] = siteCount[t][q]
      BY <2>1, <2>4 DEF TypeOK, PlanTypes
    <3>2. most <= room[q] /\ most <= Claim(t, q)
      BY <1>c, <2>3, <2>4
    <3>3. siteCount[t][q] = 0
      BY <1>b, <2>1
    <3> QED  BY <1>b, <1>c, <2>1, <3>1, <3>2, <3>3 DEF Pending
  <2>5. CASE q # s
    <3>1. maxCount'[t][q] = maxCount[t][q] /\ siteCount'[t][q] = siteCount[t][q]
      BY <2>1, <2>5 DEF TypeOK, PlanTypes
    <3> QED  BY <1>d, <2>1, <3>1
  <2> QED  BY <2>4, <2>5
<1>4. ASSUME NEW s \in Sites, PlanSite(t, s) PROVE Goal
  <2> DEFINE n == StackCount(req[t], maxCount[t][s], sum[t], left[t])
  <2>1. /\ pc[t] = "strategy" /\ maxCount' = maxCount
        /\ siteCount' = [siteCount EXCEPT ![t][s] = n]
    BY <1>4 DEF PlanSite
  <2>2. n \in Nat /\ n <= maxCount[t][s]
    <3>1. req[t] \in Requests /\ maxCount[t][s] \in Nat /\ sum[t] \in Nat /\ left[t] \in Int
      BY <2>1 DEF TypeOK, PlanTypes, CycleInv
    <3>2. sum[t] > 0 /\ left[t] > 0
      BY <2>1 DEF CycleInv
    <3> QED  BY <3>1, <3>2, StackCountBounds
  <2> HIDE DEF n
  <2>3. siteCount'[t][q] = IF q = s THEN n ELSE siteCount[t][q]
    BY <2>1 DEF TypeOK, PlanTypes
  <2>4. siteCount'[t][q] <= maxCount[t][q] /\ siteCount'[t][q] \in Nat
        /\ maxCount[t][q] <= room[q] /\ maxCount[t][q] <= Claim(t, q)
    <3>1. Pending(t, q) = maxCount[t][q]
      BY <2>1 DEF Pending
    <3> QED  BY <1>b, <1>c, <2>1, <2>2, <2>3, <3>1
  <2>5. pc'[t] \in {"strategy", "bind"}
    BY <1>4, <2>1 DEF PlanSite, TypeOK, CallTypes
  <2> QED  BY <1>c, <2>1, <2>4, <2>5 DEF Pending
<1>5. CASE Filtered(t)
  <2>1. CASE Fail(t)
    BY <1>a, <2>1 DEF Fail, Return, Idle
  <2>2. CASE ~Fail(t)
    <3>1. pc[t] = "filter" /\ pc' = [pc EXCEPT ![t] = "score"] /\ UNCHANGED planVars
      BY <1>5, <2>2 DEF Filtered
    <3>2. pc'[t] = "score" /\ siteCount' = siteCount /\ maxCount' = maxCount
      BY <3>1 DEF planVars, TypeOK, CallTypes
    <3> QED  BY <1>b, <1>c, <3>1, <3>2 DEF Pending
  <2> QED  BY <2>1, <2>2
<1>6. CASE Scored(t)
  <2>1. CASE Succeed(t)
    BY <1>a, <2>1 DEF Succeed, Call, Return, Idle
  <2>3. CASE Drop(t)
    BY <1>a, <2>3 DEF Drop, Idle
  <2>2. CASE ~Succeed(t) /\ ~Drop(t)
    <3>1. pc[t] = "score" /\ pc' = [pc EXCEPT ![t] = "strategy"] /\ UNCHANGED <<siteCount, maxCount>>
      BY <1>6, <2>2 DEF Scored
    <3>2. pc'[t] = "strategy"
      BY <3>1 DEF TypeOK, CallTypes
    <3> QED  BY <1>b, <1>c, <3>1, <3>2 DEF Pending
  <2> QED  BY <2>1, <2>2, <2>3
<1>8. CASE NextSite(t)
  BY <1>8, <1>d DEF NextSite
<1>9. CASE Finish(t)
  BY <1>9, <1>a DEF Finish, Succeed, Fail, Call, Return, Idle
<1> QED  BY <1>1, <1>2, <1>3, <1>4, <1>5, <1>6, <1>8, <1>9 DEF Schedule

\* What every call has in hand stays within what the site was said to have.
LEMMA PendingNext ==
    ASSUME TypeOK, CycleInv, ReadyInv, OfferInv, PendingInv, TypeOK', [Next]_vars
    PROVE  PendingInv'
<1>1. ASSUME NEW t \in Threads, Schedule(t) PROVE PendingInv'
  <2>0. room' = room
    BY <1>1, ScheduleEnv
  <2> SUFFICES ASSUME NEW u \in Threads, NEW q \in Sites
               PROVE  /\ siteCount'[u][q] <= room[q]
                      /\ pc'[u] # "bind" => /\ siteCount'[u][q] <= maxCount'[u][q]
                                            /\ maxCount'[u][q] <= room[q]
                      /\ pc'[u] \notin {"strategy", "bind"} => siteCount'[u][q] = 0
    BY <2>0 DEF PendingInv
  <2>1. CASE u # t
    BY <1>1, <2>1, OnlyMine DEF PendingInv
  <2>2. CASE u = t /\ ~Bind(t)
    BY <1>1, <2>2, PendingMine
  <2>3. CASE u = t /\ Bind(t)
    <3>1. PICK s \in Sites : siteCount' = [siteCount EXCEPT ![t][s] = @ - 1] /\ UNCHANGED pc
      BY <2>3, BindDeducts
    <3>2. siteCount'[u][q] <= siteCount[u][q] /\ siteCount[u][q] \in Nat /\ siteCount'[u][q] \in Int
      BY <2>3, <3>1 DEF TypeOK, PlanTypes
    <3>3. pc'[u] = "bind" /\ siteCount[u][q] <= room[q] /\ room[q] \in Nat
      BY <2>3, <3>1, SiteValues DEF Bind, InLoop, PendingInv
    <3> QED  BY <3>2, <3>3
  <2> QED  BY <2>1, <2>2, <2>3
<1>2. ASSUME UNCHANGED callVars, \A q \in Sites : room[q] <= room'[q] PROVE PendingInv'
  <2> SUFFICES ASSUME NEW u \in Threads, NEW q \in Sites
               PROVE  /\ siteCount[u][q] <= room'[q]
                      /\ pc[u] # "bind" => /\ siteCount[u][q] <= maxCount[u][q]
                                           /\ maxCount[u][q] <= room'[q]
                      /\ pc[u] \notin {"strategy", "bind"} => siteCount[u][q] = 0
    BY <1>2 DEF PendingInv, callVars, planVars
  <2>1. /\ siteCount[u][q] \in Nat /\ maxCount[u][q] \in Nat /\ room[q] \in Nat /\ room'[q] \in Nat
    BY DEF TypeOK, PlanTypes, EnvTypes
  <2>2. /\ siteCount[u][q] <= room[q]
        /\ pc[u] # "bind" => siteCount[u][q] <= maxCount[u][q] /\ maxCount[u][q] <= room[q]
        /\ pc[u] \notin {"strategy", "bind"} => siteCount[u][q] = 0
    BY DEF PendingInv
  <2> QED  BY <1>2, <2>1, <2>2
<1>3. ASSUME NEW s \in Sites, UpdateSiteDynamicResource(s) \/ UpdateStaticSiteResourceInfo(s)
      PROVE  UNCHANGED callVars /\ \A q \in Sites : room[q] <= room'[q]
  BY <1>3, RoomGrows DEF UpdateSiteDynamicResource, UpdateStaticSiteResourceInfo
<1>4. UNCHANGED vars => UNCHANGED callVars /\ room' = room
  BY DEF vars, envVars
<1>5. room' = room => \A q \in Sites : room[q] <= room'[q]
  BY DEF TypeOK, EnvTypes
<1> QED  BY <1>1, <1>2, <1>3, <1>4, <1>5 DEF Next, Done

\* The sum over the threads grows with its summands and falls with them.
LEMMA ClaimsAdd ==
    /\ \A f \in [Threads -> Int] : ThreadTotal[f] \in Int
    /\ \A f, g \in [Threads -> Int] :
           (\A t \in Threads : f[t] <= g[t]) => ThreadTotal[f] <= ThreadTotal[g]
    /\ \A f, g \in [Threads -> Int], u \in Threads :
           (\A t \in Threads : f[t] <= g[t]) /\ f[u] < g[u]
           => ThreadTotal[f] + 1 <= ThreadTotal[g]
    /\ \A f \in [Threads -> Nat] : ThreadTotal[f] >= 0
    /\ \A f \in [Threads -> Int], c \in Int :
           (\A t \in Threads : f[t] = c) => ThreadTotal[f] = Cardinality(Threads) * c
    /\ \A f, g \in [Threads -> Int], c \in Int :
           (\A t \in Threads : g[t] <= f[t] + c)
           => ThreadTotal[g] <= ThreadTotal[f] + Cardinality(Threads) * c
<1>1. /\ ThreadTotal \in [[Threads -> Int] -> Int]
      /\ \A f, g \in [Threads -> Int], u \in Threads :
             (\A t \in Threads : t # u => g[t] = f[t])
             => ThreadTotal[g] = ThreadTotal[f] + (g[u] - f[u])
      /\ \A f, g \in [Threads -> Int] :
             (\A t \in Threads : f[t] <= g[t]) => ThreadTotal[f] <= ThreadTotal[g]
      /\ \A f \in [Threads -> Int], c \in Int :
             (\A t \in Threads : f[t] = c) => ThreadTotal[f] = Cardinality(Threads) * c
      /\ \A f, g \in [Threads -> Int], c \in Int :
             (\A t \in Threads : g[t] <= f[t] + c)
             => ThreadTotal[g] <= ThreadTotal[f] + Cardinality(Threads) * c
  BY TotalsAdd DEF Adds
<1>2. ASSUME NEW f \in [Threads -> Int], NEW g \in [Threads -> Int], NEW u \in Threads,
             \A t \in Threads : f[t] <= g[t], f[u] < g[u]
      PROVE  ThreadTotal[f] + 1 <= ThreadTotal[g]
  <2> DEFINE h == [g EXCEPT ![u] = g[u] - 1]
  <2>1. h \in [Threads -> Int] /\ \A t \in Threads : h[t] = IF t = u THEN g[u] - 1 ELSE g[t]
    OBVIOUS
  <2>2. \A t \in Threads : f[t] <= h[t]
    BY <1>2, <2>1
  <2> HIDE DEF h
  <2>3. ThreadTotal[h] = ThreadTotal[g] + (h[u] - g[u])
    BY <1>1, <2>1
  <2>4. ThreadTotal[f] <= ThreadTotal[h]
    BY <1>1, <2>1, <2>2
  <2>5. ThreadTotal[f] \in Int /\ ThreadTotal[g] \in Int /\ ThreadTotal[h] \in Int /\ g[u] \in Int
    BY <1>1, <2>1
  <2> QED  BY <2>1, <2>3, <2>4, <2>5
<1>3. ASSUME NEW f \in [Threads -> Nat] PROVE ThreadTotal[f] >= 0
  <2> DEFINE z == [t \in Threads |-> 0]
  <2>1. /\ z \in [Threads -> Int] /\ f \in [Threads -> Int]
        /\ \A t \in Threads : z[t] = 0 /\ z[t] <= f[t]
    OBVIOUS
  <2> HIDE DEF z
  <2>2. ThreadTotal[z] = Cardinality(Threads) * 0
    BY <1>1, <2>1
  <2>3. Cardinality(Threads) \in Nat
    BY FinitenessAssumption, FS_CardinalityType
  <2>4. \A k \in Nat : k * 0 = 0
    OBVIOUS
  <2>5. ThreadTotal[z] <= ThreadTotal[f] /\ ThreadTotal[f] \in Int
    BY <1>1, <2>1
  <2> QED  BY <2>2, <2>3, <2>4, <2>5
<1> QED  BY <1>1, <1>2, <1>3

\* The bound, and what one more update adds to it.
LEMMA BoundGrows ==
    ASSUME NEW k \in Nat, NEW u \in Nat, NEW c \in Nat
    PROVE  k * (1 + (u + 1)) * c = k * (1 + u) * c + k * c /\ k * c >= 0
           /\ k * (1 + u) * c \in Nat /\ k * c \in Nat
OBVIOUS

\* What a report of more adds to it.
LEMMA BoundWidens ==
    ASSUME NEW k \in Nat, NEW u \in Nat, NEW c \in Nat, NEW e \in Nat
    PROVE  k * (1 + u) * c + k * e <= k * (1 + u) * (c + e)
<1>1. PICK n \in Nat : n = k * (1 + u) /\ n >= k
  <2>1. k * (1 + u) = k + k * u /\ k * u \in Nat /\ k * u >= 0
    OBVIOUS
  <2> QED  BY <2>1
<1>2. n * (c + e) = n * c + n * e /\ n * c \in Nat /\ n * e \in Nat
  BY <1>1
<1>3. n * e >= k * e /\ k * e \in Nat
  <2>1. PICK d \in Nat : n = k + d
    <3>1. n - k \in Nat /\ n = k + (n - k)
      BY <1>1
    <3> QED  BY <3>1
  <2>2. (k + d) * e = k * e + d * e /\ d * e \in Nat /\ k * e \in Nat
    OBVIOUS
  <2> QED  BY <2>1, <2>2
<1>4. n * c + k * e <= n * (c + e)
  BY <1>2, <1>3
<1> QED  BY <1>1, <1>4

\* A step of a thread exchanges claims for stacks, an update of the site's
\* cluster lets every thread claim all of the site again, a report of more
\* raises every claim by as much.
LEMMA ClaimNext ==
    ASSUME TypeOK, CycleInv, ReadyInv, OfferInv, PendingInv, ClaimInv, TypeOK', PendingInv',
           [Next]_vars
    PROVE  ClaimInv'
<1> SUFFICES ASSUME NEW q \in Sites
             PROVE  placed'[q] + ThreadTotal[Claims(q)']
                        <= Cardinality(Threads) * (1 + updates') * room'[q]
  BY DEF ClaimInv
<1> DEFINE k == Cardinality(Threads)
           c == room[q]
           d == room'[q]
           f == Claims(q)
           g == Claims(q)'
<1>1. /\ placed[q] \in Nat /\ c \in Nat /\ requested[q] \in Nat
      /\ \A t \in Threads : /\ Pending(t, q) \in Nat /\ Claim(t, q) \in Nat
                            /\ Pending(t, q) <= Claim(t, q)
                            /\ c - requested[q] <= Claim(t, q)
  BY SiteValues
<1>2. /\ placed'[q] \in Nat /\ requested'[q] \in Nat
      /\ \A t \in Threads : Pending(t, q)' \in Nat /\ Claim(t, q)' \in Nat
  <2>1. /\ placed'[q] \in Nat /\ requested'[q] \in Nat /\ room'[q] \in Nat
        /\ \A t \in Threads : siteCount'[t][q] \in Nat /\ maxCount'[t][q] \in Nat
    BY DEF TypeOK, SiteTypes, HistTypes, PlanTypes, EnvTypes
  <2> QED  BY <2>1 DEF Pending, Claim, Greater
<1>3. k \in Nat /\ updates \in Nat /\ updates' \in Nat
  BY FinitenessAssumption, FS_CardinalityType DEF TypeOK, EnvTypes
<1>4. /\ f \in [Threads -> Nat] /\ g \in [Threads -> Nat]
      /\ f \in [Threads -> Int] /\ g \in [Threads -> Int]
      /\ \A t \in Threads : f[t] = Claim(t, q) /\ g[t] = Claim(t, q)'
  BY <1>1, <1>2 DEF Claims
<1>5. /\ placed[q] + ThreadTotal[f] <= k * (1 + updates) * c
      /\ ThreadTotal[f] \in Int /\ ThreadTotal[g] \in Int /\ ThreadTotal[f] >= 0
      /\ k * (1 + updates) * c \in Nat
  BY <1>1, <1>3, <1>4, ClaimsAdd, BoundGrows DEF ClaimInv
<1>d. d \in Nat /\ (room' = room => d = c)
  BY DEF TypeOK, EnvTypes
<1> HIDE DEF k, c, d, f, g
<1>a. ASSUME placed'[q] = placed[q], updates' = updates, room' = room,
             \A t \in Threads : Claim(t, q)' <= Claim(t, q)
      PROVE  placed'[q] + ThreadTotal[g] <= k * (1 + updates') * d
  <2>1. ThreadTotal[g] <= ThreadTotal[f]
    BY <1>4, <1>a, ClaimsAdd
  <2> QED  BY <1>1, <1>5, <1>a, <1>d, <2>1
<1>6. ASSUME NEW t \in Threads, Schedule(t)
      PROVE  placed'[q] + ThreadTotal[g] <= k * (1 + updates') * d
  <2>1. updates' = updates /\ room' = room
    BY <1>6, ScheduleEnv
  <2>2. \A u \in Threads : u # t => Pending(u, q)' = Pending(u, q)
    BY <1>6, OnlyMine DEF Pending
  <2>3. CASE ~Bind(t)
    <3>1. UNCHANGED <<siteVars, histVars>>
      BY <1>6, <2>3, OnlyBindDeducts
    <3>2. Pending(t, q)' <= Claim(t, q)
      BY <1>6, <2>3, PendingMine
    <3>3. \A u \in Threads : Claim(u, q)' = Greater(Pending(u, q)', c - requested[q])
      BY <2>1, <3>1 DEF Claim, c, siteVars
    <3>4. \A u \in Threads : Pending(u, q)' <= Claim(u, q)
      BY <1>1, <2>2, <3>2
    <3>5. \A u \in Threads : Claim(u, q)' <= Claim(u, q)
      BY <1>1, <3>3, <3>4 DEF Greater
    <3> QED  BY <1>a, <2>1, <3>1, <3>5 DEF histVars
  <2>4. CASE Bind(t)
    <3>1. PICK s \in Sites :
             /\ siteCount[t][s] > 0
             /\ requested' = [requested EXCEPT ![s] = @ + 1]
             /\ placed' = [placed EXCEPT ![s] = @ + 1]
             /\ siteCount' = [siteCount EXCEPT ![t][s] = @ - 1]
             /\ UNCHANGED pc
      BY <2>4, BindDeducts
    <3>2. pc[t] = "bind" /\ pc'[t] = "bind"
      BY <2>4, <3>1 DEF Bind, InLoop
    <3>3. Pending(t, q)' = IF q = s THEN Pending(t, q) - 1 ELSE Pending(t, q)
      BY <3>1, <3>2 DEF Pending, TypeOK, PlanTypes
    <3>4. \A u \in Threads : Claim(u, q)' = Greater(Pending(u, q)', c - requested'[q])
      BY <2>1 DEF Claim, c
    <3>5. \A u \in Threads : Claim(u, q) = Greater(Pending(u, q), c - requested[q])
      BY DEF Claim, c
    <3>6. CASE q # s
      <4>1. placed'[q] = placed[q] /\ requested'[q] = requested[q]
        BY <3>1, <3>6 DEF TypeOK, HistTypes, SiteTypes
      <4>2. \A u \in Threads : Pending(u, q)' = Pending(u, q)
        BY <2>2, <3>3, <3>6
      <4>3. \A u \in Threads : Claim(u, q)' = Claim(u, q)
        BY <3>4, <3>5, <4>1, <4>2
      <4>4. \A u \in Threads : Claim(u, q)' <= Claim(u, q)
        BY <1>1, <4>3
      <4> QED  BY <1>a, <2>1, <4>1, <4>4
    <3>7. CASE q = s
      <4>1. placed'[q] = placed[q] + 1 /\ requested'[q] = requested[q] + 1
        BY <3>1, <3>7 DEF TypeOK, HistTypes, SiteTypes
      <4>2. Claim(t, q)' = Claim(t, q) - 1
        BY <1>1, <3>3, <3>4, <3>5, <3>7, <4>1 DEF Greater
      <4>3. \A u \in Threads : Claim(u, q)' <= Claim(u, q)
        <5>1. \A u \in Threads : u # t => Claim(u, q)' <= Claim(u, q)
          BY <1>1, <2>2, <3>4, <3>5, <4>1 DEF Greater
        <5> QED  BY <1>1, <4>2, <5>1
      <4>4. (\A u \in Threads : g[u] <= f[u]) /\ g[t] < f[t]
        BY <1>1, <1>4, <4>2, <4>3
      <4>5. ThreadTotal[g] + 1 <= ThreadTotal[f]
        BY <1>4, <4>4, ClaimsAdd
      <4> QED  BY <1>1, <1>5, <1>d, <2>1, <4>1, <4>5
    <3> QED  BY <3>6, <3>7
  <2> QED  BY <2>3, <2>4
<1>7. ASSUME NEW s \in Sites, UpdateSiteDynamicResource(s)
      PROVE  placed'[q] + ThreadTotal[g] <= k * (1 + updates') * d
  <2>1. UNCHANGED <<requested, callVars, placed, updates>>
    BY <1>7 DEF UpdateSiteDynamicResource, histVars
  <2>2. \A t \in Threads : /\ Claim(t, q)' = Greater(Pending(t, q), d - requested[q])
                           /\ Claim(t, q) = Greater(Pending(t, q), c - requested[q])
    BY <2>1 DEF Claim, Pending, callVars, planVars, c, d
  <2>3. PICK e \in Nat : d = c + e
    <3>1. c <= d
      BY <1>7, RoomGrows DEF c, d
    <3>2. d - c \in Nat /\ d = c + (d - c)
      BY <1>1, <1>d, <3>1
    <3> QED  BY <3>2
  <2>4. \A t \in Threads : g[t] <= f[t] + e
    BY <1>1, <1>4, <2>2, <2>3 DEF Greater
  <2>5. ThreadTotal[g] <= ThreadTotal[f] + k * e
    BY <1>4, <2>4, ClaimsAdd DEF k
  <2>6. k * (1 + updates) * c + k * e <= k * (1 + updates) * d
    BY <1>1, <1>3, <2>3, BoundWidens
  <2>7. k * e \in Nat /\ k * (1 + updates) * d \in Nat
    BY <1>3, <1>d, BoundGrows
  <2>8. PICK x \in Nat, y \in Nat, z \in Nat :
            x = k * (1 + updates) * c /\ y = k * e /\ z = k * (1 + updates) * d
    BY <1>5, <2>7
  <2>9. placed[q] + ThreadTotal[g] <= z
    BY <1>1, <1>5, <2>5, <2>6, <2>8
  <2> QED  BY <2>1, <2>8, <2>9
<1>8. ASSUME NEW s \in Sites, UpdateStaticSiteResourceInfo(s)
      PROVE  placed'[q] + ThreadTotal[g] <= k * (1 + updates') * d
  <2>1. /\ requested' = [requested EXCEPT ![s] = 0] /\ UNCHANGED <<callVars, placed, room>>
        /\ (entry[s] # "ready" /\ updates' = updates) \/ updates' = updates + 1
    BY <1>8 DEF UpdateStaticSiteResourceInfo, histVars
  <2>2. \A t \in Threads : /\ Claim(t, q)' = Greater(Pending(t, q), c - requested'[q])
                           /\ Claim(t, q) = Greater(Pending(t, q), c - requested[q])
    BY <2>1 DEF Claim, Pending, callVars, planVars, c
  <2>3. CASE requested'[q] = requested[q]
    <3>1. \A t \in Threads : g[t] = f[t] /\ f[t] \in Int
      BY <1>4, <2>2, <2>3
    <3>2. ThreadTotal[g] <= ThreadTotal[f]
      BY <1>4, <3>1, ClaimsAdd
    <3>3. k * (1 + updates) * c <= k * (1 + updates') * c
      <4>1. k * (1 + (updates + 1)) * c = k * (1 + updates) * c + k * c /\ k * c \in Nat
        BY <1>1, <1>3, BoundGrows
      <4> QED  BY <1>5, <2>1, <4>1
    <3>4. k * (1 + updates') * c \in Nat /\ placed'[q] = placed[q]
      BY <1>1, <1>3, <2>1, BoundGrows
    <3> QED  BY <1>1, <1>5, <1>d, <2>1, <3>2, <3>3, <3>4
  <2>4. CASE requested'[q] # requested[q]
    <3>1. q = s /\ requested'[q] = 0 /\ updates' = updates + 1
      BY <2>1, <2>4 DEF OfferInv, TypeOK, SiteTypes
    <3>2. \A t \in Threads : Pending(t, q) <= c
      BY DEF Pending, PendingInv, c
    <3>3. \A t \in Threads : g[t] = c
      BY <1>1, <1>4, <2>2, <3>1, <3>2 DEF Greater
    <3>5. ThreadTotal[g] = k * c
      BY <1>1, <1>4, <3>3, ClaimsAdd DEF k
    <3>6. k * (1 + updates') * c = k * (1 + updates) * c + k * c /\ k * c \in Nat
      BY <1>1, <1>3, <3>1, BoundGrows
    <3>7. placed'[q] = placed[q]
      BY <2>1
    <3> QED  BY <1>1, <1>5, <1>d, <2>1, <3>5, <3>6, <3>7
  <2> QED  BY <2>3, <2>4
<1>9. CASE UNCHANGED vars
  <2>1. UNCHANGED <<requested, callVars, placed, updates, room>>
    BY <1>9 DEF vars, siteVars, histVars, envVars
  <2>2. \A t \in Threads : Claim(t, q)' = Claim(t, q)
    BY <2>1 DEF Claim, Pending, callVars, planVars
  <2>3. \A t \in Threads : Claim(t, q)' <= Claim(t, q)
    BY <1>1, <2>2
  <2>4. placed'[q] = placed[q] /\ updates' = updates /\ room' = room
    BY <2>1
  <2> QED  BY <1>a, <2>3, <2>4 DEF k, d, g
<1> QED  BY <1>6, <1>7, <1>8, <1>9 DEF Next, Done, k, d, g

\* For any number of threads, updates and reports: a site gets at most what it
\* was ever said to have from each thread, and again after each update of a
\* cluster, however the threads filter, plan and bind between each other's
\* deductions.
THEOREM OvercommitIsBounded == Spec => []OvercommitBounded
<1> DEFINE Inv == TypeOK /\ CycleInv /\ ReadyInv /\ OfferInv /\ PendingInv /\ ClaimInv
<1>1. Init => Inv
  <2> SUFFICES ASSUME Init PROVE Inv
    OBVIOUS
  <2>1. TypeOK /\ CycleInv /\ ReadyInv
    BY TypeInit, AccountInit
  <2>2. OfferInv /\ PendingInv
    BY ConstantsAssumption DEF Init, OfferInv, PendingInv, Zero, NoTotal
  <2>3. ASSUME NEW s \in Sites
        PROVE  placed[s] + ThreadTotal[Claims(s)] <= Cardinality(Threads) * (1 + updates) * room[s]
    <3>1. room[s] \in Nat /\ placed[s] = 0 /\ updates = 0
          /\ \A t \in Threads : Claim(t, s) = room[s]
      BY ConstantsAssumption DEF Init, Claim, Pending, Greater, Zero
    <3>2. Claims(s) \in [Threads -> Int] /\ \A t \in Threads : Claims(s)[t] = room[s]
      BY <3>1 DEF Claims
    <3>3. ThreadTotal[Claims(s)] = Cardinality(Threads) * room[s]
      BY <3>1, <3>2, ClaimsAdd
    <3>4. Cardinality(Threads) \in Nat
      BY FinitenessAssumption, FS_CardinalityType
    <3>5. \A k, c \in Nat : 0 + k * c <= k * (1 + 0) * c
      OBVIOUS
    <3> QED  BY <3>1, <3>3, <3>4, <3>5
  <2> QED  BY <2>1, <2>2, <2>3 DEF ClaimInv
<1>2. Inv /\ [Next]_vars => Inv'
  BY TypeNext, ReadyNext, OfferNext, PendingNext, ClaimNext
<1>3. Inv => OvercommitBounded
  <2> SUFFICES ASSUME Inv, NEW s \in Sites
               PROVE  placed[s] <= Cardinality(Threads) * (1 + updates) * room[s]
    BY DEF OvercommitBounded
  <2>1. Claims(s) \in [Threads -> Nat] /\ placed[s] \in Nat /\ room[s] \in Nat
        /\ updates \in Nat
    BY SiteValues DEF Claims, TypeOK, EnvTypes
  <2>2. ThreadTotal[Claims(s)] >= 0 /\ ThreadTotal[Claims(s)] \in Int
    <3>1. Claims(s) \in [Threads -> Int]
      BY <2>1
    <3> QED  BY <2>1, <3>1, ClaimsAdd
  <2>3. placed[s] + ThreadTotal[Claims(s)] <= Cardinality(Threads) * (1 + updates) * room[s]
    BY DEF ClaimInv
  <2>4. Cardinality(Threads) * (1 + updates) * room[s] \in Nat
    BY <2>1, FinitenessAssumption, FS_CardinalityType, BoundGrows
  <2> QED  BY <2>1, <2>2, <2>3, <2>4
<1> QED  BY <1>1, <1>2, <1>3, PTL DEF Spec
-----------------------------------------------------------------------------
(* Which refusals of a centralized request there are. *)

\* The room found on the sites that still wait for their stacks.
Unplanned(t) == [s \in Sites |-> IF s \in todo[t] THEN maxCount[t][s] ELSE 0]

\* The plan of thread t adds up: what is scored is the sum, what a centralized
\* request still needs fits on the sites not yet planned, and what is planned
\* and not yet bound is on a site that the loop still comes to.
Adding(t) ==
    /\ pc[t] \in {"filter", "score"} => count[t] = 0 /\ \A s \in Sites : siteCount[t][s] = 0
    /\ pc[t] = "filter" => sum[t] = 0 /\ \A s \in Sites : maxCount[t][s] = 0
    /\ pc[t] = "score" =>
          /\ SiteTotal[maxCount[t]] = sum[t]
          /\ \A s \in Sites : s \in todo[t] \/ s \notin fit[t] => maxCount[t][s] = 0
    /\ pc[t] = "strategy" =>
          /\ count[t] = 0
          /\ \A s \in todo[t] : siteCount[t][s] = 0
          /\ req[t] \in Centralize => /\ SiteTotal[siteCount[t]] + left[t] = Replicas[req[t]]
                                      /\ SiteTotal[Unplanned(t)] >= left[t]
    /\ pc[t] = "bind" /\ req[t] \in Centralize =>
          SiteTotal[siteCount[t]] + count[t] = Replicas[req[t]]
    /\ \A s \in Sites : siteCount[t][s] # 0 => \E i \in 1..Len(order[t]) : order[t][i] = s

AddingInv == \A t \in Threads : Adding(t)

\* A site known from the start that a filter has refused is still full.
RefusedInv ==
    /\ \A s \in Registered : entry[s] = "ready"
    /\ \A t \in Threads : pc[t] = "filter" =>
          \A s \in Eligible[req[t]] \cap Registered :
              s \in todo[t] \/ s \in fit[t] \/ allocatable[s] < 1

LEMMA SitesAdd ==
    /\ \A f \in [Sites -> Int] : SiteTotal[f] \in Int
    /\ \A f, g \in [Sites -> Int], s \in Sites :
           (\A q \in Sites : q # s => g[q] = f[q]) => SiteTotal[g] = SiteTotal[f] + (g[s] - f[s])
    /\ \A f \in [Sites -> Int] : (\A s \in Sites : f[s] = 0) => SiteTotal[f] = 0
<1>0. Adds(SiteTotal, Sites, Sites)
  BY TotalsAdd
<1>1. /\ SiteTotal \in [[Sites -> Int] -> Int]
      /\ \A f, g \in [Sites -> Int], s \in Sites :
             (\A q \in Sites : q # s => g[q] = f[q]) => SiteTotal[g] = SiteTotal[f] + (g[s] - f[s])
      /\ \A f \in [Sites -> Int], c \in Int :
             (\A s \in Sites : f[s] = c) => SiteTotal[f] = Cardinality(Sites) * c
  BY <1>0 DEF Adds
<1>2. Cardinality(Sites) \in Nat
  BY FinitenessAssumption, FS_CardinalityType
<1>3. \A k \in Nat : k * 0 = 0
  OBVIOUS
<1>4. ASSUME NEW f \in [Sites -> Int], \A s \in Sites : f[s] = 0 PROVE SiteTotal[f] = 0
  <2>1. SiteTotal[f] = Cardinality(Sites) * 0
    BY <1>1, <1>4
  <2> QED  BY <1>2, <1>3, <2>1
<1> QED  BY <1>1, <1>4

\* What a centralized request gets from one site.
LEMMA CentralizeTakes ==
    ASSUME NEW r \in Centralize, NEW most \in Nat, NEW all, NEW rest \in Int, rest > 0
    PROVE  /\ StackCount(r, most, all, rest) \in Nat
           /\ StackCount(r, most, all, rest) <= rest
           /\ StackCount(r, most, all, rest) = rest \/ StackCount(r, most, all, rest) = most
BY DEF StackCount, Lesser

\* A plan is made site by site, and bound stack by stack.
LEMMA AddingPlan ==
    ASSUME TypeOK, CycleInv, NEW t \in Threads, Adding(t), NEW s \in Sites, PlanSite(t, s)
    PROVE  Adding(t)'
<1> DEFINE n == StackCount(req[t], maxCount[t][s], sum[t], left[t])
           f == siteCount[t]
           g == siteCount'[t]
           h == Unplanned(t)
           e == Unplanned(t)'
<1>1. /\ pc[t] = "strategy" /\ s \in todo[t]
      /\ siteCount' = [siteCount EXCEPT ![t][s] = n]
      /\ order' = [order EXCEPT ![t] = Append(@, s)]
      /\ left' = [left EXCEPT ![t] = @ - n]
      /\ todo' = [todo EXCEPT ![t] = @ \ {s}]
      /\ pc' = [pc EXCEPT ![t] = IF left[t] <= n \/ todo[t] = {s} THEN "bind" ELSE @]
      /\ UNCHANGED <<req, maxCount, sum, count>>
  BY DEF PlanSite
<1>2. /\ req[t] \in Requests /\ maxCount[t] \in [Sites -> Nat] /\ sum[t] \in Nat
      /\ left[t] \in Int /\ f \in [Sites -> Nat] /\ count[t] = 0
      /\ sum[t] > 0 /\ left[t] > 0 /\ todo[t] \in SUBSET Sites
      /\ order[t] \in Seq(Sites) /\ Replicas[req[t]] \in Nat
  BY <1>1, ConstantsAssumption DEF TypeOK, PlanTypes, CallTypes, CycleInv, Adding
<1>3. n \in Nat
  BY <1>2, StackCountBounds
<1> HIDE DEF n
<1>4. /\ g = [f EXCEPT ![s] = n] /\ left'[t] = left[t] - n /\ todo'[t] = todo[t] \ {s}
      /\ pc'[t] = IF left[t] <= n \/ todo[t] = {s} THEN "bind" ELSE "strategy"
      /\ order'[t] = Append(order[t], s)
      /\ maxCount'[t] = maxCount[t] /\ count'[t] = 0 /\ req'[t] = req[t]
  BY <1>1, <1>2 DEF TypeOK, PlanTypes, CallTypes
<1>5. /\ g \in [Sites -> Nat] /\ g[s] = n /\ \A q \in Sites : q # s => g[q] = f[q]
      /\ f[s] = 0 /\ \A q \in todo[t] : f[q] = 0
  BY <1>1, <1>2, <1>3, <1>4 DEF Adding
<1>6. \A q \in Sites : g[q] # 0 => \E i \in 1..Len(order'[t]) : order'[t][i] = q
  <2> SUFFICES ASSUME NEW q \in Sites, g[q] # 0
               PROVE  \E i \in 1..Len(order'[t]) : order'[t][i] = q
    OBVIOUS
  <2>1. /\ Len(order[t]) \in Nat /\ Len(order'[t]) = Len(order[t]) + 1
        /\ order'[t][Len(order[t]) + 1] = s
        /\ \A i \in 1..Len(order[t]) : order'[t][i] = order[t][i]
    BY <1>2, <1>4
  <2>2. CASE q = s
    <3>1. Len(order[t]) + 1 \in 1..Len(order'[t])
      BY <2>1
    <3> QED  BY <2>1, <2>2, <3>1
  <2>3. CASE q # s
    <3>1. PICK i \in 1..Len(order[t]) : order[t][i] = q
      BY <1>5, <2>3 DEF Adding
    <3>2. i \in 1..Len(order'[t]) /\ order'[t][i] = q
      BY <2>1, <3>1
    <3> QED  BY <3>2
  <2> QED  BY <2>2, <2>3
<1>7. ASSUME req[t] \in Centralize
      PROVE  /\ SiteTotal[g] + left'[t] = Replicas[req[t]]
             /\ pc'[t] = "strategy" => SiteTotal[e] >= left'[t]
             /\ pc'[t] = "bind" => left'[t] = 0
  <2>1. /\ SiteTotal[f] + left[t] = Replicas[req[t]]
        /\ SiteTotal[h] >= left[t]
    BY <1>1, <1>7 DEF Adding
  <2>2. /\ n <= left[t] /\ maxCount[t][s] \in Nat
        /\ n = left[t] \/ n = maxCount[t][s]
    BY <1>2, <1>7, CentralizeTakes DEF n
  <2>3. /\ h \in [Sites -> Int] /\ e \in [Sites -> Int]
        /\ h[s] = maxCount[t][s] /\ e[s] = 0
        /\ \A q \in Sites : q # s => e[q] = h[q]
        /\ todo[t] = {s} => \A q \in Sites : e[q] = 0
    BY <1>1, <1>2, <1>4 DEF Unplanned
  <2> HIDE DEF f, g, h, e
  <2>4. f \in [Sites -> Int] /\ g \in [Sites -> Int]
    BY <1>2, <1>5
  <2>5. SiteTotal[g] = SiteTotal[f] + (n - 0)
    BY <1>5, <2>4, SitesAdd
  <2>6. SiteTotal[e] = SiteTotal[h] + (0 - maxCount[t][s])
    BY <2>3, SitesAdd
  <2>7. SiteTotal[f] \in Int /\ SiteTotal[g] \in Int /\ SiteTotal[h] \in Int /\ SiteTotal[e] \in Int
    BY <2>3, <2>4, SitesAdd
  <2>8. todo[t] = {s} => SiteTotal[e] = 0
    BY <2>3, SitesAdd
  <2>9. SiteTotal[g] + left'[t] = Replicas[req[t]]
    BY <1>2, <1>3, <1>4, <2>1, <2>5, <2>7
  <2>10. n # left[t] => SiteTotal[e] >= left'[t]
    BY <1>2, <1>3, <1>4, <2>1, <2>2, <2>6, <2>7
  <2>11. CASE n = left[t]
    BY <1>2, <1>3, <1>4, <2>9, <2>11
  <2>12. CASE n # left[t]
    <3>1. SiteTotal[e] >= left'[t] /\ left'[t] \in Int /\ left'[t] >= 0
      BY <1>2, <1>3, <1>4, <2>2, <2>10, <2>12
    <3>2. pc'[t] = "bind" => todo[t] = {s}
      BY <1>2, <1>3, <1>4, <2>2, <2>12
    <3>3. todo[t] = {s} => left'[t] = 0
      BY <2>8, <3>1
    <3> QED  BY <2>9, <3>1, <3>2, <3>3
  <2> QED  BY <2>11, <2>12
<1>8. \A q \in todo'[t] : g[q] = 0
  BY <1>2, <1>4, <1>5
<1>9. g = siteCount'[t] /\ e = Unplanned(t)' /\ SiteTotal[g] \in Int
  BY <1>5, SitesAdd
<1> HIDE DEF f, g, h, e
<1> QED  BY <1>2, <1>3, <1>4, <1>6, <1>7, <1>8, <1>9 DEF Adding

\* A stack bound is one less to bind.
LEMMA AddingBind ==
    ASSUME TypeOK, CycleInv, ReadyInv, NEW t \in Threads, Adding(t), Bind(t)
    PROVE  Adding(t)'
<1> DEFINE f == siteCount[t]
           g == siteCount'[t]
<1>1. PICK s \in Sites : /\ siteCount[t][s] > 0
                         /\ siteCount' = [siteCount EXCEPT ![t][s] = @ - 1]
  BY BindDeducts
<1>2. /\ pc[t] = "bind" /\ pc'[t] = "bind" /\ req'[t] = req[t] /\ order'[t] = order[t]
      /\ count'[t] = count[t] + 1
  BY DEF Bind, InLoop, Deduct, TypeOK, PlanTypes
<1>3. /\ f \in [Sites -> Nat] /\ count[t] \in Nat
      /\ req[t] \in Requests /\ Replicas[req[t]] \in Nat
  BY <1>2, ConstantsAssumption DEF TypeOK, PlanTypes, CycleInv
<1>4. g = [f EXCEPT ![s] = f[s] - 1]
  BY <1>1 DEF TypeOK, PlanTypes
<1>5. /\ f \in [Sites -> Int] /\ g \in [Sites -> Int] /\ g[s] = f[s] - 1
      /\ f[s] > 0 /\ f[s] \in Nat /\ \A q \in Sites : q # s => g[q] = f[q]
  BY <1>1, <1>3, <1>4
<1>6. \A q \in Sites : g[q] # 0 => f[q] # 0
  BY <1>5
<1>7. g = siteCount'[t] /\ f = siteCount[t]
  OBVIOUS
<1> HIDE DEF f, g
<1>8. SiteTotal[g] = SiteTotal[f] + (g[s] - f[s]) /\ SiteTotal[f] \in Int
  BY <1>5, SitesAdd
<1>9. req[t] \in Centralize => SiteTotal[g] + count'[t] = Replicas[req[t]]
  <2>1. req[t] \in Centralize => SiteTotal[f] + count[t] = Replicas[req[t]]
    BY <1>2, <1>7 DEF Adding
  <2> QED  BY <1>2, <1>3, <1>5, <1>8, <2>1
<1>10. \A q \in Sites : g[q] # 0 => \E i \in 1..Len(order[t]) : order[t][i] = q
  BY <1>6, <1>7 DEF Adding
<1> QED  BY <1>2, <1>7, <1>9, <1>10 DEF Adding

\* Every other step of the thread.
LEMMA AddingMine ==
    ASSUME TypeOK, CycleInv, ReadyInv, NEW t \in Threads, Adding(t), Schedule(t)
    PROVE  Adding(t)'
<1>a. ASSUME NewCycleState(t), pc'[t] \in {"idle", "filter"} PROVE Adding(t)'
  <2>1. /\ \A q \in Sites : siteCount'[t][q] = 0 /\ maxCount'[t][q] = 0
        /\ sum'[t] = 0 /\ count'[t] = 0
    BY <1>a DEF NewCycleState, Zero, TypeOK, PlanTypes
  <2> QED  BY <1>a, <2>1 DEF Adding
<1>b. ASSUME NEW r, NEW v, Call(t, r, v) PROVE Adding(t)'
  BY <1>a, <1>b DEF Call, TypeOK, CallTypes
<1>c. ASSUME Idle(t) PROVE Adding(t)'
  BY <1>a, <1>c DEF Idle, TypeOK, CallTypes
<1>1. ASSUME NEW r \in Requests, Begin(t, r) PROVE Adding(t)'
  BY <1>1, <1>b DEF Begin
<1>2. ASSUME NEW s \in Sites, FilterSite(t, s) PROVE Adding(t)'
  BY <1>2 DEF FilterSite, planVars, Adding
<1>3. ASSUME NEW s \in Sites, ScoreSite(t, s) PROVE Adding(t)'
  <2> DEFINE most == IF allocatable[s] >= 1 THEN allocatable[s] ELSE 0
             f == maxCount[t]
             g == maxCount'[t]
  <2>1. /\ pc[t] = "score" /\ s \in todo[t] /\ s \in fit[t]
        /\ UNCHANGED <<pc, req, fit, siteCount, order, count>>
        /\ todo'[t] = todo[t] \ {s} /\ sum'[t] = sum[t] + most
        /\ g = [f EXCEPT ![s] = most]
    BY <1>3 DEF ScoreSite, ReadyInv, TypeOK, PlanTypes, CallTypes
  <2>2. most \in Nat /\ f \in [Sites -> Nat] /\ sum[t] \in Nat
    BY DEF TypeOK, SiteTypes, PlanTypes
  <2>3. SiteTotal[f] = sum[t] /\ f[s] = 0
        /\ \A q \in Sites : q \in todo[t] \/ q \notin fit[t] => f[q] = 0
    BY <2>1 DEF Adding
  <2> HIDE DEF most
  <2>4. /\ f \in [Sites -> Int] /\ g \in [Sites -> Int] /\ g[s] = most
        /\ \A q \in Sites : q # s => g[q] = f[q]
    BY <2>1, <2>2
  <2>7. f = maxCount[t] /\ g = maxCount'[t]
    OBVIOUS
  <2> HIDE DEF f, g
  <2>5. SiteTotal[g] = SiteTotal[f] + (most - 0)
    BY <2>3, <2>4, SitesAdd
  <2>6. SiteTotal[g] = sum'[t]
    BY <2>1, <2>2, <2>3, <2>5
  <2> QED  BY <2>1, <2>3, <2>4, <2>6, <2>7 DEF Adding
<1>4. ASSUME NEW s \in Sites, PlanSite(t, s) PROVE Adding(t)'
  BY <1>4, AddingPlan
<1>5. CASE Filtered(t)
  <2>1. CASE Fail(t)
    BY <1>c, <2>1 DEF Fail, Return
  <2>2. CASE ~Fail(t)
    <3>1. /\ pc[t] = "filter" /\ pc'[t] = "score" /\ fit'[t] = fit[t]
          /\ UNCHANGED <<maxCount, sum, siteCount, order, count>>
      BY <1>5, <2>2 DEF Filtered, planVars, TypeOK, CallTypes
    <3>2. sum[t] = 0 /\ \A s \in Sites : maxCount[t][s] = 0
      BY <3>1 DEF Adding
    <3>3. maxCount[t] \in [Sites -> Int]
      BY DEF TypeOK, PlanTypes
    <3>4. SiteTotal[maxCount[t]] = 0
      BY <3>2, <3>3, SitesAdd
    <3> QED  BY <3>1, <3>2, <3>4 DEF Adding
  <2> QED  BY <2>1, <2>2
<1>6. CASE Scored(t)
  <2>1. CASE Succeed(t)
    BY <1>b, <1>c, <2>1 DEF Succeed, Return
  <2>3. CASE Drop(t)
    BY <1>c, <2>3 DEF Drop
  <2>2. CASE ~Succeed(t) /\ ~Drop(t)
    <3>1. /\ pc[t] = "score" /\ pc'[t] = "strategy" /\ todo[t] = {} /\ todo'[t] = fit[t]
          /\ Replicas[req[t]] <= sum[t] /\ left'[t] = Replicas[req[t]]
          /\ UNCHANGED <<req, maxCount, sum, siteCount, order, count>>
      BY <1>6, <2>2 DEF Scored, TypeOK, CallTypes, PlanTypes
    <3>2. /\ count[t] = 0 /\ \A s \in Sites : siteCount[t][s] = 0
          /\ SiteTotal[maxCount[t]] = sum[t]
          /\ \A s \in Sites : s \notin fit[t] => maxCount[t][s] = 0
      BY <3>1 DEF Adding
    <3>3. /\ siteCount[t] \in [Sites -> Int] /\ maxCount[t] \in [Sites -> Int] /\ sum[t] \in Nat
          /\ fit[t] \in SUBSET Sites /\ req[t] \in Requests /\ Replicas[req[t]] \in Nat
      BY <3>1, ConstantsAssumption DEF TypeOK, PlanTypes, CallTypes, CycleInv
    <3>4. SiteTotal[siteCount[t]] = 0
      BY <3>2, <3>3, SitesAdd
    <3>5. Unplanned(t)' = maxCount[t]
      <4>1. Unplanned(t)' = [s \in Sites |-> IF s \in fit[t] THEN maxCount[t][s] ELSE 0]
        BY <3>1 DEF Unplanned
      <4>2. \A s \in Sites : (IF s \in fit[t] THEN maxCount[t][s] ELSE 0) = maxCount[t][s]
        BY <3>2
      <4> QED  BY <3>3, <4>1, <4>2
    <3>6. \A s \in todo'[t] : siteCount'[t][s] = 0
      BY <3>1, <3>2, <3>3
    <3>7. \A s \in Sites : siteCount'[t][s] = 0
      BY <3>1, <3>2
    <3>8. count'[t] = 0 /\ SiteTotal[siteCount'[t]] + left'[t] = Replicas[req'[t]]
          /\ SiteTotal[Unplanned(t)'] >= left'[t]
      BY <3>1, <3>2, <3>3, <3>4, <3>5
    <3> QED  BY <3>1, <3>6, <3>7, <3>8 DEF Adding
  <2> QED  BY <2>1, <2>2, <2>3
<1>7. CASE Bind(t)
  BY <1>7, AddingBind
<1>8. CASE NextSite(t)
  <2>1. /\ pc[t] = "bind" /\ order[t] # <<>> /\ siteCount[t][Head(order[t])] = 0
        /\ order'[t] = Tail(order[t])
        /\ UNCHANGED <<pc, req, siteCount, count>>
    BY <1>8 DEF NextSite, InLoop, TypeOK, PlanTypes
  <2>2. order[t] \in Seq(Sites)
    BY DEF TypeOK, PlanTypes
  <2>3. ASSUME NEW q \in Sites, siteCount[t][q] # 0
        PROVE  \E i \in 1..Len(order'[t]) : order'[t][i] = q
    <3>1. PICK i \in 1..Len(order[t]) : order[t][i] = q
      BY <2>3 DEF Adding
    <3>2. /\ Len(order'[t]) = Len(order[t]) - 1 /\ Len(order[t]) \in Nat
          /\ \A j \in 1..Len(order[t]) - 1 : order'[t][j] = order[t][j + 1]
          /\ Head(order[t]) = order[t][1]
      BY <2>1, <2>2
    <3>3. i # 1
      BY <2>1, <2>3, <3>1, <3>2
    <3>4. i - 1 \in 1..Len(order[t]) - 1 /\ (i - 1) + 1 = i
      BY <3>1, <3>2, <3>3
    <3>5. order'[t][i - 1] = q
      BY <3>1, <3>2, <3>4
    <3> QED  BY <3>2, <3>4, <3>5
  <2> QED  BY <2>1, <2>3 DEF Adding
<1>9. CASE Finish(t)
  BY <1>9, <1>b, <1>c DEF Finish, Succeed, Fail, Return
<1> QED  BY <1>1, <1>2, <1>3, <1>4, <1>5, <1>6, <1>7, <1>8, <1>9 DEF Schedule

LEMMA AddingNext ==
    ASSUME TypeOK, CycleInv, ReadyInv, AddingInv, [Next]_vars
    PROVE  AddingInv'
<1>1. ASSUME NEW t \in Threads, Schedule(t) PROVE AddingInv'
  <2> SUFFICES ASSUME NEW u \in Threads PROVE Adding(u)'
    BY DEF AddingInv
  <2>1. Adding(u)
    BY DEF AddingInv
  <2>2. CASE u = t
    BY <1>1, <2>1, <2>2, AddingMine
  <2>3. CASE u # t
    <3>1. /\ pc'[u] = pc[u] /\ req'[u] = req[u] /\ todo'[u] = todo[u] /\ fit'[u] = fit[u]
          /\ sum'[u] = sum[u] /\ left'[u] = left[u] /\ order'[u] = order[u]
          /\ maxCount'[u] = maxCount[u] /\ siteCount'[u] = siteCount[u] /\ count'[u] = count[u]
      BY <1>1, <2>3, OnlyMine
    <3>2. Unplanned(u)' = Unplanned(u)
      BY <3>1 DEF Unplanned
    <3> QED  BY <2>1, <3>1, <3>2 DEF Adding
  <2> QED  BY <2>2, <2>3
<1>2. CASE UNCHANGED callVars
  <2> SUFFICES ASSUME NEW u \in Threads PROVE Adding(u)'
    BY DEF AddingInv
  <2>1. Unplanned(u)' = Unplanned(u)
    BY <1>2 DEF Unplanned, callVars, planVars
  <2> QED  BY <1>2, <2>1 DEF AddingInv, Adding, callVars, planVars
<1>3. ASSUME NEW s \in Sites, UpdateSiteDynamicResource(s) \/ UpdateStaticSiteResourceInfo(s)
      PROVE  UNCHANGED callVars
  BY <1>3 DEF UpdateSiteDynamicResource, UpdateStaticSiteResourceInfo
<1>4. UNCHANGED vars => UNCHANGED callVars
  BY DEF vars
<1> QED  BY <1>1, <1>2, <1>3, <1>4 DEF Next, Done

\* Without updates, what a known site offers only falls.
LEMMA OffersFall ==
    ASSUME NoUpdates, TypeOK, CycleInv, ReadyInv, [Next]_vars
    PROVE  \A s \in Sites : entry[s] = "ready" => /\ entry'[s] = "ready"
                                                  /\ allocatable[s] < 1 => allocatable'[s] < 1
<1> SUFFICES ASSUME NEW q \in Sites, entry[q] = "ready"
             PROVE  entry'[q] = "ready" /\ (allocatable[q] < 1 => allocatable'[q] < 1)
  OBVIOUS
<1>1. entry'[q] = "ready"
  BY ReadyNext
<1>2. ASSUME NEW t \in Threads, Schedule(t) PROVE allocatable[q] < 1 => allocatable'[q] < 1
  <2>1. CASE Bind(t)
    <3>1. PICK s \in Sites : allocatable' = [allocatable EXCEPT ![s] = Deducted(s)]
      BY <2>1, BindDeducts
    <3>2. /\ total[s] \in Int /\ allocatable[s] \in Int /\ requested[s] \in Nat
      BY SiteValues
    <3>3. allocatable[s] < 1 => Deducted(s) < 1
      BY <3>2 DEF Deducted, Lesser
    <3> QED  BY <3>1, <3>3 DEF TypeOK, SiteTypes
  <2>2. CASE ~Bind(t)
    BY <1>2, <2>2, OnlyBindDeducts DEF siteVars
  <2> QED  BY <2>1, <2>2
<1>3. ASSUME NEW s \in Sites, UpdateSiteDynamicResource(s) PROVE allocatable' = allocatable
  BY <1>3 DEF UpdateSiteDynamicResource
<1>4. ASSUME NEW s \in Sites, UpdateStaticSiteResourceInfo(s) PROVE allocatable'[q] = allocatable[q]
  <2>1. entry[s] # "ready"
    BY <1>4, ConstantsAssumption DEF UpdateStaticSiteResourceInfo, NoUpdates, TypeOK, EnvTypes
  <2> QED  BY <1>4, <2>1 DEF UpdateStaticSiteResourceInfo, TypeOK, SiteTypes
<1>5. UNCHANGED vars => allocatable' = allocatable
  BY DEF vars, siteVars
<1> QED  BY <1>1, <1>2, <1>3, <1>4, <1>5 DEF Next, Done

\* What a filter has refused stays refused.
LEMMA RefusedMine ==
    ASSUME TypeOK, RefusedInv, NEW t \in Threads, Schedule(t), pc'[t] = "filter",
           NEW s \in Eligible[req'[t]] \cap Registered
    PROVE  s \in todo'[t] \/ s \in fit'[t] \/ allocatable[s] < 1
<1>1. s \in Sites /\ entry[s] = "ready"
  BY ConstantsAssumption DEF RefusedInv
<1>2. s \in Known
  BY <1>1 DEF Known
<1>a. ASSUME NEW r, NEW v, Call(t, r, v) PROVE s \in todo'[t]
  BY <1>a, <1>2 DEF Call, TypeOK, CallTypes
<1>b. ASSUME Idle(t) PROVE FALSE
  BY <1>b DEF Idle, TypeOK, CallTypes
<1>3. ASSUME NEW r \in Requests, Begin(t, r) PROVE s \in todo'[t]
  BY <1>3, <1>a DEF Begin
<1>4. ASSUME NEW q \in Sites, FilterSite(t, q)
      PROVE  s \in todo'[t] \/ s \in fit'[t] \/ allocatable[s] < 1
  <2>1. pc[t] = "filter" /\ req' = req
    BY <1>4 DEF FilterSite
  <2>2. s \in todo[t] \/ s \in fit[t] \/ allocatable[s] < 1
    BY <2>1 DEF RefusedInv
  <2>3. allocatable[q] \in Int /\ req[t] = req'[t]
    BY <2>1 DEF TypeOK, SiteTypes
  <2>4. CASE entry[q] = "bare"
    <3>1. UNCHANGED <<todo, fit>>
      BY <1>4, <2>4 DEF FilterSite
    <3> QED  BY <2>2, <3>1
  <2>5. CASE entry[q] # "bare"
    <3>1. /\ todo'[t] = todo[t] \ {q}
          /\ fit'[t] = IF q \in Eligible[req[t]] /\ allocatable[q] >= 1 THEN fit[t] \cup {q} ELSE fit[t]
      BY <1>4, <2>5 DEF FilterSite, TypeOK, CallTypes
    <3>2. CASE s = q
      BY <2>3, <3>1, <3>2
    <3>3. CASE s # q
      BY <2>2, <3>1, <3>3
    <3> QED  BY <3>2, <3>3
  <2> QED  BY <2>4, <2>5
<1>5. ASSUME NEW q \in Sites, ScoreSite(t, q) \/ PlanSite(t, q) PROVE FALSE
  BY <1>5 DEF ScoreSite, PlanSite, TypeOK, CallTypes
<1>6. CASE Filtered(t)
  BY <1>6, <1>b DEF Filtered, Fail, Return, TypeOK, CallTypes
<1>7. CASE Scored(t)
  BY <1>7, <1>a, <1>b DEF Scored, Succeed, Drop, Return, TypeOK, CallTypes
<1>8. CASE Bind(t) \/ NextSite(t)
  BY <1>8 DEF Bind, NextSite, Deduct, InLoop
<1>9. CASE Finish(t)
  BY <1>9, <1>a, <1>b DEF Finish, Succeed, Fail, Return
<1> QED  BY <1>3, <1>4, <1>5, <1>6, <1>7, <1>8, <1>9 DEF Schedule

LEMMA RefusedNext ==
    ASSUME NoUpdates, TypeOK, CycleInv, ReadyInv, RefusedInv, [Next]_vars
    PROVE  RefusedInv'
<1>1. Registered \subseteq Sites
  BY ConstantsAssumption
<1>2. \A s \in Registered : /\ entry[s] = "ready" /\ entry'[s] = "ready"
                            /\ allocatable[s] < 1 => allocatable'[s] < 1
  BY <1>1, OffersFall DEF RefusedInv
<1> SUFFICES ASSUME NEW u \in Threads, pc'[u] = "filter",
                    NEW s \in Eligible[req'[u]] \cap Registered
             PROVE  s \in todo'[u] \/ s \in fit'[u] \/ allocatable[s] < 1
  BY <1>2 DEF RefusedInv
<1>3. ASSUME NEW t \in Threads, Schedule(t)
      PROVE  s \in todo'[u] \/ s \in fit'[u] \/ allocatable[s] < 1
  <2>1. CASE u = t
    BY <1>3, <2>1, RefusedMine
  <2>2. CASE u # t
    BY <1>3, <2>2, OnlyMine DEF RefusedInv
  <2> QED  BY <2>1, <2>2
<1>4. CASE UNCHANGED callVars
  BY <1>4 DEF callVars, RefusedInv
<1>5. ASSUME NEW q \in Sites, UpdateSiteDynamicResource(q) \/ UpdateStaticSiteResourceInfo(q)
      PROVE  UNCHANGED callVars
  BY <1>5 DEF UpdateSiteDynamicResource, UpdateStaticSiteResourceInfo
<1>6. UNCHANGED vars => UNCHANGED callVars
  BY DEF vars
<1> QED  BY <1>3, <1>4, <1>5, <1>6 DEF Next, Done

\* A refusal comes from the filter, or from a plan that came out short.
LEMMA RefusalStep ==
    ASSUME TypeOK, CycleInv, AddingInv, RefusedInv, NEW t \in Threads, Schedule(t),
           NEW r \in Centralize, phase[r] = "Assigned", phase'[r] = "NotScheduled"
    PROVE  \A s \in Eligible[r] \cap Registered : allocatable[s] < 1
<1>r. r \in Requests
  BY ConstantsAssumption
<1>a. ASSUME Fail(t), pc[t] # "idle" PROVE req[t] = r
  <2>1. phase' = [phase EXCEPT ![req[t]] = "NotScheduled"]
    BY <1>a DEF Fail, Return
  <2> QED  BY <1>r, <2>1 DEF TypeOK
<1>b. ASSUME Succeed(t) PROVE FALSE
  BY <1>b, <1>r DEF Succeed, Return, TypeOK, apiVars
<1>1. phase' # phase
  OBVIOUS
<1>2. CASE Filtered(t)
  <2>1. pc[t] = "filter" /\ todo[t] = {} /\ fit[t] = {} /\ Fail(t)
    BY <1>1, <1>2 DEF Filtered, apiVars
  <2>2. req[t] = r
    BY <1>a, <2>1
  <2> QED  BY <2>1, <2>2 DEF RefusedInv
<1>3. CASE Finish(t)
  <2>1. pc[t] = "bind" /\ order[t] = <<>> /\ count[t] < Replicas[req[t]] /\ Fail(t)
    BY <1>b, <1>3 DEF Finish
  <2>2. req[t] = r /\ Adding(t)
    BY <1>a, <2>1 DEF AddingInv
  <2>3. Len(order[t]) = 0
    BY <2>1
  <2>4. \A s \in Sites : siteCount[t][s] = 0
    BY <2>2, <2>3 DEF Adding
  <2>5. siteCount[t] \in [Sites -> Int] /\ count[t] \in Nat /\ Replicas[r] \in Nat
    BY <1>r, ConstantsAssumption DEF TypeOK, PlanTypes
  <2>6. SiteTotal[siteCount[t]] = 0
    BY <2>4, <2>5, SitesAdd
  <2>7. SiteTotal[siteCount[t]] + count[t] = Replicas[r]
    BY <2>1, <2>2 DEF Adding
  <2> QED  BY <2>1, <2>2, <2>5, <2>6, <2>7
<1>4. CASE Scored(t)
  BY <1>1, <1>b, <1>4 DEF Scored, Drop, apiVars
<1> QED
  BY <1>1, <1>2, <1>3, <1>4
     DEF Schedule, Begin, FilterSite, ScoreSite, PlanSite, Bind, Deduct, NextSite, apiVars

\* For any number of threads, as long as no update replaces the entry of a
\* site: a centralized request is refused only when every registered site that
\* its selector accepts is full.  What the strategy plans for it always adds up
\* to its replicas, so that only an empty filter result is left.
THEOREM RefusalsAreJustified ==
    ASSUME NoUpdates
    PROVE  Spec => RefusedOnlyWhenFull
<1> DEFINE Inv == TypeOK /\ CycleInv /\ ReadyInv /\ AddingInv /\ RefusedInv
           Justified == \A r \in Centralize : phase[r] = "Assigned" /\ phase'[r] = "NotScheduled" =>
                           \A s \in Eligible[r] \cap Registered : allocatable[s] < 1
<1>1. Init => Inv
  <2> SUFFICES ASSUME Init PROVE Inv
    OBVIOUS
  <2>1. TypeOK /\ CycleInv /\ ReadyInv
    BY TypeInit, AccountInit
  <2>2. AddingInv
    BY DEF Init, AddingInv, Adding, Zero
  <2>3. RefusedInv
    BY ConstantsAssumption DEF Init, RefusedInv
  <2> QED  BY <2>1, <2>2, <2>3
<1>2. Inv /\ [Next]_vars => Inv'
  <2> SUFFICES ASSUME Inv, [Next]_vars PROVE Inv'
    OBVIOUS
  <2>1. TypeOK' /\ CycleInv'
    BY TypeNext
  <2>2. ReadyInv' /\ AddingInv'
    BY ReadyNext, AddingNext
  <2>3. RefusedInv'
    BY NoUpdates, RefusedNext
  <2> QED  BY <2>1, <2>2, <2>3
<1>3. Inv /\ [Next]_vars => [Justified]_vars
  <2> SUFFICES ASSUME Inv, [Next]_vars, NEW r \in Centralize,
                      phase[r] = "Assigned", phase'[r] = "NotScheduled"
               PROVE  \A s \in Eligible[r] \cap Registered : allocatable[s] < 1
    OBVIOUS
  <2>1. phase' # phase
    OBVIOUS
  <2>2. PICK t \in Threads : Schedule(t)
    BY <2>1 DEF Next, Done, vars, apiVars, UpdateSiteDynamicResource, UpdateStaticSiteResourceInfo
  <2> QED  BY <2>2, RefusalStep
<1> QED  BY <1>1, <1>2, <1>3, PTL DEF Spec, RefusedOnlyWhenFull
-----------------------------------------------------------------------------
(* The scheduler controller.                                               *)

(* What EvenlyDivide is proved to do.                                       *)
Division == INSTANCE EvenlyDivideProofs
    WITH MaxInt <- 0, size <- 0, upper <- 0, i <- 0, start <- 0, res <- <<>>, pc <- ""

PartType == [cluster : SUBSET Clusters, union : SUBSET Attributes]

(* SchedulersTypeOK, with the shapes of the records and of a balance.      *)
ObjectsInv ==
    /\ apiClusters \subseteq Clusters
    /\ apiUid \in [Schedulers -> 0..MaxUid] /\ lastUid \in 0..MaxUid
    /\ apiCluster \in [Schedulers -> SUBSET Clusters]
    /\ apiUnion \in [Schedulers -> SUBSET Attributes]
    /\ apiAttr \in [Clusters -> Attributes]
    /\ changes \in 0..MaxClusterChange /\ clusterUpdates \in 0..MaxClusterUpdate

MemoryInv ==
    /\ seenClusters \subseteq Clusters /\ IsFiniteSet(seenClusters)
    /\ addedAttr \in [Clusters -> Attributes] /\ strayed \subseteq Attributes
    /\ seenUid \in [Schedulers -> 0..MaxUid]
    /\ schedulers \in Seq(Schedulers)
    /\ IsABag(queue) /\ BagToSet(queue) \subseteq Schedulers
    /\ started \subseteq 1..MaxUid /\ unqueued \subseteq Schedulers
    /\ faults \in 0..MaxTrouble /\ restarts \in 0..MaxTrouble /\ running \in BOOLEAN

TaskInv ==
    \/ task = NoTask
    \/ /\ task = [adding |-> task.adding, parts |-> task.parts, next |-> task.next]
       /\ task.adding \subseteq Schedulers /\ task.parts \in Seq(PartType)
       /\ task.next \in 1..Len(task.parts) /\ Len(task.parts) <= Len(schedulers)

(* Uids are given out in order, and a new one was never notified.          *)
UidsInv == \A s \in Schedulers : apiUid[s] <= lastUid /\ seenUid[s] <= lastUid

(* sc.schedulers lists what was notified, each scheduler once.             *)
ListInv ==
    /\ \A s \in Schedulers : seenUid[s] # 0 <=> \E i \in 1..Len(schedulers) : schedulers[i] = s
    /\ \A i, j \in 1..Len(schedulers) : schedulers[i] = schedulers[j] => i = j

(* A map counts the clusters that were added with an attribute, unless the *)
(* attribute strayed.                                                      *)
Holders(at, cs, a) == {c \in cs : at[c] = a}

Tallies(map, at, cs, lost) ==
    /\ DOMAIN map \subseteq Attributes
    /\ \A a \in Attributes \ lost :
           /\ a \in DOMAIN map <=> Holders(at, cs, a) # {}
           /\ a \in DOMAIN map => map[a] = Cardinality(Holders(at, cs, a))

(* The tree fits the clusters: it has the nodes on their paths and no      *)
(* others, and a node counts the clusters below it and their attributes.   *)
BelowIn(cs, p) == {c \in cs : Geo(c) = p \/ Extends(Geo(c), p)}

TreeFits(tree, cs, at, lost) ==
    /\ IsFiniteSet(DOMAIN tree) /\ Root \in DOMAIN tree
    /\ \A c \in cs : PathPrefixes(Geo(c), 0..Len(Geo(c))) \subseteq DOMAIN tree
    /\ \A p \in DOMAIN tree : /\ p \in Seq(STRING)
                              /\ p = Root \/ BelowIn(cs, p) # {}
                              /\ tree[p].clusterMap = SetToBag(BelowIn(cs, p))
                              /\ Tallies(tree[p].unionMap, at, BelowIn(cs, p), lost)

(* A scheduler that was notified has its process, or is on its way to it.  *)
StartedInv ==
    faults = 0 => \A s \in Schedulers :
        apiUid[s] # 0 /\ seenUid[s] = apiUid[s] =>
            apiUid[s] \in started \/ s \in unqueued \/ s \in BagToSet(queue)
                \/ s \in task.adding

(* The parts divide the clusters among the first schedulers, or all.       *)
Divides(parts, cs, n, at, lost) ==
    /\ UNION {parts[k].cluster : k \in 1..Len(parts)} = cs
    /\ \A k \in 1..Len(parts) :
           /\ parts[k].union \ lost = {at[c] : c \in parts[k].cluster} \ lost
           /\ \A l \in 1..Len(parts) : k # l => parts[k].cluster \cap parts[l].cluster = {}
    /\ n <= Cardinality(cs) => Len(parts) = n

(* What the first m schedulers of the list have been given.                *)
Given(m) == [k \in 1..m |-> [cluster |-> apiCluster[schedulers[k]],
                             union   |-> apiUnion[schedulers[k]]]]

(* No scheduler of the list was deleted since it was notified.             *)
NoneGone == \A i \in 1..Len(schedulers) : apiUid[schedulers[i]] = seenUid[schedulers[i]]

(* A balance writes a division of the clusters; the division is complete   *)
(* when it ends, unless a scheduler is gone.                               *)
DividedInv ==
    faults = 0 =>
        /\ task # NoTask =>
               /\ Divides(task.parts, seenClusters, Len(schedulers), addedAttr, strayed)
               /\ \A k \in 1..(task.next - 1) :
                      apiUid[schedulers[k]] = seenUid[schedulers[k]] =>
                          /\ apiCluster[schedulers[k]] = task.parts[k].cluster
                          /\ apiUnion[schedulers[k]] = task.parts[k].union
        /\ task = NoTask /\ NoneGone /\ schedulers # <<>> =>
               \E m \in 1..Len(schedulers) :
                   Divides(Given(m), seenClusters, Len(schedulers), addedAttr, strayed)

SchedulersInv ==
    /\ ObjectsInv /\ MemoryInv /\ TaskInv /\ UidsInv /\ ListInv
    /\ TreeFits(countryNode, seenClusters, addedAttr, strayed) /\ StartedInv /\ DividedInv
-----------------------------------------------------------------------------
(* Paths.                                                                  *)

IsPrefixOf(p, q) == Len(p) <= Len(q) /\ \A i \in 1..Len(p) : p[i] = q[i]

LEMMA SeqEquality ==
    ASSUME NEW S, NEW p \in Seq(S), NEW q \in Seq(S), Len(p) = Len(q),
           \A i \in 1..Len(p) : p[i] = q[i]
    PROVE  p = q
  BY SeqEqual

LEMMA FirstPart ==
    ASSUME NEW S, NEW q \in Seq(S), NEW d \in 0..Len(q)
    PROVE  /\ SubSeq(q, 1, d) \in Seq(S) /\ Len(SubSeq(q, 1, d)) = d
           /\ \A i \in 1..d : SubSeq(q, 1, d)[i] = q[i]
<1>1. Len(q) \in Nat /\ DOMAIN q = 1..Len(q) /\ d \in Nat /\ \A i \in 1..Len(q) : q[i] \in S
  OBVIOUS
<1>2. SubSeq(q, 1, d) = [i \in 1..d |-> q[i]]
  BY <1>1
<1>3. [i \in 1..d |-> q[i]] \in Seq(S) /\ Len([i \in 1..d |-> q[i]]) = d
  BY <1>1
<1>. QED
  BY <1>2, <1>3

(* A path is a prefix of another in the sense of the model iff it is one   *)
(* element by element.                                                     *)
LEMMA PrefixForm ==
    ASSUME NEW S, NEW p \in Seq(S), NEW q \in Seq(S)
    PROVE  /\ q = p \/ Extends(q, p) <=> IsPrefixOf(p, q)
           /\ p \in PathPrefixes(q, 0..Len(q)) <=> IsPrefixOf(p, q)
<1>0. Len(p) \in Nat /\ Len(q) \in Nat
  OBVIOUS
<1>1. ASSUME IsPrefixOf(p, q) PROVE SubSeq(q, 1, Len(p)) = p /\ Len(p) \in 0..Len(q)
  <2>1. Len(p) \in 0..Len(q)
    BY <1>0, <1>1 DEF IsPrefixOf
  <2>2. /\ SubSeq(q, 1, Len(p)) \in Seq(S) /\ Len(SubSeq(q, 1, Len(p))) = Len(p)
        /\ \A i \in 1..Len(p) : SubSeq(q, 1, Len(p))[i] = q[i]
    BY <2>1, FirstPart
  <2>. QED
    BY <1>1, <2>1, <2>2, SeqEquality DEF IsPrefixOf
<1>2. ASSUME NEW d \in 0..Len(q), p = SubSeq(q, 1, d) PROVE IsPrefixOf(p, q)
  BY <1>2, FirstPart DEF IsPrefixOf
<1>3. IsPrefixOf(p, q) => q = p \/ Extends(q, p)
  <2>1. ASSUME IsPrefixOf(p, q), Len(q) <= Len(p) PROVE q = p
    <3>1. Len(p) = Len(q) /\ \A i \in 1..Len(p) : p[i] = q[i]
      BY <1>0, <2>1 DEF IsPrefixOf
    <3>. QED
      BY <3>1, SeqEquality
  <2>. QED
    BY <1>0, <1>1, <2>1 DEF Extends
<1>4. q = p \/ Extends(q, p) => IsPrefixOf(p, q)
  <2>1. ASSUME Extends(q, p) PROVE IsPrefixOf(p, q)
    <3>1. Len(p) \in 0..Len(q) /\ p = SubSeq(q, 1, Len(p))
      BY <1>0, <2>1 DEF Extends
    <3>. QED
      BY <1>2, <3>1
  <2>2. q = p => IsPrefixOf(p, q)
    BY <1>0 DEF IsPrefixOf
  <2>. QED
    BY <2>1, <2>2
<1>5. p \in PathPrefixes(q, 0..Len(q)) <=> IsPrefixOf(p, q)
  BY <1>1, <1>2 DEF PathPrefixes
<1>. QED
  BY <1>3, <1>4, <1>5

LEMMA PrefixTransitive ==
    ASSUME NEW S, NEW p \in Seq(S), NEW q \in Seq(S), NEW r \in Seq(S),
           IsPrefixOf(p, q), IsPrefixOf(q, r)
    PROVE  IsPrefixOf(p, r)
<1>1. Len(p) \in Nat /\ Len(q) \in Nat /\ Len(r) \in Nat
  OBVIOUS
<1>. QED
  BY <1>1 DEF IsPrefixOf

(* Prefixes of one path that are as long as each other are the same.       *)
LEMMA PrefixUnique ==
    ASSUME NEW S, NEW p \in Seq(S), NEW q \in Seq(S), NEW r \in Seq(S),
           IsPrefixOf(p, r), IsPrefixOf(q, r), Len(p) = Len(q)
    PROVE  p = q
<1>1. \A i \in 1..Len(p) : p[i] = q[i]
  BY DEF IsPrefixOf
<1>. QED
  BY <1>1, SeqEquality

(* The prefixes of a path are paths.                                       *)
LEMMA PrefixesType ==
    ASSUME NEW S, NEW q \in Seq(S)
    PROVE  /\ PathPrefixes(q, 0..Len(q)) \subseteq Seq(S)
           /\ IsFiniteSet(PathPrefixes(q, 0..Len(q)))
           /\ Root \in PathPrefixes(q, 0..Len(q)) /\ q \in PathPrefixes(q, 0..Len(q))
<1>0. Len(q) \in Nat
  OBVIOUS
<1>1. PathPrefixes(q, 0..Len(q)) \subseteq Seq(S)
  BY FirstPart DEF PathPrefixes
<1>2. IsFiniteSet(PathPrefixes(q, 0..Len(q)))
  <2>1. IsFiniteSet(0..Len(q))
    BY <1>0, FS_Interval
  <2> DEFINE f == [d \in 0..Len(q) |-> SubSeq(q, 1, d)]
  <2>2. f \in Surjection(0..Len(q), PathPrefixes(q, 0..Len(q)))
    BY DEF PathPrefixes, Surjection
  <2>. QED
    BY <2>1, <2>2, FS_Surjection
<1>3. Root \in Seq(S) /\ IsPrefixOf(Root, q) /\ IsPrefixOf(q, q)
  BY <1>0 DEF Root, IsPrefixOf
<1>. QED
  BY <1>1, <1>2, <1>3, PrefixForm

(* The paths of the clusters: none is a prefix of another.                 *)
LEMMA GeoPaths ==
    ASSUME NEW c \in Clusters
    PROVE  /\ Geo(c) \in Seq(STRING) /\ Len(Geo(c)) = GeoLevels /\ Geo(c) # Root
           /\ \A d \in Clusters : IsPrefixOf(Geo(c), Geo(d)) => c = d
<1>1. Geo(c) \in Seq(STRING) /\ Len(Geo(c)) = GeoLevels
  BY GeoAssumption
<1>2. Geo(c) # Root
  BY <1>1 DEF GeoLevels, Root
<1>3. ASSUME NEW d \in Clusters, IsPrefixOf(Geo(c), Geo(d)) PROVE c = d
  <2>1. Geo(d) \in Seq(STRING) /\ Len(Geo(d)) = GeoLevels
    BY GeoAssumption
  <2>2. Geo(c) = Geo(d)
    BY <1>1, <1>3, <2>1, SeqEquality DEF IsPrefixOf
  <2>. QED
    BY <2>2, GeoAssumption
<1>. QED
  BY <1>1, <1>2, <1>3
-----------------------------------------------------------------------------
(* The maps of a node.                                                     *)

LEMMA AddedMap ==
    ASSUME NEW b, NEW x, NEW g, g = [e \in DOMAIN g |-> g[e]],
           DOMAIN g = DOMAIN b \cup {x},
           \A e \in DOMAIN g :
               g[e] = (IF e \in DOMAIN b THEN b[e] ELSE 0) + (IF e = x THEN 1 ELSE 0)
    PROVE  addMap(b, x) = g
<1> DEFINE one == [e \in {x} |-> 1]
<1>1. DOMAIN one = {x} /\ one[x] = 1
  OBVIOUS
<1> HIDE DEF one
<1>2. addMap(b, x) = b (+) one
  BY DEF addMap, SetToBag, one
<1>. QED
  BY <1>1, <1>2 DEF (+)

LEMMA DeletedMap ==
    ASSUME NEW b, NEW x, NEW g, g = [e \in DOMAIN g |-> g[e]],
           DOMAIN g \subseteq DOMAIN b,
           \A e \in DOMAIN b : e \in DOMAIN g <=> (IF e = x THEN b[e] - 1 ELSE b[e]) > 0,
           \A e \in DOMAIN g : g[e] = IF e = x THEN b[e] - 1 ELSE b[e]
    PROVE  delMap(b, x) = g
<1> DEFINE one == [e \in {x} |-> 1]
           h == [e \in DOMAIN b |-> IF e \in DOMAIN one THEN b[e] - one[e] ELSE b[e]]
<1>1. DOMAIN one = {x} /\ one[x] = 1
  OBVIOUS
<1> HIDE DEF one
<1>2. delMap(b, x) = b (-) one
  BY DEF delMap, SetToBag, one
<1>3. b (-) one = [e \in {d \in DOMAIN h : h[d] > 0} |-> h[e]]
  BY DEF (-)
<1>4. DOMAIN h = DOMAIN b /\ \A e \in DOMAIN b : h[e] = IF e = x THEN b[e] - 1 ELSE b[e]
  BY <1>1
<1> HIDE DEF h
<1>5. {d \in DOMAIN h : h[d] > 0} = DOMAIN g
  BY <1>4
<1>6. \A e \in DOMAIN g : h[e] = g[e]
  BY <1>4
<1>. QED
  BY <1>2, <1>3, <1>5, <1>6

(* What a map has after an addition and after a deletion, key by key.      *)
LEMMA MapChanges ==
    ASSUME NEW b, NEW x
    PROVE  /\ DOMAIN addMap(b, x) = DOMAIN b \cup {x}
           /\ \A e \in DOMAIN addMap(b, x) :
                  addMap(b, x)[e] = (IF e \in DOMAIN b THEN b[e] ELSE 0) + (IF e = x THEN 1 ELSE 0)
           /\ \A e : e \in DOMAIN delMap(b, x) <=>
                  e \in DOMAIN b /\ (IF e = x THEN b[e] - 1 ELSE b[e]) > 0
           /\ \A e \in DOMAIN delMap(b, x) :
                  delMap(b, x)[e] = IF e = x THEN b[e] - 1 ELSE b[e]
<1> DEFINE one == [e \in {x} |-> 1]
           h == [e \in DOMAIN b |-> IF e \in DOMAIN one THEN b[e] - one[e] ELSE b[e]]
<1>1. DOMAIN one = {x} /\ one[x] = 1
  OBVIOUS
<1> HIDE DEF one
<1>2. addMap(b, x) = b (+) one /\ delMap(b, x) = b (-) one
  BY DEF addMap, delMap, SetToBag, one
<1>3. b (-) one = [e \in {d \in DOMAIN h : h[d] > 0} |-> h[e]]
  BY DEF (-)
<1>4. DOMAIN h = DOMAIN b /\ \A e \in DOMAIN b : h[e] = IF e = x THEN b[e] - 1 ELSE b[e]
  BY <1>1
<1> HIDE DEF h
<1>5. /\ \A e : e \in DOMAIN (b (-) one) <=>
              e \in DOMAIN b /\ (IF e = x THEN b[e] - 1 ELSE b[e]) > 0
      /\ \A e \in DOMAIN (b (-) one) : (b (-) one)[e] = IF e = x THEN b[e] - 1 ELSE b[e]
  BY <1>3, <1>4
<1>6. /\ DOMAIN (b (+) one) = DOMAIN b \cup {x}
      /\ \A e \in DOMAIN (b (+) one) :
             (b (+) one)[e] = (IF e \in DOMAIN b THEN b[e] ELSE 0) + (IF e = x THEN 1 ELSE 0)
  BY <1>1 DEF (+)
<1>. QED
  BY <1>2, <1>5, <1>6

LEMMA HoldersFinite ==
    ASSUME NEW cs, IsFiniteSet(cs), NEW at, NEW a
    PROVE  /\ IsFiniteSet(Holders(at, cs, a)) /\ Cardinality(Holders(at, cs, a)) \in Nat
           /\ Cardinality(Holders(at, cs, a)) = 0 <=> Holders(at, cs, a) = {}
<1>1. Holders(at, cs, a) \in SUBSET cs
  BY DEF Holders
<1>. QED
  BY <1>1, FS_Subset, FS_CardinalityType, FS_EmptySet

(* A tally depends on the attributes of its own clusters only, and says    *)
(* less of more attributes that strayed.                                   *)
LEMMA SameTallies ==
    ASSUME NEW map, NEW cs, NEW at, NEW new, \A d \in cs : new[d] = at[d],
           NEW lost, NEW more, lost \subseteq more, Tallies(map, at, cs, lost)
    PROVE  Tallies(map, new, cs, more)
<1>1. \A a : Holders(new, cs, a) = Holders(at, cs, a)
  BY DEF Holders
<1>. QED
  BY <1>1 DEF Tallies

(* A node that counts one cluster more.                                    *)
LEMMA NodeAdd ==
    ASSUME NEW cs, IsFiniteSet(cs), NEW c, c \notin cs
    PROVE  addMap(SetToBag(cs), c) = SetToBag(cs \cup {c})
<1> DEFINE b == SetToBag(cs)
           g == SetToBag(cs \cup {c})
<1>1. /\ DOMAIN b = cs /\ \A e \in cs : b[e] = 1
      /\ g = [e \in DOMAIN g |-> g[e]]
      /\ DOMAIN g = cs \cup {c} /\ \A e \in cs \cup {c} : g[e] = 1
  BY DEF SetToBag
<1> HIDE DEF b, g
<1>2. addMap(b, c) = g
  BY <1>1, AddedMap
<1>. QED
  BY <1>2 DEF b, g

LEMMA TallyAdd ==
    ASSUME NEW cs, IsFiniteSet(cs), NEW c, c \notin cs, NEW map, NEW at, NEW lost,
           Tallies(map, at, cs, lost), NEW new, \A d \in cs : new[d] = at[d], new[c] \in Attributes
    PROVE  Tallies(addMap(map, new[c]), new, cs \cup {c}, lost)
<1> DEFINE g == addMap(map, new[c])
<1>1. /\ DOMAIN g = DOMAIN map \cup {new[c]}
      /\ \A e \in DOMAIN g :
             g[e] = (IF e \in DOMAIN map THEN map[e] ELSE 0) + (IF e = new[c] THEN 1 ELSE 0)
  BY MapChanges
<1>2. Tallies(map, new, cs, lost)
  BY SameTallies
<1> HIDE DEF g
<1>3. ASSUME NEW e \in Attributes \ lost
      PROVE  /\ e \in DOMAIN g <=> Holders(new, cs \cup {c}, e) # {}
             /\ e \in DOMAIN g => g[e] = Cardinality(Holders(new, cs \cup {c}, e))
  <2>1. /\ IsFiniteSet(Holders(new, cs, e)) /\ Cardinality(Holders(new, cs, e)) \in Nat
        /\ Cardinality(Holders(new, cs, e)) = 0 <=> Holders(new, cs, e) = {}
    BY HoldersFinite
  <2>2. Cardinality(Holders(new, cs, e)) = IF e \in DOMAIN map THEN map[e] ELSE 0
    BY <1>2, <2>1 DEF Tallies
  <2>3. CASE e = new[c]
    <3>1. Holders(new, cs \cup {c}, e) = Holders(new, cs, e) \cup {c} /\ c \notin Holders(new, cs, e)
      BY <2>3 DEF Holders
    <3>2. Cardinality(Holders(new, cs, e) \cup {c}) = Cardinality(Holders(new, cs, e)) + 1
      BY <2>1, <3>1, FS_AddElement
    <3>. QED
      BY <1>1, <2>1, <2>2, <2>3, <3>1, <3>2
  <2>4. CASE e # new[c]
    <3>1. Holders(new, cs \cup {c}, e) = Holders(new, cs, e)
      BY <2>4 DEF Holders
    <3>. QED
      BY <1>1, <1>2, <2>1, <2>2, <2>4, <3>1 DEF Tallies
  <2>. QED
    BY <2>3, <2>4
<1>4. DOMAIN g \subseteq Attributes
  BY <1>1 DEF Tallies
<1>. QED
  BY <1>3, <1>4 DEF Tallies, g

(* And one that counts one less.                                           *)
LEMMA NodeDel ==
    ASSUME NEW cs, IsFiniteSet(cs), NEW c \in cs
    PROVE  delMap(SetToBag(cs), c) = SetToBag(cs \ {c})
<1> DEFINE b == SetToBag(cs)
           g == SetToBag(cs \ {c})
<1>1. /\ DOMAIN b = cs /\ \A e \in cs : b[e] = 1
      /\ g = [e \in DOMAIN g |-> g[e]]
      /\ DOMAIN g = cs \ {c} /\ \A e \in cs \ {c} : g[e] = 1
  BY DEF SetToBag
<1> HIDE DEF b, g
<1>2. delMap(b, c) = g
  BY <1>1, DeletedMap
<1>. QED
  BY <1>2 DEF b, g

LEMMA TallyDel ==
    ASSUME NEW cs, IsFiniteSet(cs), NEW c \in cs, NEW map, NEW at, NEW lost,
           Tallies(map, at, cs, lost), NEW a, NEW more, lost \subseteq more,
           a = at[c] \/ (a \in more /\ at[c] \in more)
    PROVE  Tallies(delMap(map, a), at, cs \ {c}, more)
<1> DEFINE g == delMap(map, a)
<1>1. /\ \A e : e \in DOMAIN g <=> e \in DOMAIN map /\ (IF e = a THEN map[e] - 1 ELSE map[e]) > 0
      /\ \A e \in DOMAIN g : g[e] = IF e = a THEN map[e] - 1 ELSE map[e]
  BY MapChanges
<1> HIDE DEF g
<1>2. ASSUME NEW e \in Attributes \ more
      PROVE  /\ e \in DOMAIN g <=> Holders(at, cs \ {c}, e) # {}
             /\ e \in DOMAIN g => g[e] = Cardinality(Holders(at, cs \ {c}, e))
  <2>1. /\ IsFiniteSet(Holders(at, cs, e)) /\ Cardinality(Holders(at, cs, e)) \in Nat
        /\ Cardinality(Holders(at, cs, e)) = 0 <=> Holders(at, cs, e) = {}
    BY HoldersFinite
  <2>2. /\ e \in DOMAIN map <=> Holders(at, cs, e) # {}
        /\ e \in DOMAIN map => map[e] = Cardinality(Holders(at, cs, e))
    BY DEF Tallies
  <2>3. CASE e = a
    <3>1. e = at[c]
      BY <2>3
    <3>2. Holders(at, cs \ {c}, e) = Holders(at, cs, e) \ {c} /\ c \in Holders(at, cs, e)
      BY <3>1 DEF Holders
    <3>3. /\ Cardinality(Holders(at, cs, e) \ {c}) = Cardinality(Holders(at, cs, e)) - 1
          /\ IsFiniteSet(Holders(at, cs, e) \ {c})
      BY <2>1, <3>2, FS_RemoveElement
    <3>4. Cardinality(Holders(at, cs, e) \ {c}) = 0 <=> Holders(at, cs, e) \ {c} = {}
      BY <3>3, FS_EmptySet
    <3>5. Cardinality(Holders(at, cs, e) \ {c}) \in Nat
      BY <3>3, FS_CardinalityType
    <3>6. e \in DOMAIN map /\ map[e] - 1 = Cardinality(Holders(at, cs \ {c}, e))
      BY <2>2, <3>2, <3>3
    <3>7. map[e] - 1 \in Nat /\ (map[e] - 1 = 0 <=> Holders(at, cs \ {c}, e) = {})
      BY <3>2, <3>4, <3>5, <3>6
    <3>8. e \in DOMAIN g <=> map[e] - 1 > 0
      BY <1>1, <2>3, <3>6
    <3>9. e \in DOMAIN g => g[e] = map[e] - 1
      BY <1>1, <2>3
    <3>10. PICK k \in Nat : k = map[e] - 1
      BY <3>7
    <3>11. e \in DOMAIN g <=> Holders(at, cs \ {c}, e) # {}
      <4>1. k = 0 <=> Holders(at, cs \ {c}, e) = {}
        BY <3>7, <3>10
      <4>2. e \in DOMAIN g <=> k > 0
        BY <3>8, <3>10
      <4>3. k > 0 <=> k # 0
        OBVIOUS
      <4>. QED
        BY <4>1, <4>2, <4>3, Zenon
    <3>. QED
      BY <3>6, <3>9, <3>11
  <2>4. CASE e # a
    <3>1. Holders(at, cs \ {c}, e) = Holders(at, cs, e)
      BY <2>4 DEF Holders
    <3>. QED
      BY <1>1, <2>1, <2>2, <2>4, <3>1
  <2>. QED
    BY <2>3, <2>4
<1>3. DOMAIN g \subseteq Attributes
  BY <1>1 DEF Tallies
<1>. QED
  BY <1>2, <1>3 DEF Tallies, g
-----------------------------------------------------------------------------
(* The tree.                                                               *)

Way(c) == PathPrefixes(Geo(c), 0..Len(Geo(c)))

LEMMA WayForm ==
    ASSUME NEW c \in Clusters
    PROVE  /\ \A p : p \in Way(c) <=> p \in Seq(STRING) /\ IsPrefixOf(p, Geo(c))
           /\ IsFiniteSet(Way(c)) /\ Root \in Way(c) /\ Geo(c) \in Way(c)
<1>1. Geo(c) \in Seq(STRING)
  BY GeoPaths
<1>2. /\ Way(c) \subseteq Seq(STRING) /\ IsFiniteSet(Way(c))
      /\ Root \in Way(c) /\ Geo(c) \in Way(c)
  BY <1>1, PrefixesType DEF Way
<1>3. ASSUME NEW p \in Seq(STRING) PROVE p \in Way(c) <=> IsPrefixOf(p, Geo(c))
  BY <1>1, PrefixForm DEF Way
<1>. QED
  BY <1>2, <1>3

LEMMA BelowForm ==
    ASSUME NEW cs \in SUBSET Clusters, NEW p \in Seq(STRING), NEW c
    PROVE  c \in BelowIn(cs, p) <=> c \in cs /\ p \in Way(c)
<1>1. ASSUME c \in cs PROVE (Geo(c) = p \/ Extends(Geo(c), p)) <=> p \in Way(c)
  <2>1. c \in Clusters /\ Geo(c) \in Seq(STRING)
    BY <1>1, GeoPaths
  <2>. QED
    BY <2>1, PrefixForm DEF Way
<1>. QED
  BY <1>1 DEF BelowIn

LEMMA NewNodeEmpty ==
    ASSUME NEW at, NEW lost
    PROVE  /\ NewClusterInfoNode.clusterMap = SetToBag({})
           /\ Tallies(NewClusterInfoNode.unionMap, at, {}, lost)
<1>1. /\ NewClusterInfoNode.clusterMap = SetToBag({})
      /\ NewClusterInfoNode.unionMap = SetToBag({})
  BY DEF NewClusterInfoNode, EmptyBag
<1>2. DOMAIN SetToBag({}) = {}
  BY DEF SetToBag
<1>3. \A a : Holders(at, {}, a) = {}
  BY DEF Holders
<1>. QED
  BY <1>1, <1>2, <1>3 DEF Tallies

LEMMA BelowFinite ==
    ASSUME NEW cs, IsFiniteSet(cs), NEW p
    PROVE  IsFiniteSet(BelowIn(cs, p))
<1>1. BelowIn(cs, p) \in SUBSET cs
  BY DEF BelowIn
<1>. QED
  BY <1>1, FS_Subset

(* A new tree has no clusters.                                             *)
LEMMA TreeNew == ASSUME NEW at PROVE TreeFits(NewTree, {}, at, {})
<1>1. DOMAIN NewTree = {Root} /\ NewTree[Root] = NewClusterInfoNode
  BY DEF NewTree
<1>2. IsFiniteSet({Root})
  BY FS_Singleton
<1>0. Root \in Seq(STRING)
  BY DEF Root
<1>3. BelowIn({}, Root) = {}
  BY DEF BelowIn
<1>4. /\ NewClusterInfoNode.clusterMap = SetToBag({})
      /\ Tallies(NewClusterInfoNode.unionMap, at, {}, {})
  BY NewNodeEmpty
<1>. QED
  BY <1>0, <1>1, <1>2, <1>3, <1>4 DEF TreeFits

(* AddCluster and the clusters that fit the tree.                          *)
LEMMA TreeAdd ==
    ASSUME NEW cs \in SUBSET Clusters, IsFiniteSet(cs), NEW tree, NEW at, NEW lost,
           TreeFits(tree, cs, at, lost), NEW c \in Clusters, c \notin cs,
           NEW next, \A d \in cs : next[d] = at[d], next[c] \in Attributes
    PROVE  TreeFits(AddCluster(tree, c, Geo(c), next[c]), cs \cup {c}, next, lost)
<1> DEFINE way == Way(c)
           new == AddCluster(tree, c, Geo(c), next[c])
           Node(p) == IF p \in DOMAIN tree THEN tree[p] ELSE NewClusterInfoNode
           then == cs \cup {c}
<1>1. /\ DOMAIN new = DOMAIN tree \cup way
      /\ \A p \in DOMAIN new : p \notin way => new[p] = tree[p]
      /\ \A p \in way : new[p] = [clusterMap |-> addMap(Node(p).clusterMap, c),
                                  unionMap   |-> addMap(Node(p).unionMap, next[c])]
  BY DEF AddCluster, Way
<1>2. /\ IsFiniteSet(DOMAIN tree) /\ Root \in DOMAIN tree
      /\ \A d \in cs : Way(d) \subseteq DOMAIN tree
      /\ \A p \in DOMAIN tree : /\ p \in Seq(STRING)
                                /\ p = Root \/ BelowIn(cs, p) # {}
                                /\ tree[p].clusterMap = SetToBag(BelowIn(cs, p))
                                /\ Tallies(tree[p].unionMap, at, BelowIn(cs, p), lost)
  BY DEF TreeFits, Way
<1>3. IsFiniteSet(way) /\ way \subseteq Seq(STRING) /\ then \in SUBSET Clusters
  BY WayForm
<1> HIDE DEF new, way, then
<1>4. IsFiniteSet(DOMAIN new)
  BY <1>1, <1>2, <1>3, FS_Union
<1>5. ASSUME NEW p \in DOMAIN new PROVE p \in Seq(STRING)
  BY <1>1, <1>2, <1>3
<1>6. ASSUME NEW d \in then PROVE Way(d) \subseteq DOMAIN new
  BY <1>1, <1>2 DEF then, way
<1>7. ASSUME NEW p \in way
      PROVE  /\ Node(p).clusterMap = SetToBag(BelowIn(cs, p))
             /\ Tallies(Node(p).unionMap, at, BelowIn(cs, p), lost)
  <2>1. CASE p \in DOMAIN tree
    BY <1>2, <2>1
  <2>2. CASE p \notin DOMAIN tree
    <3>1. p \in Seq(STRING)
      BY <1>3
    <3>2. BelowIn(cs, p) = {}
      BY <1>2, <2>2, <3>1, BelowForm
    <3>. QED
      BY <2>2, <3>2, NewNodeEmpty
  <2>. QED
    BY <2>1, <2>2
<1>8. ASSUME NEW p \in DOMAIN new
      PROVE  /\ p = Root \/ BelowIn(then, p) # {}
             /\ new[p].clusterMap = SetToBag(BelowIn(then, p))
             /\ Tallies(new[p].unionMap, next, BelowIn(then, p), lost)
  <2>0. p \in Seq(STRING)
    BY <1>5
  <2>1. \A x : x \in BelowIn(then, p) <=> x \in then /\ p \in Way(x)
    BY <1>3, <2>0, BelowForm
  <2>2. \A x : x \in BelowIn(cs, p) <=> x \in cs /\ p \in Way(x)
    BY <2>0, BelowForm
  <2>3. CASE p \in way
    <3>1. BelowIn(then, p) = BelowIn(cs, p) \cup {c} /\ c \notin BelowIn(cs, p)
      BY <2>1, <2>2, <2>3 DEF then, way
    <3>2. IsFiniteSet(BelowIn(cs, p))
      BY BelowFinite
    <3>3. PICK under : under = BelowIn(cs, p)
      OBVIOUS
    <3>4. PICK node : node = Node(p)
      OBVIOUS
    <3>5. node.clusterMap = SetToBag(under) /\ Tallies(node.unionMap, at, under, lost)
      BY <1>7, <2>3, <3>3, <3>4
    <3>6. addMap(node.clusterMap, c) = SetToBag(under \cup {c})
      BY <3>1, <3>2, <3>3, <3>5, NodeAdd
    <3>7. \A d \in under : next[d] = at[d]
      BY <2>2, <3>3
    <3>8. Tallies(addMap(node.unionMap, next[c]), next, under \cup {c}, lost)
      BY <3>1, <3>2, <3>3, <3>5, <3>7, TallyAdd
    <3>9. new[p] = [clusterMap |-> addMap(node.clusterMap, c),
                    unionMap   |-> addMap(node.unionMap, next[c])]
      BY <1>1, <2>3, <3>4
    <3>. QED
      BY <3>1, <3>3, <3>6, <3>8, <3>9
  <2>4. CASE p \notin way
    <3>1. BelowIn(then, p) = BelowIn(cs, p)
      BY <2>1, <2>2, <2>4 DEF then, way
    <3>2. p \in DOMAIN tree /\ new[p] = tree[p]
      BY <1>1, <2>4
    <3>3. \A d \in BelowIn(cs, p) : next[d] = at[d]
      BY <2>2
    <3>4. Tallies(tree[p].unionMap, next, BelowIn(cs, p), lost)
      BY <1>2, <3>2, <3>3, SameTallies
    <3>. QED
      BY <1>2, <3>1, <3>2, <3>4
  <2>. QED
    BY <2>3, <2>4
<1>. QED
  BY <1>1, <1>2, <1>4, <1>5, <1>6, <1>8 DEF TreeFits, new, then, Way

(* DelCluster: its way is the whole path, the node of the cluster goes,    *)
(* and a node goes with the last cluster below it.                         *)
LEMMA TreeDel ==
    ASSUME NEW cs \in SUBSET Clusters, IsFiniteSet(cs), NEW tree, NEW at, NEW lost,
           TreeFits(tree, cs, at, lost), NEW c \in cs, NEW a, NEW more, lost \subseteq more,
           a = at[c] \/ (a \in more /\ at[c] \in more)
    PROVE  TreeFits(DelCluster(tree, c, Geo(c), a), cs \ {c}, at, more)
<1> DEFINE way == {p \in Way(c) : \A q \in PathPrefixes(p, 0..Len(p)) : q \in DOMAIN tree}
           last == CHOOSE p \in way : \A q \in way : Len(q) <= Len(p)
           gone == {p \in way \ {Root} : \A q \in DOMAIN tree : Extends(q, p) => q \in way}
           new == DelCluster(tree, c, Geo(c), a)
           then == cs \ {c}
<1>1. /\ DOMAIN new = DOMAIN tree \ gone
      /\ \A p \in DOMAIN new : p \notin way \ {last} => new[p] = tree[p]
      /\ \A p \in DOMAIN new : p \in way \ {last} =>
             new[p] = [clusterMap |-> delMap(tree[p].clusterMap, c),
                       unionMap   |-> delMap(tree[p].unionMap, a)]
  BY DEF DelCluster, Way
<1>2. /\ IsFiniteSet(DOMAIN tree) /\ Root \in DOMAIN tree
      /\ \A d \in cs : Way(d) \subseteq DOMAIN tree
      /\ \A p \in DOMAIN tree : /\ p \in Seq(STRING)
                                /\ p = Root \/ BelowIn(cs, p) # {}
                                /\ tree[p].clusterMap = SetToBag(BelowIn(cs, p))
                                /\ Tallies(tree[p].unionMap, at, BelowIn(cs, p), lost)
  BY DEF TreeFits, Way
<1>3. c \in Clusters /\ Geo(c) \in Seq(STRING) /\ Geo(c) \in Way(c) /\ Geo(c) # Root
  BY GeoPaths, WayForm
<1>4. way = Way(c)
  <2>1. ASSUME NEW p \in Way(c), NEW q \in PathPrefixes(p, 0..Len(p)) PROVE q \in DOMAIN tree
    <3>1. p \in Seq(STRING) /\ IsPrefixOf(p, Geo(c))
      BY <1>3, WayForm
    <3>2. q \in Seq(STRING) /\ IsPrefixOf(q, p)
      BY <3>1, PrefixesType, PrefixForm
    <3>3. q \in Way(c)
      BY <1>3, <3>1, <3>2, PrefixTransitive, WayForm
    <3>. QED
      BY <1>2, <3>3
  <2>. QED
    BY <2>1
<1>5. last = Geo(c)
  <2>1. ASSUME NEW p \in Way(c) PROVE Len(p) <= Len(Geo(c)) /\ Len(p) \in Nat
                                      /\ (Len(p) = Len(Geo(c)) => p = Geo(c))
    <3>1. p \in Seq(STRING) /\ IsPrefixOf(p, Geo(c)) /\ IsPrefixOf(Geo(c), Geo(c))
      BY <1>3, WayForm
    <3>. QED
      BY <1>3, <3>1, PrefixUnique DEF IsPrefixOf
  <2>2. Len(Geo(c)) \in Nat
    BY <1>3
  <2>3. last \in way /\ \A q \in way : Len(q) <= Len(last)
    BY <1>3, <1>4, <2>1
  <2>. QED
    BY <1>3, <1>4, <2>1, <2>2, <2>3
<1> HIDE DEF way, last
<1>6. \A p : p \in gone <=> /\ p \in Way(c) /\ p # Root
                            /\ \A q \in DOMAIN tree : Extends(q, p) => q \in Way(c)
  BY <1>4
<1> HIDE DEF gone, new, then
<1>7. then \in SUBSET Clusters /\ IsFiniteSet(DOMAIN new)
  <2>1. DOMAIN new \in SUBSET DOMAIN tree
    BY <1>1
  <2>. QED
    BY <1>2, <2>1, FS_Subset DEF then
(* No path of another cluster is on the way, nor does one extend Geo(c).   *)
<1>8. ASSUME NEW d \in cs, d # c PROVE Geo(d) \notin Way(c) /\ Geo(d) \in DOMAIN tree
  <2>1. d \in Clusters /\ Geo(d) \in Way(d)
    BY WayForm
  <2>. QED
    BY <1>2, <1>3, <1>8, <2>1, WayForm, GeoPaths
<1>9. Geo(c) \in gone
  <2>1. ASSUME NEW q \in DOMAIN tree, Extends(q, Geo(c)) PROVE FALSE
    <3>1. q \in Seq(STRING) /\ Len(Geo(c)) \in Nat /\ q # Root
      BY <1>2, <1>3, <2>1 DEF Extends, Root
    <3>2. PICK d \in cs : q \in Way(d)
      BY <1>2, <3>1, BelowForm
    <3>3. IsPrefixOf(q, Geo(d)) /\ d \in Clusters /\ Len(Geo(d)) = GeoLevels
      BY <3>2, WayForm, GeoPaths
    <3>4. Len(Geo(c)) = GeoLevels
      BY <1>3, GeoPaths
    <3>. QED
      BY <2>1, <3>1, <3>3, <3>4 DEF IsPrefixOf, Extends, GeoLevels
  <2>. QED
    BY <1>3, <1>6, <2>1
<1>10. ASSUME NEW d \in then PROVE Way(d) \subseteq DOMAIN new
  <2> SUFFICES ASSUME NEW p \in Way(d), p \in gone PROVE FALSE
    BY <1>1, <1>2 DEF then
  <2>1. d \in cs /\ d # c /\ d \in Clusters /\ Geo(d) \in Seq(STRING)
    BY GeoPaths DEF then
  <2>2. Geo(d) \notin Way(c) /\ Geo(d) \in DOMAIN tree
    BY <1>8, <2>1
  <2>3. p \in Seq(STRING) /\ IsPrefixOf(p, Geo(d))
    BY <2>1, WayForm
  <2>4. Geo(d) = p \/ Extends(Geo(d), p)
    BY <2>1, <2>3, PrefixForm
  <2>. QED
    BY <1>6, <2>2, <2>4
<1>11. ASSUME NEW p \in DOMAIN new
       PROVE  /\ p = Root \/ BelowIn(then, p) # {}
              /\ new[p].clusterMap = SetToBag(BelowIn(then, p))
              /\ Tallies(new[p].unionMap, at, BelowIn(then, p), more)
  <2>0. p \in Seq(STRING) /\ p \in DOMAIN tree /\ p \notin gone
    BY <1>1, <1>2
  <2>1. \A x : x \in BelowIn(then, p) <=> x \in then /\ p \in Way(x)
    BY <1>7, <2>0, BelowForm
  <2>2. \A x : x \in BelowIn(cs, p) <=> x \in cs /\ p \in Way(x)
    BY <2>0, BelowForm
  <2>3. CASE p \in Way(c)
    <3>1. BelowIn(then, p) = BelowIn(cs, p) \ {c} /\ c \in BelowIn(cs, p)
      BY <2>1, <2>2, <2>3 DEF then
    <3>2. IsFiniteSet(BelowIn(cs, p))
      BY BelowFinite
    <3>3. PICK under : under = BelowIn(cs, p)
      OBVIOUS
    <3>4. /\ p \in way \ {last}
          /\ tree[p].clusterMap = SetToBag(under) /\ Tallies(tree[p].unionMap, at, under, lost)
      BY <1>2, <1>4, <1>5, <1>9, <2>0, <2>3, <3>3
    <3>5. /\ delMap(tree[p].clusterMap, c) = SetToBag(under \ {c})
          /\ Tallies(delMap(tree[p].unionMap, a), at, under \ {c}, more)
      BY <3>1, <3>2, <3>3, <3>4, NodeDel, TallyDel
    <3>6. /\ new[p].clusterMap = SetToBag(BelowIn(then, p))
          /\ Tallies(new[p].unionMap, at, BelowIn(then, p), more)
      BY <1>1, <3>1, <3>3, <3>4, <3>5
    <3>7. ASSUME p # Root PROVE BelowIn(then, p) # {}
      <4>1. PICK q \in DOMAIN tree : Extends(q, p) /\ q \notin Way(c)
        BY <1>6, <2>0, <2>3, <3>7
      <4>2. q \in Seq(STRING) /\ q # Root
        BY <1>2, <1>3, <4>1, WayForm
      <4>3. PICK d \in cs : q \in Way(d)
        BY <1>2, <4>1, <4>2, BelowForm
      <4>4. IsPrefixOf(p, q) /\ IsPrefixOf(q, Geo(d)) /\ Geo(d) \in Seq(STRING) /\ d \in Clusters
        BY <2>0, <4>1, <4>2, <4>3, PrefixForm, WayForm, GeoPaths
      <4>5. p \in Way(d)
        BY <2>0, <4>2, <4>4, PrefixTransitive, WayForm
      <4>. QED
        BY <2>1, <4>1, <4>3, <4>5 DEF then
    <3>. QED
      BY <3>6, <3>7
  <2>4. CASE p \notin Way(c)
    <3>1. BelowIn(then, p) = BelowIn(cs, p)
      BY <2>1, <2>2, <2>4 DEF then
    <3>2. new[p] = tree[p]
      BY <1>1, <1>4, <2>4
    <3>3. Tallies(tree[p].unionMap, at, BelowIn(cs, p), more)
      BY <1>2, <2>0, SameTallies
    <3>. QED
      BY <1>2, <2>0, <3>1, <3>2, <3>3
  <2>. QED
    BY <2>3, <2>4
<1>12. Root \in DOMAIN new
  BY <1>1, <1>2, <1>6
<1>. QED
  BY <1>1, <1>2, <1>7, <1>10, <1>11, <1>12 DEF TreeFits, new, then, Way
-----------------------------------------------------------------------------
(* The parts of a balance.                                                 *)

(* What EvenlyDivide gives: chunks that divide the indices 0 .. u.         *)
LEMMA Chunks ==
    ASSUME NEW n \in Nat \ {0}, NEW u \in Nat
    PROVE  \E m \in 1..n :
           /\ m = Smaller(n, u + 1) /\ DOMAIN EvenlyDivide(n, u) = 1..m
           /\ \A j \in 1..m : /\ EvenlyDivide(n, u)[j][1] \in 0..u
                              /\ EvenlyDivide(n, u)[j][2] \in 0..u
           /\ \A k \in 0..u : \E j \in 1..m :
                  EvenlyDivide(n, u)[j][1] <= k /\ k <= EvenlyDivide(n, u)[j][2]
           /\ \A k \in 0..u : \A i1, i2 \in 1..m :
                  /\ EvenlyDivide(n, u)[i1][1] <= k /\ k <= EvenlyDivide(n, u)[i1][2]
                  /\ EvenlyDivide(n, u)[i2][1] <= k /\ k <= EvenlyDivide(n, u)[i2][2]
                  => i1 = i2
<1>1. \A k : Division!ChunkStart(n, u, k) = ChunkStart(n, u, k)
  BY DEF Division!ChunkStart, Division!chunk, Division!mod, Division!Smaller,
         ChunkStart, chunk, mod, Smaller
<1>2. Division!ChunkCount(n, u) = ChunkCount(n, u)
  BY DEF Division!ChunkCount, Division!Smaller, ChunkCount, Smaller
<1>3. Division!EvenlyDivide(n, u) = EvenlyDivide(n, u)
  BY <1>1, <1>2 DEF Division!EvenlyDivide, EvenlyDivide
<1>4. ChunkCount(n, u) = Smaller(n, u + 1) /\ DOMAIN EvenlyDivide(n, u) = 1..ChunkCount(n, u)
  BY DEF ChunkCount, EvenlyDivide
<1>. QED
  BY <1>2, <1>3, <1>4, Division!ChunksPartition

(* A level of the tree: each cluster is below exactly one of its nodes.    *)
LEMMA LevelNodes ==
    ASSUME NEW cs \in SUBSET Clusters, NEW tree, NEW at, NEW lost, TreeFits(tree, cs, at, lost),
           NEW d \in 0..GeoLevels, NEW c \in cs
    PROVE  /\ \E p \in Level(tree, d) : p \in Way(c)
           /\ \A p, q \in Level(tree, d) : p \in Way(c) /\ q \in Way(c) => p = q
<1>1. c \in Clusters /\ Geo(c) \in Seq(STRING) /\ Len(Geo(c)) = GeoLevels
  BY GeoPaths
<1>2. \E p \in Level(tree, d) : p \in Way(c)
  <2>1. SubSeq(Geo(c), 1, d) \in Way(c) /\ Len(SubSeq(Geo(c), 1, d)) = d
    BY <1>1, FirstPart DEF Way, PathPrefixes
  <2>2. Way(c) \subseteq DOMAIN tree
    BY DEF TreeFits, Way
  <2>. QED
    BY <2>1, <2>2 DEF Level
<1>3. ASSUME NEW p \in Level(tree, d), NEW q \in Level(tree, d), p \in Way(c), q \in Way(c)
      PROVE  p = q
  <2>1. /\ p \in Seq(STRING) /\ q \in Seq(STRING) /\ Len(p) = Len(q)
        /\ IsPrefixOf(p, Geo(c)) /\ IsPrefixOf(q, Geo(c))
    BY <1>1, <1>3, WayForm DEF Level
  <2>. QED
    BY <1>1, <2>1, PrefixUnique
<1>. QED
  BY <1>2, <1>3

(* The depth balance goes down to: the first one with nodes for all, or    *)
(* the last one, and it has nodes.                                         *)
LEMMA DepthFound ==
    ASSUME NEW cs \in SUBSET Clusters, NEW tree, NEW at, NEW lost, TreeFits(tree, cs, at, lost), NEW n
    PROVE  /\ BalanceDepth(tree, n) \in 0..GeoLevels
           /\ EnoughNodes(tree, n, BalanceDepth(tree, n))
           /\ Level(tree, BalanceDepth(tree, n)) # {}
<1> DEFINE E(d) == EnoughNodes(tree, n, d)
           First(d) == E(d) /\ \A e \in 0..(d - 1) : ~E(e)
<1>1. Level(tree, 6) = {}
  <2> SUFFICES ASSUME NEW p \in DOMAIN tree, Len(p) = 6 PROVE FALSE
    BY DEF Level
  <2>1. p \in Seq(STRING) /\ p # Root
    BY DEF TreeFits, Root
  <2>2. PICK c \in cs : p \in Way(c)
    BY <2>1, BelowForm DEF TreeFits
  <2>3. c \in Clusters /\ Len(Geo(c)) = 5
    BY GeoPaths DEF GeoLevels
  <2>4. Len(p) <= Len(Geo(c))
    BY <2>2, <2>3, WayForm DEF IsPrefixOf
  <2>. QED
    BY <2>3, <2>4
<1>2. E(5)
  BY <1>1 DEF EnoughNodes
<1> HIDE DEF E
<1>3. \E d \in 0..5 : First(d)
  <2>1. CASE E(0)
    <3>1. First(0)
      BY <2>1
    <3>. QED
      BY <3>1
  <2>2. CASE ~E(0) /\ E(1)
    <3>1. First(1)
      BY <2>2
    <3>. QED
      BY <3>1
  <2>3. CASE ~E(0) /\ ~E(1) /\ E(2)
    <3>1. First(2)
      BY <2>3
    <3>. QED
      BY <3>1
  <2>4. CASE ~E(0) /\ ~E(1) /\ ~E(2) /\ E(3)
    <3>1. First(3)
      BY <2>4
    <3>. QED
      BY <3>1
  <2>5. CASE ~E(0) /\ ~E(1) /\ ~E(2) /\ ~E(3) /\ E(4)
    <3>1. First(4)
      BY <2>5
    <3>. QED
      BY <3>1
  <2>6. CASE ~E(0) /\ ~E(1) /\ ~E(2) /\ ~E(3) /\ ~E(4)
    <3>1. First(5)
      BY <1>2, <2>6
    <3>. QED
      BY <3>1
  <2>. QED
    BY <2>1, <2>2, <2>3, <2>4, <2>5, <2>6
<1> DEFINE d == BalanceDepth(tree, n)
<1>4. d \in 0..GeoLevels /\ First(d)
  <2>1. d = CHOOSE x \in 0..GeoLevels : First(x)
    BY DEF BalanceDepth, E
  <2> HIDE DEF d, First
  <2>. QED
    BY <1>3, <2>1 DEF GeoLevels
<1> HIDE DEF d
<1>5. Level(tree, d) # {}
  <2>1. CASE d = 0
    <3>1. Root \in DOMAIN tree /\ Len(Root) = 0
      BY DEF TreeFits, Root
    <3>. QED
      BY <2>1, <3>1 DEF Level
  <2>2. CASE d # 0
    <3>1. d - 1 \in 0..(d - 1) /\ (d - 1) + 1 = d
      BY <1>4, <2>2 DEF GeoLevels
    <3>2. ~E(d - 1)
      BY <1>4, <3>1
    <3>. QED
      BY <3>1, <3>2 DEF E, EnoughNodes
  <2>. QED
    BY <2>1, <2>2
<1>. QED
  BY <1>4, <1>5 DEF d, E

(* The parts of a balance divide the clusters among the first schedulers:  *)
(* among all of them when there are as many clusters.                      *)
LEMMA PartsDivide ==
    ASSUME NEW cs \in SUBSET Clusters, IsFiniteSet(cs), NEW tree,
           NEW at \in [Clusters -> Attributes], NEW lost, TreeFits(tree, cs, at, lost),
           NEW n \in Nat \ {0},
           NEW row \in Orders(Level(tree, BalanceDepth(tree, n)))
    PROVE  /\ Parts(tree, row, n) \in Seq(PartType)
           /\ Len(Parts(tree, row, n)) \in 1..n
           /\ Divides(Parts(tree, row, n), cs, n, at, lost)
<1>0. PICK depth : depth = BalanceDepth(tree, n)
  OBVIOUS
<1> DEFINE nodes == Level(tree, depth)
           size == Cardinality(nodes)
<1>1. /\ depth \in 0..GeoLevels /\ EnoughNodes(tree, n, depth) /\ nodes # {}
  BY <1>0, DepthFound
<1>2. /\ nodes \subseteq DOMAIN tree /\ IsFiniteSet(nodes) /\ size \in Nat /\ size # 0
  <2>1. nodes \in SUBSET DOMAIN tree /\ IsFiniteSet(DOMAIN tree)
    BY DEF Level, TreeFits
  <2>. QED
    BY <1>1, <2>1, FS_Subset, FS_CardinalityType, FS_EmptySet
<1>3. row \in [1..size -> nodes] /\ \A i, j \in 1..size : i # j => row[i] # row[j]
  BY <1>0 DEF Orders, SetToSeqs
<1>s. PICK z : z = size
  OBVIOUS
<1>z. z \in Nat /\ z # 0 /\ z = Cardinality(nodes)
  BY <1>2, <1>s
<1> HIDE DEF nodes
<1>4. /\ row \in [1..z -> nodes] /\ \A i, j \in 1..z : row[i] = row[j] => i = j
      /\ Len(row) = z
  BY <1>3, <1>s, <1>z
<1>5. \A p \in nodes : \E i \in 1..z : row[i] = p
  <2>1. IsInjective(row)
    BY <1>4 DEF IsInjective
  <2>2. row \in Injection(1..z, nodes)
    BY <1>4, <2>1 DEF Injection
  <2>3. Cardinality(1..z) = z /\ IsFiniteSet(1..z)
    BY <1>z, FS_Interval
  <2>4. row \in Surjection(1..z, nodes)
    BY <1>2, <1>z, <2>2, <2>3, FS_Injection
  <2>. QED
    BY <2>4 DEF Surjection
<1> HIDE DEF size
(* The node at each place.                                                 *)
<1>6. ASSUME NEW i \in 1..z
      PROVE  /\ BagToSet(tree[row[i]].clusterMap) = {c \in cs : row[i] \in Way(c)}
             /\ BagToSet(tree[row[i]].unionMap) \subseteq Attributes
             /\ \A a \in Attributes \ lost : a \in BagToSet(tree[row[i]].unionMap) <=>
                    \E c \in cs : row[i] \in Way(c) /\ a = at[c]
  <2>1. row[i] \in DOMAIN tree /\ row[i] \in Seq(STRING)
    BY <1>2, <1>4 DEF TreeFits
  <2>2. /\ tree[row[i]].clusterMap = SetToBag(BelowIn(cs, row[i]))
        /\ Tallies(tree[row[i]].unionMap, at, BelowIn(cs, row[i]), lost)
    BY <2>1 DEF TreeFits
  <2>3. BelowIn(cs, row[i]) = {c \in cs : row[i] \in Way(c)}
    BY <2>1, BelowForm
  <2>4. BagToSet(tree[row[i]].clusterMap) = {c \in cs : row[i] \in Way(c)}
    BY <2>2, <2>3 DEF BagToSet, SetToBag
  <2>5. /\ BagToSet(tree[row[i]].unionMap) \subseteq Attributes
        /\ \A a \in Attributes \ lost : a \in BagToSet(tree[row[i]].unionMap) <=>
               Holders(at, BelowIn(cs, row[i]), a) # {}
    BY <2>2 DEF Tallies, BagToSet
  <2>6. \A a : Holders(at, BelowIn(cs, row[i]), a) # {} <=>
                  \E c \in cs : row[i] \in Way(c) /\ a = at[c]
    BY <2>3 DEF Holders
  <2>. QED
    BY <2>4, <2>5, <2>6
<1> DEFINE u == z - 1
           bounds == EvenlyDivide(n, u)
           Idx(k) == (bounds[k][1] + 1)..(bounds[k][2] + 1)
<1>7. PICK m \in 1..n :
          /\ m = Smaller(n, u + 1) /\ DOMAIN bounds = 1..m
          /\ \A j \in 1..m : bounds[j][1] \in 0..u /\ bounds[j][2] \in 0..u
          /\ \A k \in 0..u : \E j \in 1..m : bounds[j][1] <= k /\ k <= bounds[j][2]
          /\ \A k \in 0..u : \A i1, i2 \in 1..m :
                 /\ bounds[i1][1] <= k /\ k <= bounds[i1][2]
                 /\ bounds[i2][1] <= k /\ k <= bounds[i2][2]
                 => i1 = i2
  <2>1. u \in Nat
    BY <1>z
  <2>. QED
    BY <2>1, Chunks
<1> DEFINE Nodes(k) == {tree[row[i]] : i \in Idx(k)}
           parts == Parts(tree, row, n)
<1>8. parts = [k \in 1..m |->
            [cluster |-> UNION {BagToSet(node.clusterMap) : node \in Nodes(k)},
             union   |-> UNION {BagToSet(node.unionMap) : node \in Nodes(k)}]]
  BY <1>4, <1>7 DEF Parts
<1> HIDE DEF bounds
(* The places of the parts.                                                *)
<1>9. /\ \A k \in 1..m : Idx(k) \subseteq 1..z
      /\ \A i \in 1..z : \E k \in 1..m : i \in Idx(k)
      /\ \A k, l \in 1..m : \A i \in Idx(k) : i \in Idx(l) => k = l
  <2>1. ASSUME NEW k \in 1..m PROVE Idx(k) \subseteq 1..z
    BY <1>7, <1>z
  <2>2. ASSUME NEW i \in 1..z PROVE \E k \in 1..m : i \in Idx(k)
    <3>1. i - 1 \in 0..u
      BY <1>z
    <3>2. PICK k \in 1..m : bounds[k][1] <= i - 1 /\ i - 1 <= bounds[k][2]
      BY <1>7, <3>1
    <3>3. bounds[k][1] \in 0..u /\ bounds[k][2] \in 0..u
      BY <1>7
    <3>. QED
      BY <1>z, <3>2, <3>3
  <2>3. ASSUME NEW k \in 1..m, NEW l \in 1..m, NEW i \in Idx(k), i \in Idx(l) PROVE k = l
    <3>1. /\ bounds[k][1] \in 0..u /\ bounds[k][2] \in 0..u
          /\ bounds[l][1] \in 0..u /\ bounds[l][2] \in 0..u
      BY <1>7
    <3>2. /\ i - 1 \in 0..u /\ bounds[k][1] <= i - 1 /\ i - 1 <= bounds[k][2]
          /\ bounds[l][1] <= i - 1 /\ i - 1 <= bounds[l][2]
      BY <1>z, <2>3, <3>1
    <3>. QED
      BY <1>7, <3>2
  <2>. QED
    BY <2>1, <2>2, <2>3
<1> HIDE DEF Idx, parts
<1>10. ASSUME NEW k \in 1..m
       PROVE  /\ parts[k].cluster = {c \in cs : \E i \in Idx(k) : row[i] \in Way(c)}
              /\ parts[k].union \ lost = {at[c] : c \in parts[k].cluster} \ lost
              /\ parts[k] \in PartType
  <2>1. /\ parts[k].cluster = UNION {BagToSet(node.clusterMap) : node \in Nodes(k)}
        /\ parts[k].union = UNION {BagToSet(node.unionMap) : node \in Nodes(k)}
        /\ parts[k] = [cluster |-> parts[k].cluster, union |-> parts[k].union]
    BY <1>8
  <2>2. parts[k].cluster = UNION {{c \in cs : row[i] \in Way(c)} : i \in Idx(k)}
    BY <1>6, <1>9, <2>1
  <2>3. \A a : a \in parts[k].union <=> \E i \in Idx(k) : a \in BagToSet(tree[row[i]].unionMap)
    BY <2>1
  <2>4. parts[k].cluster = {c \in cs : \E i \in Idx(k) : row[i] \in Way(c)}
    BY <2>2
  <2>5. parts[k].cluster \in SUBSET Clusters /\ parts[k].union \in SUBSET Attributes
    <3>1. \A i \in Idx(k) : BagToSet(tree[row[i]].unionMap) \subseteq Attributes
      BY <1>6, <1>9
    <3>. QED
      BY <2>3, <2>4, <3>1
  <2>6. ASSUME NEW a, a \notin lost
        PROVE  a \in parts[k].union <=> \E c \in parts[k].cluster : a = at[c]
    <3>1. CASE a \in Attributes
      <4>1. \A i \in Idx(k) : a \in BagToSet(tree[row[i]].unionMap) <=>
                \E c \in cs : row[i] \in Way(c) /\ a = at[c]
        BY <1>6, <1>9, <2>6, <3>1
      <4>. QED
        BY <2>3, <2>4, <4>1
    <3>2. CASE a \notin Attributes
      <4>1. \A c \in parts[k].cluster : at[c] \in Attributes
        BY <2>5
      <4>. QED
        BY <2>5, <3>2, <4>1
    <3>. QED
      BY <3>1, <3>2
  <2>7. parts[k].union \ lost = {at[c] : c \in parts[k].cluster} \ lost
    BY <2>6
  <2>8. parts[k] \in PartType
    BY <2>1, <2>5 DEF PartType
  <2>. QED
    BY <2>4, <2>7, <2>8
<1>11. Len(parts) = m /\ parts \in Seq(PartType) /\ m \in 1..n
  <2>1. parts \in [1..m -> PartType]
    BY <1>8, <1>10
  <2>. QED
    BY <2>1
<1>12. UNION {parts[k].cluster : k \in 1..m} = cs
  <2>1. ASSUME NEW c \in cs PROVE \E k \in 1..m : c \in parts[k].cluster
    <3>1. PICK p \in nodes : p \in Way(c)
      BY <1>1, LevelNodes DEF nodes
    <3>2. PICK i \in 1..z : row[i] = p
      BY <1>5
    <3>3. PICK k \in 1..m : i \in Idx(k)
      BY <1>9
    <3>. QED
      BY <1>10, <3>1, <3>2, <3>3
  <2>2. \A k \in 1..m : parts[k].cluster \subseteq cs
    BY <1>10
  <2>. QED
    BY <2>1, <2>2
<1>13. ASSUME NEW k \in 1..m, NEW l \in 1..m, k # l
       PROVE  parts[k].cluster \cap parts[l].cluster = {}
  <2> SUFFICES ASSUME NEW c, c \in parts[k].cluster, c \in parts[l].cluster PROVE FALSE
    OBVIOUS
  <2>1. PICK i \in Idx(k) : row[i] \in Way(c)
    BY <1>10
  <2>2. PICK j \in Idx(l) : row[j] \in Way(c)
    BY <1>10
  <2>3. c \in cs /\ i \in 1..z /\ j \in 1..z
    BY <1>9, <1>10
  <2>4. row[i] = row[j]
    BY <1>1, <1>4, <2>1, <2>2, <2>3, LevelNodes DEF nodes
  <2>5. i = j
    BY <1>4, <2>3, <2>4
  <2>. QED
    BY <1>9, <1>13, <2>2, <2>5
<1>14. ASSUME n <= Cardinality(cs) PROVE m = n
  <2>1. n <= z
    <3>1. CASE n <= Cardinality(Level(tree, depth))
      BY <1>z, <3>1 DEF nodes
    <3>2. CASE Level(tree, depth + 1) = {}
      <4>1. Cardinality(cs) \in Nat /\ cs # {}
        BY <1>14, FS_CardinalityType, FS_EmptySet
      <4>2. depth = GeoLevels
        <5>1. depth + 1 \in 0..GeoLevels => FALSE
          BY <3>2, <4>1, LevelNodes
        <5>. QED
          BY <1>1, <5>1 DEF GeoLevels
      <4> DEFINE f == [c \in cs |-> Geo(c)]
      <4>3. \A c \in cs : Geo(c) \in nodes
        <5>1. ASSUME NEW c \in cs PROVE Geo(c) \in DOMAIN tree /\ Len(Geo(c)) = GeoLevels
          BY WayForm, GeoPaths DEF TreeFits, Way
        <5>. QED
          BY <4>2, <5>1 DEF nodes, Level
      <4>4. f \in [cs -> nodes] /\ IsInjective(f)
        BY <4>3, GeoAssumption DEF IsInjective
      <4>5. f \in Injection(cs, nodes)
        BY <4>4 DEF Injection
      <4>6. Cardinality(cs) <= z
        BY <1>2, <1>z, <4>5, FS_Injection
      <4>. QED
        BY <1>14, <1>z, <4>1, <4>6
    <3>. QED
      BY <1>1, <3>1, <3>2 DEF EnoughNodes
  <2>. QED
    BY <1>7, <1>z, <2>1 DEF Smaller
<1>15. Divides(parts, cs, n, at, lost)
  BY <1>10, <1>11, <1>12, <1>13, <1>14 DEF Divides
<1>. QED
  BY <1>11, <1>15 DEF parts
-----------------------------------------------------------------------------
(* The list, the queue and the task of the controller.                     *)

(* A new scheduler is the last of the list.                                *)
LEMMA ListAppended ==
    ASSUME NEW S, NEW list \in Seq(S), NEW s \in S
    PROVE  /\ Append(list, s) \in Seq(S) /\ Len(Append(list, s)) = Len(list) + 1
           /\ Append(list, s)[Len(list) + 1] = s
           /\ \A i \in 1..Len(list) : Append(list, s)[i] = list[i]
  OBVIOUS

(* The last one takes the place of the one that is removed.                *)
LEMMA ListRemoved ==
    ASSUME NEW list \in Seq(Schedulers), NEW i \in 1..Len(list), NEW x \in Seq(Schedulers),
           Len(x) = Len(list),
           \A j \in 1..Len(list) : x[j] = IF j = i THEN list[Len(list)] ELSE list[j]
    PROVE  /\ SubSeq(x, 1, Len(list) - 1) \in Seq(Schedulers)
           /\ Len(SubSeq(x, 1, Len(list) - 1)) = Len(list) - 1
           /\ \A j \in 1..(Len(list) - 1) :
                  SubSeq(x, 1, Len(list) - 1)[j] = IF j = i THEN list[Len(list)] ELSE list[j]
<1>1. PICK n : n = Len(list)
  OBVIOUS
<1>2. n \in Nat /\ n - 1 \in 0..n /\ Len(x) = n
  BY <1>1
<1>3. /\ SubSeq(x, 1, n - 1) \in Seq(Schedulers) /\ Len(SubSeq(x, 1, n - 1)) = n - 1
      /\ \A j \in 1..(n - 1) : SubSeq(x, 1, n - 1)[j] = x[j]
  BY <1>2, FirstPart
<1>. QED
  BY <1>1, <1>2, <1>3

(* What the work queue holds after an item was put in or taken out.        *)
LEMMA QueueChanges ==
    ASSUME NEW q, IsABag(q), NEW S
    PROVE  /\ IsABag(q (+) SetToBag(S)) /\ BagToSet(q (+) SetToBag(S)) = BagToSet(q) \cup S
           /\ IsABag(q (-) SetToBag(S))
           /\ BagToSet(q (-) SetToBag(S)) \subseteq BagToSet(q)
           /\ BagToSet(q) \ S \subseteq BagToSet(q (-) SetToBag(S))
<1> DEFINE o == SetToBag(S)
<1>1. DOMAIN o = S /\ \A e \in S : o[e] = 1
  BY DEF SetToBag
<1>2. \A e \in DOMAIN q : q[e] \in Nat /\ q[e] > 0
  BY DEF IsABag
<1> HIDE DEF o
<1>3. IsABag(q (+) o) /\ DOMAIN (q (+) o) = DOMAIN q \cup S
  <2>1. q (+) o = [e \in DOMAIN q \cup DOMAIN o |-> (IF e \in DOMAIN q THEN q[e] ELSE 0)
                                                  + (IF e \in DOMAIN o THEN o[e] ELSE 0)]
    BY DEF (+)
  <2>. QED
    BY <1>1, <1>2, <2>1 DEF IsABag
<1> DEFINE h == [e \in DOMAIN q |-> IF e \in DOMAIN o THEN q[e] - o[e] ELSE q[e]]
<1>4. /\ IsABag(q (-) o) /\ DOMAIN (q (-) o) \subseteq DOMAIN q
      /\ DOMAIN q \ S \subseteq DOMAIN (q (-) o)
  <2>1. q (-) o = [e \in {d \in DOMAIN h : h[d] > 0} |-> h[e]]
    BY DEF (-)
  <2>2. DOMAIN h = DOMAIN q /\ \A e \in DOMAIN q : h[e] \in Int /\ (e \notin S => h[e] = q[e])
    BY <1>1, <1>2
  <2> HIDE DEF h
  <2>. QED
    BY <1>2, <2>1, <2>2 DEF IsABag
<1>. QED
  BY <1>3, <1>4 DEF o, BagToSet

(* What a handler starts with its last call.                               *)
LEMMA BalanceStarts ==
    ASSUME NEW cs \in SUBSET Clusters, IsFiniteSet(cs), NEW tree,
           NEW at \in [Clusters -> Attributes], NEW lost, TreeFits(tree, cs, at, lost),
           NEW list \in Seq(Schedulers), list # <<>>,
           NEW row \in Orders(Level(tree, BalanceDepth(tree, Len(list)))),
           NEW parts, parts = Parts(tree, row, Len(list))
    PROVE  /\ parts \in Seq(PartType) /\ Len(parts) \in 1..Len(list)
           /\ Divides(parts, cs, Len(list), at, lost)
<1>1. Len(list) \in Nat \ {0}
  OBVIOUS
<1>. QED
  BY <1>1, PartsDivide

(* A division by other records that say the same.                          *)
LEMMA SameDivision ==
    ASSUME NEW parts, NEW given, NEW m \in Nat, Len(parts) = m, Len(given) = m,
           \A k \in 1..m : given[k].cluster = parts[k].cluster /\ given[k].union = parts[k].union,
           NEW cs, NEW n, NEW at, NEW lost, Divides(parts, cs, n, at, lost)
    PROVE  Divides(given, cs, n, at, lost)
<1>1. UNION {given[k].cluster : k \in 1..m} = UNION {parts[k].cluster : k \in 1..m}
  OBVIOUS
<1>2. UNION {parts[k].cluster : k \in 1..m} = cs
  BY DEF Divides
<1>3. \A k \in 1..m : /\ parts[k].union \ lost = {at[c] : c \in parts[k].cluster} \ lost
                      /\ \A l \in 1..m : k # l => parts[k].cluster \cap parts[l].cluster = {}
  BY DEF Divides
<1>4. \A k \in 1..m : /\ given[k].union \ lost = {at[c] : c \in given[k].cluster} \ lost
                      /\ \A l \in 1..m : k # l => given[k].cluster \cap given[l].cluster = {}
  BY <1>3
<1>5. n <= Cardinality(cs) => m = n
  BY DEF Divides
<1>. QED
  BY <1>1, <1>2, <1>4, <1>5 DEF Divides
-----------------------------------------------------------------------------
(* The controller starts with an empty list and an empty tree.             *)
LEMMA SchedulersStart == SchedulersInit => SchedulersInv
<1> SUFFICES ASSUME SchedulersInit PROVE SchedulersInv
  OBVIOUS
<1> USE SchedulersAssumption DEF SchedulersInit, NothingHeld
<1>1. ObjectsInv /\ UidsInv
  BY DEF ObjectsInv, UidsInv
<1>2. MemoryInv
  BY FS_EmptySet DEF MemoryInv, EmptyBag, SetToBag, IsABag, BagToSet
<1>3. TaskInv /\ ListInv
  BY DEF TaskInv, ListInv
<1>4. TreeFits(countryNode, seenClusters, addedAttr, strayed)
  BY TreeNew
<1>5. StartedInv /\ DividedInv
  BY DEF StartedInv, DividedInv
<1>. QED
  BY <1>1, <1>2, <1>3, <1>4, <1>5 DEF SchedulersInv

(* After Restart as well.                                                  *)
LEMMA RestartKeepsInv == SchedulersInv /\ Restart => SchedulersInv'
<1> SUFFICES ASSUME SchedulersInv, Restart PROVE SchedulersInv'
  OBVIOUS
<1> USE SchedulersAssumption DEF SchedulersInv, Restart, api, ObjectsInv
<1>1. ObjectsInv' /\ UidsInv'
  BY DEF ObjectsInv, UidsInv
<1>2. MemoryInv'
  BY FS_EmptySet DEF MemoryInv, EmptyBag, SetToBag, IsABag, BagToSet
<1>3. TaskInv' /\ ListInv'
  BY DEF TaskInv, ListInv
<1>4. TreeFits(countryNode', seenClusters', addedAttr', strayed')
  BY TreeNew
<1>5. StartedInv' /\ DividedInv'
  BY DEF StartedInv, DividedInv, ObjectsInv
<1>. QED
  BY <1>1, <1>2, <1>3, <1>4, <1>5

(* The users of the API server.  A scheduler that replaces one of the list *)
(* has a uid that was not notified.                                        *)
LEMMA CreateSchedulerKeepsInv ==
    ASSUME SchedulersInv, NEW s \in Schedulers, CreateScheduler(s)
    PROVE  SchedulersInv'
<1> USE SchedulersAssumption DEF SchedulersInv, CreateScheduler, controller, clusterNews, history
<1>1. /\ apiUid' = [apiUid EXCEPT ![s] = lastUid + 1] /\ lastUid' = lastUid + 1
      /\ seenUid' = seenUid /\ schedulers' = schedulers /\ task' = task /\ faults' = faults
      /\ seenClusters' = seenClusters /\ countryNode' = countryNode
      /\ addedAttr' = addedAttr /\ strayed' = strayed /\ queue' = queue /\ unqueued' = unqueued /\ started' = started
      /\ \A t \in Schedulers \ {s} : /\ apiUid'[t] = apiUid[t] /\ apiCluster'[t] = apiCluster[t]
                                     /\ apiUnion'[t] = apiUnion[t]
  BY DEF ObjectsInv
<1>2. apiUid'[s] = lastUid + 1 /\ seenUid[s] # apiUid'[s]
  BY <1>1 DEF ObjectsInv, MemoryInv, UidsInv
<1>3. ObjectsInv'
  BY DEF ObjectsInv
<1>4. MemoryInv' /\ TaskInv' /\ ListInv'
  BY DEF MemoryInv, TaskInv, ListInv
<1>5. UidsInv'
  BY DEF UidsInv, ObjectsInv, MemoryInv
<1>6. StartedInv'
  BY <1>1, <1>2 DEF StartedInv
<1>7. DividedInv'
  <2> SUFFICES ASSUME faults = 0 PROVE DividedInv'
    BY <1>1 DEF DividedInv
  <2>1. ASSUME task # NoTask, NEW k \in 1..(task.next - 1), apiUid'[schedulers[k]] = seenUid[schedulers[k]]
        PROVE  apiCluster'[schedulers[k]] = task.parts[k].cluster /\ apiUnion'[schedulers[k]] = task.parts[k].union
    <3>1. k \in 1..Len(schedulers) /\ schedulers[k] \in Schedulers
      BY <2>1 DEF TaskInv, MemoryInv
    <3>2. schedulers[k] # s
      BY <1>2, <2>1
    <3>. QED
      BY <1>1, <2>1, <3>1, <3>2 DEF DividedInv
  <2>2. ASSUME task = NoTask, NoneGone', schedulers # <<>>
        PROVE  \E m \in 1..Len(schedulers) : Divides(Given(m)', seenClusters, Len(schedulers), addedAttr, strayed)
    <3>1. \A i \in 1..Len(schedulers) : schedulers[i] \in Schedulers /\ schedulers[i] # s
      BY <1>1, <1>2, <2>2 DEF NoneGone, MemoryInv
    <3>2. NoneGone
      BY <1>1, <2>2, <3>1 DEF NoneGone
    <3>3. PICK m \in 1..Len(schedulers) : Divides(Given(m), seenClusters, Len(schedulers), addedAttr, strayed)
      BY <2>2, <3>2 DEF DividedInv
    <3>4. Given(m)' = Given(m)
      BY <1>1, <3>1 DEF Given
    <3>. QED
      BY <3>3, <3>4
  <2>. QED
    BY <1>1, <2>1, <2>2 DEF DividedInv
<1>. QED
  BY <1>1, <1>3, <1>4, <1>5, <1>6, <1>7

LEMMA RemoveSchedulerKeepsInv ==
    ASSUME SchedulersInv, NEW s \in Schedulers, RemoveScheduler(s)
    PROVE  SchedulersInv'
<1> USE SchedulersAssumption DEF SchedulersInv, RemoveScheduler, controller, clusterNews, history
<1>1. /\ apiUid'[s] = 0 /\ apiCluster' = apiCluster /\ apiUnion' = apiUnion /\ lastUid' = lastUid
      /\ seenUid' = seenUid /\ schedulers' = schedulers /\ task' = task /\ faults' = faults
      /\ seenClusters' = seenClusters /\ countryNode' = countryNode
      /\ addedAttr' = addedAttr /\ strayed' = strayed /\ queue' = queue /\ unqueued' = unqueued /\ started' = started
      /\ \A t \in Schedulers \ {s} : apiUid'[t] = apiUid[t]
  BY DEF ObjectsInv
<1>2. ObjectsInv'
  BY DEF ObjectsInv
<1>3. MemoryInv' /\ TaskInv' /\ ListInv'
  BY DEF MemoryInv, TaskInv, ListInv
<1>4. UidsInv'
  BY DEF UidsInv, ObjectsInv, MemoryInv
<1>5. StartedInv'
  BY <1>1 DEF StartedInv
<1>6. \A i \in 1..Len(schedulers) :
          /\ schedulers[i] \in Schedulers
          /\ apiUid'[schedulers[i]] = seenUid[schedulers[i]] => apiUid[schedulers[i]] = seenUid[schedulers[i]]
  BY <1>1 DEF ListInv, MemoryInv
<1>7. DividedInv'
  <2> SUFFICES ASSUME faults = 0 PROVE DividedInv'
    BY <1>1 DEF DividedInv
  <2>1. ASSUME task # NoTask, NEW k \in 1..(task.next - 1), apiUid'[schedulers[k]] = seenUid[schedulers[k]]
        PROVE  apiCluster[schedulers[k]] = task.parts[k].cluster /\ apiUnion[schedulers[k]] = task.parts[k].union
    <3>1. k \in 1..Len(schedulers)
      BY <2>1 DEF TaskInv, MemoryInv
    <3>. QED
      BY <1>6, <2>1, <3>1 DEF DividedInv
  <2>2. ASSUME task = NoTask, NoneGone', schedulers # <<>>
        PROVE  \E m \in 1..Len(schedulers) : Divides(Given(m)', seenClusters, Len(schedulers), addedAttr, strayed)
    <3>1. NoneGone
      BY <1>1, <1>6, <2>2 DEF NoneGone
    <3>2. PICK m \in 1..Len(schedulers) : Divides(Given(m), seenClusters, Len(schedulers), addedAttr, strayed)
      BY <2>2, <3>1 DEF DividedInv
    <3>3. Given(m)' = Given(m)
      BY <1>1 DEF Given
    <3>. QED
      BY <3>2, <3>3
  <2>. QED
    BY <1>1, <2>1, <2>2 DEF DividedInv
<1>. QED
  BY <1>1, <1>2, <1>3, <1>4, <1>5, <1>7

LEMMA ClusterUsersKeepInv ==
    ASSUME SchedulersInv, NEW c \in Clusters, ChangeCluster(c) \/ UpdateCluster(c)
    PROVE  SchedulersInv'
<1> USE SchedulersAssumption DEF SchedulersInv
<1>1. UNCHANGED <<apiUid, apiCluster, apiUnion, lastUid, seenUid, seenClusters, addedAttr, schedulers,
                  countryNode, task, queue, started, faults, unqueued, strayed, running, restarts>>
  BY DEF ChangeCluster, UpdateCluster, controller, clusterNews, history
<1>2. ObjectsInv'
  <2>1. CASE ChangeCluster(c)
    BY <1>1, <2>1 DEF ObjectsInv, ChangeCluster
  <2>2. CASE UpdateCluster(c)
    BY <1>1, <2>2 DEF ObjectsInv, UpdateCluster
  <2>. QED
    BY <2>1, <2>2
<1>3. MemoryInv' /\ TaskInv' /\ ListInv' /\ UidsInv'
  BY <1>1 DEF MemoryInv, TaskInv, ListInv, UidsInv
<1>4. TreeFits(countryNode, seenClusters, addedAttr, strayed)' /\ StartedInv'
  BY <1>1 DEF StartedInv
<1>5. DividedInv'
  BY <1>1 DEF DividedInv, NoneGone, Given
<1>. QED
  BY <1>2, <1>3, <1>4, <1>5
-----------------------------------------------------------------------------
(* The handlers.  Each starts a balance of the new list and the new tree.  *)
LEMMA HandlerTask ==
    ASSUME NEW adding \in SUBSET Schedulers, StartBalance(adding), schedulers' \in Seq(Schedulers),
           seenClusters' \subseteq Clusters, IsFiniteSet(seenClusters'),
           addedAttr' \in [Clusters -> Attributes],
           TreeFits(countryNode', seenClusters', addedAttr', strayed')
    PROVE  /\ TaskInv' /\ DividedInv'
           /\ schedulers' # <<>> => task'.adding = adding
<1>1. CASE schedulers' = <<>>
  <2>1. task' = NoTask
    BY <1>1 DEF StartBalance
  <2>. QED
    BY <1>1, <2>1 DEF TaskInv, DividedInv
<1>2. CASE schedulers' # <<>>
  <2>1. PICK row \in Orders(Level(countryNode', BalanceDepth(countryNode', Len(schedulers')))) :
            task' = [adding |-> adding, parts |-> Parts(countryNode', row, Len(schedulers')), next |-> 1]
    BY <1>2 DEF StartBalance
  <2>2. /\ task'.adding = adding /\ task'.next = 1
        /\ task'.parts = Parts(countryNode', row, Len(schedulers'))
        /\ task' = [adding |-> task'.adding, parts |-> task'.parts, next |-> task'.next]
    BY <2>1
  <2>3. task' # NoTask
    BY <2>2 DEF NoTask
  <2>4. /\ task'.parts \in Seq(PartType) /\ Len(task'.parts) \in 1..Len(schedulers')
        /\ Divides(task'.parts, seenClusters', Len(schedulers'), addedAttr', strayed')
    <3>1. seenClusters' \in SUBSET Clusters
      OBVIOUS
    <3>. QED
      BY <1>2, <2>1, <2>2, <3>1, BalanceStarts
  <2>5. TaskInv'
    BY <2>2, <2>4 DEF TaskInv
  <2>6. DividedInv'
    BY <2>2, <2>3, <2>4 DEF DividedInv
  <2>. QED
    BY <2>2, <2>5, <2>6
<1>. QED
  BY <1>1, <1>2

LEMMA addSchedulerKeepsInv ==
    ASSUME SchedulersInv, NEW s \in Schedulers, addScheduler(s)
    PROVE  SchedulersInv'
<1> USE SchedulersAssumption DEF SchedulersInv, addScheduler, Handler, api, clusterNews, history
<1>1. /\ schedulers' = Append(schedulers, s) /\ schedulers' \in Seq(Schedulers)
      /\ Len(schedulers') = Len(schedulers) + 1 /\ Len(schedulers) \in Nat
      /\ schedulers'[Len(schedulers) + 1] = s
      /\ \A i \in 1..Len(schedulers) : schedulers'[i] = schedulers[i]
  BY ListAppended DEF MemoryInv
<1>2. ObjectsInv'
  BY DEF ObjectsInv
<1>3. MemoryInv'
  <2>1. seenUid' \in [Schedulers -> 0..MaxUid]
    BY DEF MemoryInv, ObjectsInv
  <2>. QED
    BY <1>1, <2>1 DEF MemoryInv
<1>4. TreeFits(countryNode', seenClusters', addedAttr', strayed')
  OBVIOUS
<1>5. UidsInv'
  BY DEF UidsInv, ObjectsInv, MemoryInv
<1>6. ListInv'
  <2>1. \A i \in 1..Len(schedulers) : schedulers[i] # s
    BY DEF ListInv
  <2>2. seenUid'[s] # 0 /\ \A t \in Schedulers \ {s} : seenUid'[t] = seenUid[t]
    BY DEF MemoryInv
  <2>3. ASSUME NEW t \in Schedulers
        PROVE  seenUid'[t] # 0 <=> \E i \in 1..Len(schedulers') : schedulers'[i] = t
    <3>1. CASE t = s
      BY <1>1, <2>2, <3>1
    <3>2. CASE t # s
      <4>1. (\E i \in 1..Len(schedulers') : schedulers'[i] = t)
                <=> \E i \in 1..Len(schedulers) : schedulers[i] = t
        BY <1>1, <3>2
      <4>. QED
        BY <2>2, <3>2, <4>1 DEF ListInv
    <3>. QED
      BY <3>1, <3>2
  <2>4. \A i, j \in 1..Len(schedulers') : schedulers'[i] = schedulers'[j] => i = j
    BY <1>1, <2>1 DEF ListInv
  <2>. QED
    BY <2>3, <2>4 DEF ListInv
<1>7. schedulers' # <<>>
  BY <1>1
<1>8. TaskInv' /\ DividedInv' /\ task'.adding = {s}
  BY <1>1, <1>3, <1>4, <1>7, HandlerTask DEF MemoryInv
<1>9. StartedInv'
  BY <1>8 DEF StartedInv, MemoryInv, NoTask
<1>. QED
  BY <1>2, <1>3, <1>4, <1>5, <1>6, <1>8, <1>9

(* The list without a scheduler.                                           *)
LEMMA ListWithout ==
    ASSUME MemoryInv, ListInv, NEW s \in Schedulers, seenUid[s] # 0, deleteScheduler(s)
    PROVE  schedulers' \in Seq(Schedulers) /\ ListInv'
<1> DEFINE n == Len(schedulers)
           At(i) == schedulers[i] = s /\ \A j \in 1..(i - 1) : schedulers[j] # s
<1>1. schedulers \in Seq(Schedulers) /\ n \in Nat
  BY DEF MemoryInv
<1>2. PICK k \in 1..n : schedulers[k] = s
  BY DEF ListInv
<1>3. At(k)
  BY <1>1, <1>2 DEF ListInv
<1>4. PICK i : i = CHOOSE x \in 1..n : At(x)
  OBVIOUS
<1>5. i \in 1..n /\ At(i)
  <2> HIDE DEF At
  <2>. QED
    BY <1>3, <1>4
<1>6. schedulers' = SubSeq([schedulers EXCEPT ![i] = schedulers[n]], 1, n - 1)
  BY <1>2, <1>4 DEF deleteScheduler
<1>7. /\ schedulers' \in Seq(Schedulers) /\ Len(schedulers') = n - 1
      /\ \A j \in 1..Len(schedulers') : schedulers'[j] = IF j = i THEN schedulers[n] ELSE schedulers[j]
  <2>1. PICK x : x = [schedulers EXCEPT ![i] = schedulers[n]]
    OBVIOUS
  <2>2. /\ x \in Seq(Schedulers) /\ Len(x) = n
        /\ \A j \in 1..n : x[j] = IF j = i THEN schedulers[n] ELSE schedulers[j]
    BY <1>1, <1>5, <2>1
  <2>3. schedulers' = SubSeq(x, 1, n - 1)
    BY <1>6, <2>1
  <2>4. /\ SubSeq(x, 1, n - 1) \in Seq(Schedulers) /\ Len(SubSeq(x, 1, n - 1)) = n - 1
        /\ \A j \in 1..(n - 1) :
               SubSeq(x, 1, n - 1)[j] = IF j = i THEN schedulers[n] ELSE schedulers[j]
    BY <1>1, <1>5, <2>2, ListRemoved
  <2>. QED
    BY <2>3, <2>4
<1>8. schedulers[i] = s
  BY <1>5
<1> HIDE DEF At
<1>9. /\ seenUid'[s] = 0 /\ \A t \in Schedulers \ {s} : seenUid'[t] = seenUid[t]
  BY DEF deleteScheduler, MemoryInv
<1>10. \A i1, j \in 1..n : schedulers[i1] = schedulers[j] => i1 = j
  BY DEF ListInv
<1>11. \A j \in 1..Len(schedulers') : schedulers'[j] # s
  BY <1>1, <1>5, <1>7, <1>8, <1>10
<1>12. ASSUME NEW t \in Schedulers \ {s}
       PROVE  (\E j \in 1..n : schedulers[j] = t) <=> \E j \in 1..Len(schedulers') : schedulers'[j] = t
  <2>1. ASSUME NEW j \in 1..n, schedulers[j] = t PROVE \E l \in 1..Len(schedulers') : schedulers'[l] = t
    <3>1. CASE j = n
      <4>1. i \in 1..Len(schedulers') /\ schedulers'[i] = t
        BY <1>1, <1>5, <1>7, <1>8, <2>1, <3>1
      <4>. QED
        BY <4>1
    <3>2. CASE j # n
      <4>1. j \in 1..Len(schedulers') /\ schedulers'[j] = t
        BY <1>1, <1>5, <1>7, <1>8, <2>1, <3>2
      <4>. QED
        BY <4>1
    <3>. QED
      BY <3>1, <3>2
  <2>2. ASSUME NEW j \in 1..Len(schedulers'), schedulers'[j] = t PROVE \E l \in 1..n : schedulers[l] = t
    BY <1>1, <1>7, <2>2
  <2>. QED
    BY <2>1, <2>2
<1>13. ASSUME NEW j \in 1..Len(schedulers'), NEW l \in 1..Len(schedulers'),
              schedulers'[j] = schedulers'[l]
       PROVE  j = l
  <2> DEFINE Old(x) == IF x = i THEN n ELSE x
  <2>1. j \in 1..n /\ j # n /\ l \in 1..n /\ l # n /\ n \in 1..n
    BY <1>1, <1>7
  <2>2. /\ Old(j) \in 1..n /\ schedulers'[j] = schedulers[Old(j)]
        /\ Old(l) \in 1..n /\ schedulers'[l] = schedulers[Old(l)]
    BY <1>7, <2>1
  <2>3. Old(j) = Old(l)
    <3> HIDE DEF Old
    <3>. QED
      BY <1>10, <1>13, <2>2
  <2>. QED
    BY <2>1, <2>3
<1>14. ASSUME NEW t \in Schedulers
       PROVE  seenUid'[t] # 0 <=> \E j \in 1..Len(schedulers') : schedulers'[j] = t
  <2>1. CASE t = s
    BY <1>9, <1>11, <2>1
  <2>2. CASE t # s
    <3>1. seenUid[t] # 0 <=> \E j \in 1..n : schedulers[j] = t
      BY DEF ListInv
    <3>. QED
      BY <1>9, <1>12, <2>2, <3>1
  <2>. QED
    BY <2>1, <2>2
<1>. QED
  BY <1>7, <1>13, <1>14 DEF ListInv

LEMMA deleteSchedulerKeepsInv ==
    ASSUME SchedulersInv, NEW s \in Schedulers, deleteScheduler(s)
    PROVE  SchedulersInv'
<1> USE SchedulersAssumption DEF SchedulersInv
<1>1. schedulers' \in Seq(Schedulers) /\ ListInv'
  BY ListWithout DEF deleteScheduler
<1>2. /\ seenUid' = [seenUid EXCEPT ![s] = 0] /\ StartBalance({}) /\ task = NoTask
      /\ UNCHANGED <<seenClusters, addedAttr, countryNode, queue, unqueued, strayed, apiClusters,
                     apiAttr, apiUid, apiCluster, apiUnion, lastUid, changes, clusterUpdates,
                     started, faults, running, restarts>>
  BY DEF deleteScheduler, Handler, api, clusterNews, history
<1>3. ObjectsInv'
  BY <1>2 DEF ObjectsInv
<1>4. MemoryInv'
  <2>1. seenUid' \in [Schedulers -> 0..MaxUid]
    BY <1>2 DEF MemoryInv
  <2>. QED
    BY <1>1, <1>2, <2>1 DEF MemoryInv
<1>5. TreeFits(countryNode', seenClusters', addedAttr', strayed')
  BY <1>2
<1>6. UidsInv'
  BY <1>2 DEF UidsInv, ObjectsInv, MemoryInv
<1>7. TaskInv' /\ DividedInv'
  BY <1>1, <1>2, <1>4, <1>5, HandlerTask DEF MemoryInv
<1>8. StartedInv'
  BY <1>2 DEF StartedInv, MemoryInv, NoTask
<1>. QED
  BY <1>1, <1>3, <1>4, <1>5, <1>6, <1>7, <1>8

LEMMA ClusterHandlersKeepInv ==
    ASSUME SchedulersInv, NEW c \in Clusters, addCluster(c) \/ deleteCluster(c)
    PROVE  SchedulersInv'
<1> USE SchedulersAssumption DEF SchedulersInv
<1>1. /\ StartBalance({}) /\ task = NoTask
      /\ UNCHANGED <<seenUid, schedulers, queue, unqueued, apiClusters, apiAttr, apiUid, apiCluster,
                     apiUnion, lastUid, changes, clusterUpdates, started, faults, running, restarts>>
  BY DEF addCluster, deleteCluster, Handler, api, history
<1>t. apiAttr[c] \in Attributes /\ addedAttr \in [Clusters -> Attributes] /\ strayed \subseteq Attributes
  BY DEF ObjectsInv, MemoryInv
<1>2. /\ seenClusters' \subseteq Clusters /\ IsFiniteSet(seenClusters')
      /\ addedAttr' \in [Clusters -> Attributes] /\ strayed' \subseteq Attributes
      /\ TreeFits(countryNode', seenClusters', addedAttr', strayed')
  <2>1. CASE addCluster(c)
    <3>1. /\ c \notin seenClusters /\ seenClusters' = seenClusters \cup {c}
          /\ countryNode' = AddCluster(countryNode, c, Geo(c), apiAttr[c])
          /\ addedAttr' = [addedAttr EXCEPT ![c] = apiAttr[c]] /\ strayed' = strayed
      BY <2>1 DEF addCluster, history
    <3>2. /\ addedAttr' \in [Clusters -> Attributes] /\ addedAttr'[c] = apiAttr[c]
          /\ \A d \in seenClusters : addedAttr'[d] = addedAttr[d]
      BY <1>t, <3>1 DEF MemoryInv
    <3>3. PICK next : next = addedAttr'
      OBVIOUS
    <3>4. TreeFits(AddCluster(countryNode, c, Geo(c), next[c]), seenClusters \cup {c}, next, strayed)
      BY <1>t, <3>1, <3>2, <3>3, TreeAdd DEF MemoryInv
    <3>. QED
      BY <1>t, <3>1, <3>2, <3>3, <3>4, FS_AddElement DEF MemoryInv
  <2>2. CASE deleteCluster(c)
    <3>1. /\ c \in seenClusters /\ seenClusters' = seenClusters \ {c}
          /\ countryNode' = DelCluster(countryNode, c, Geo(c), apiAttr[c])
          /\ addedAttr' = addedAttr
          /\ strayed' = IF apiAttr[c] = addedAttr[c] THEN strayed
                        ELSE strayed \cup {apiAttr[c], addedAttr[c]}
      BY <2>2 DEF deleteCluster
    <3>2. PICK more : more = strayed'
      OBVIOUS
    <3>3. /\ strayed \subseteq more /\ more \subseteq Attributes
          /\ apiAttr[c] = addedAttr[c] \/ (apiAttr[c] \in more /\ addedAttr[c] \in more)
      <4>1. addedAttr[c] \in Attributes
        BY <1>t
      <4>2. CASE apiAttr[c] = addedAttr[c]
        BY <1>t, <3>1, <3>2, <4>2
      <4>3. CASE apiAttr[c] # addedAttr[c]
        BY <1>t, <3>1, <3>2, <4>1, <4>3
      <4>. QED
        BY <4>2, <4>3
    <3>4. TreeFits(DelCluster(countryNode, c, Geo(c), apiAttr[c]), seenClusters \ {c}, addedAttr, more)
      BY <3>1, <3>3, TreeDel DEF MemoryInv
    <3>. QED
      BY <1>t, <3>1, <3>2, <3>3, <3>4, FS_RemoveElement DEF MemoryInv
  <2>. QED
    BY <2>1, <2>2
<1>3. ObjectsInv' /\ MemoryInv'
  BY <1>1, <1>2 DEF ObjectsInv, MemoryInv
<1>4. ListInv' /\ UidsInv'
  BY <1>1 DEF ListInv, UidsInv
<1>5. TaskInv' /\ DividedInv'
  BY <1>1, <1>2, HandlerTask DEF MemoryInv
<1>6. StartedInv'
  BY <1>1 DEF StartedInv, NoTask
<1>. QED
  BY <1>2, <1>3, <1>4, <1>5, <1>6
-----------------------------------------------------------------------------
(* The loop of balance.  A turn gives the next scheduler its part; the     *)
(* last one completes the division.                                        *)
LEMMA UpdateSchedulerKeepsInv ==
    ASSUME SchedulersInv, UpdateScheduler
    PROVE  SchedulersInv'
<1> USE SchedulersAssumption DEF SchedulersInv
<1>1. /\ task # NoTask /\ apiUid[Written] # 0
      /\ apiCluster' = [apiCluster EXCEPT ![Written] = task.parts[task.next].cluster]
      /\ apiUnion' = [apiUnion EXCEPT ![Written] = task.parts[task.next].union]
      /\ UNCHANGED <<apiClusters, apiAttr, apiUid, lastUid, changes, clusterUpdates, seenUid,
                     seenClusters, addedAttr, schedulers, countryNode, started, faults, strayed,
                     running, restarts>>
  BY DEF UpdateScheduler, clusterNews
<1>2. /\ task = [adding |-> task.adding, parts |-> task.parts, next |-> task.next]
      /\ task.adding \subseteq Schedulers /\ task.parts \in Seq(PartType)
      /\ task.next \in 1..Len(task.parts) /\ Len(task.parts) <= Len(schedulers)
      /\ Len(task.parts) \in Nat /\ Len(schedulers) \in Nat
      /\ task.next \in Nat /\ task.next <= Len(task.parts) /\ task.next \in 1..Len(schedulers)
  BY <1>1 DEF TaskInv, MemoryInv
<1>3. \A i \in 1..Len(schedulers) : schedulers[i] \in Schedulers
  BY DEF MemoryInv
<1>4. Written \in Schedulers /\ Written = schedulers[task.next]
  BY <1>2, <1>3 DEF Written
<1>5. /\ apiCluster'[Written] = task.parts[task.next].cluster
      /\ apiUnion'[Written] = task.parts[task.next].union
      /\ \A t \in Schedulers \ {Written} : apiCluster'[t] = apiCluster[t] /\ apiUnion'[t] = apiUnion[t]
  BY <1>1, <1>4 DEF ObjectsInv
<1>6. \/ /\ task.next = Len(task.parts) /\ task' = NoTask /\ unqueued' = unqueued
         /\ queue' = queue (+) SetToBag(task.adding)
      \/ /\ task.next # Len(task.parts) /\ task' = [task EXCEPT !.next = @ + 1]
         /\ queue' = queue /\ unqueued' = unqueued
  BY DEF UpdateScheduler, EndBalance
<1>7. ObjectsInv'
  <2>1. task.parts[task.next] \in PartType
    BY <1>2
  <2>2. task.parts[task.next].cluster \in SUBSET Clusters /\ task.parts[task.next].union \in SUBSET Attributes
    BY <2>1 DEF PartType
  <2>. QED
    BY <1>1, <1>4, <2>2 DEF ObjectsInv
<1>8. MemoryInv'
  <2>1. IsABag(queue') /\ BagToSet(queue') \subseteq Schedulers
    BY <1>2, <1>6, QueueChanges DEF MemoryInv
  <2>. QED
    BY <1>1, <1>6, <2>1 DEF MemoryInv
<1>9. \/ task.next = Len(task.parts) /\ task' = NoTask
      \/ /\ task.next # Len(task.parts) /\ task' # NoTask
         /\ task' = [adding |-> task'.adding, parts |-> task'.parts, next |-> task'.next]
         /\ task'.adding = task.adding /\ task'.parts = task.parts /\ task'.next = task.next + 1
  <2> SUFFICES ASSUME task.next # Len(task.parts), task' = [task EXCEPT !.next = @ + 1]
               PROVE  /\ task' # NoTask
                      /\ task' = [adding |-> task'.adding, parts |-> task'.parts, next |-> task'.next]
                      /\ task'.adding = task.adding /\ task'.parts = task.parts
                      /\ task'.next = task.next + 1
    BY <1>6
  <2>1. task' = [adding |-> task.adding, parts |-> task.parts, next |-> task.next + 1]
    BY <1>2
  <2>2. task'.adding = task.adding /\ task'.parts = task.parts /\ task'.next = task.next + 1
    BY <2>1
  <2>3. task' # NoTask
    BY <1>2, <2>2 DEF NoTask
  <2>. QED
    BY <2>1, <2>2, <2>3
<1>10. TaskInv'
  BY <1>1, <1>2, <1>9 DEF TaskInv
<1>11. ListInv' /\ UidsInv'
  BY <1>1 DEF ListInv, UidsInv
<1>12. StartedInv'
  <2>1. \A s \in Schedulers : s \in BagToSet(queue) \/ s \in task.adding =>
            s \in BagToSet(queue') \/ s \in task'.adding
    <3>1. CASE task.next = Len(task.parts)
      BY <1>6, <3>1, QueueChanges DEF MemoryInv
    <3>2. CASE task.next # Len(task.parts)
      BY <1>6, <1>9, <3>2
    <3>. QED
      BY <3>1, <3>2
  <2>2. unqueued' = unqueued
    BY <1>6
  <2>. QED
    BY <1>1, <2>1, <2>2 DEF StartedInv
<1>13. DividedInv'
  <2> SUFFICES ASSUME faults = 0 PROVE DividedInv'
    BY <1>1 DEF DividedInv
  <2>1. Divides(task.parts, seenClusters, Len(schedulers), addedAttr, strayed)
    BY <1>1 DEF DividedInv
  <2>2. ASSUME NEW k \in 1..task.next, apiUid[schedulers[k]] = seenUid[schedulers[k]]
        PROVE  /\ apiCluster'[schedulers[k]] = task.parts[k].cluster
               /\ apiUnion'[schedulers[k]] = task.parts[k].union
    <3>1. CASE k = task.next
      BY <1>4, <1>5, <3>1
    <3>2. CASE k # task.next
      <4>1. k \in 1..(task.next - 1) /\ k \in 1..Len(schedulers)
        BY <1>2, <3>2
      <4>2. schedulers[k] \in Schedulers \ {Written}
        BY <1>2, <1>3, <1>4, <3>2, <4>1 DEF ListInv
      <4>3. apiCluster[schedulers[k]] = task.parts[k].cluster /\ apiUnion[schedulers[k]] = task.parts[k].union
        BY <1>1, <2>2, <4>1 DEF DividedInv
      <4>. QED
        BY <1>5, <4>2, <4>3
    <3>. QED
      BY <3>1, <3>2
  <2>3. CASE task.next # Len(task.parts)
    <3>1. task' # NoTask /\ task'.parts = task.parts /\ task'.next - 1 = task.next
      BY <1>2, <1>9, <2>3
    <3>. QED
      BY <1>1, <2>1, <2>2, <3>1 DEF DividedInv
  <2>4. CASE task.next = Len(task.parts)
    <3>1. task' = NoTask
      BY <1>9, <2>4
    <3>2. ASSUME NoneGone'
          PROVE  \E m \in 1..Len(schedulers) : Divides(Given(m)', seenClusters, Len(schedulers), addedAttr, strayed)
      <4>1. PICK m : m = task.next
        OBVIOUS
      <4>2. m \in Nat /\ m \in 1..Len(schedulers) /\ Len(task.parts) = m
        BY <1>2, <2>4, <4>1
      <4>3. PICK given : given = [k \in 1..m |-> [cluster |-> apiCluster'[schedulers[k]],
                                                  union   |-> apiUnion'[schedulers[k]]]]
        OBVIOUS
      <4>4. Given(m)' = given
        BY <1>1, <4>3 DEF Given
      <4>5. \A k \in 1..m : given[k].cluster = task.parts[k].cluster /\ given[k].union = task.parts[k].union
        <5>1. \A k \in 1..m : apiUid[schedulers[k]] = seenUid[schedulers[k]]
          BY <1>1, <1>2, <3>2, <4>1, <4>2 DEF NoneGone
        <5>. QED
          BY <2>2, <4>1, <4>3, <5>1
      <4>6. Len(given) = m
        BY <4>2, <4>3
      <4>7. Divides(given, seenClusters, Len(schedulers), addedAttr, strayed)
        BY <2>1, <4>2, <4>5, <4>6, SameDivision
      <4>. QED
        BY <4>2, <4>4, <4>7
    <3>. QED
      BY <1>1, <3>1, <3>2 DEF DividedInv
  <2>. QED
    BY <2>3, <2>4
<1>. QED
  BY <1>1, <1>7, <1>8, <1>10, <1>11, <1>12, <1>13

(* A balance fails over a scheduler that is gone, or over a fault.         *)
LEMMA UpdateFailsKeepsInv ==
    ASSUME SchedulersInv, UpdateFails
    PROVE  SchedulersInv'
<1> USE SchedulersAssumption DEF SchedulersInv
<1>1. /\ task # NoTask /\ task' = NoTask /\ queue' = queue /\ unqueued' = unqueued \cup task.adding
      /\ UNCHANGED <<apiClusters, apiAttr, apiUid, apiCluster, apiUnion, lastUid, changes,
                     clusterUpdates, seenUid, seenClusters, addedAttr, schedulers, countryNode,
                     started, strayed, running, restarts>>
  BY DEF UpdateFails, EndBalance, api, clusterNews
<1>2. \/ apiUid[Written] = 0 /\ faults' = faults
      \/ faults + restarts < MaxTrouble /\ faults' = faults + 1
  BY DEF UpdateFails
<1>3. /\ task.adding \subseteq Schedulers /\ task.next \in 1..Len(schedulers)
      /\ Written \in Schedulers /\ Written = schedulers[task.next]
  BY <1>1 DEF TaskInv, MemoryInv, Written
<1>4. faults' \in 0..MaxTrouble /\ (faults' = 0 => faults = 0 /\ apiUid[Written] = 0)
  BY <1>2 DEF MemoryInv
<1>5. ObjectsInv' /\ UidsInv' /\ ListInv' /\ TaskInv'
  BY <1>1 DEF ObjectsInv, UidsInv, ListInv, TaskInv
<1>6. MemoryInv'
  BY <1>1, <1>3, <1>4 DEF MemoryInv
<1>7. StartedInv'
  BY <1>1, <1>4 DEF StartedInv
<1>8. DividedInv'
  <2>1. faults' = 0 => ~NoneGone'
    BY <1>1, <1>3, <1>4 DEF NoneGone, ListInv
  <2>. QED
    BY <1>1, <2>1 DEF DividedInv
<1>. QED
  BY <1>1, <1>5, <1>6, <1>7, <1>8

(* The worker starts the process of the scheduler it takes.                *)
LEMMA syncHandlerKeepsInv ==
    ASSUME SchedulersInv, NEW s \in Schedulers, syncHandler(s)
    PROVE  SchedulersInv'
<1> USE SchedulersAssumption DEF SchedulersInv
<1>1. /\ task = NoTask /\ queue' = queue (-) SetToBag({s})
      /\ UNCHANGED <<apiClusters, apiAttr, apiUid, apiCluster, apiUnion, lastUid, changes,
                     clusterUpdates, seenUid, seenClusters, addedAttr, schedulers, countryNode,
                     task, unqueued, strayed, restarts>>
  BY DEF syncHandler, api, clusterNews, history
<1>2. \/ apiUid[s] = 0 /\ running' = FALSE /\ UNCHANGED <<started, faults>>
      \/ apiUid[s] # 0 /\ started' = started \cup {apiUid[s]} /\ UNCHANGED <<faults, running>>
      \/ faults + restarts < MaxTrouble /\ faults' = faults + 1 /\ UNCHANGED <<started, running>>
  BY DEF syncHandler
<1>3. /\ IsABag(queue') /\ BagToSet(queue') \subseteq BagToSet(queue)
      /\ BagToSet(queue) \ {s} \subseteq BagToSet(queue')
  BY <1>1, QueueChanges DEF MemoryInv
<1>4. /\ faults' \in 0..MaxTrouble /\ running' \in BOOLEAN /\ started' \subseteq 1..MaxUid
      /\ started \subseteq started'
      /\ faults' = 0 => faults = 0 /\ (apiUid[s] # 0 => apiUid[s] \in started')
  <2>1. running' \in BOOLEAN
    BY <1>2 DEF MemoryInv
  <2>2. apiUid[s] \in 0..MaxUid /\ (apiUid[s] # 0 => apiUid[s] \in 1..MaxUid)
    BY DEF ObjectsInv
  <2>3. started' \subseteq 1..MaxUid /\ started \subseteq started'
    BY <1>2, <2>2 DEF MemoryInv
  <2>4. faults' \in 0..MaxTrouble
    BY <1>2 DEF MemoryInv
  <2>5. faults' = 0 => faults = 0 /\ (apiUid[s] # 0 => apiUid[s] \in started')
    BY <1>2 DEF MemoryInv
  <2>. QED
    BY <2>1, <2>3, <2>4, <2>5
<1>5. ObjectsInv' /\ UidsInv' /\ ListInv' /\ TaskInv'
  BY <1>1 DEF ObjectsInv, UidsInv, ListInv, TaskInv
<1>6. MemoryInv'
  BY <1>1, <1>3, <1>4 DEF MemoryInv
<1>7. StartedInv'
  BY <1>1, <1>3, <1>4 DEF StartedInv
<1>8. DividedInv'
  BY <1>1, <1>4 DEF DividedInv, NoneGone, Given
<1>. QED
  BY <1>1, <1>5, <1>6, <1>7, <1>8

(* SchedulersInv is inductive.                                             *)
LEMMA SchedulersStep == SchedulersInv /\ [SchedulersNext]_schedulersVars => SchedulersInv'
<1> SUFFICES ASSUME SchedulersInv, [SchedulersNext]_schedulersVars PROVE SchedulersInv'
  OBVIOUS
<1>1. CASE UNCHANGED schedulersVars
  <2> USE <1>1 DEF schedulersVars, api, controller, clusterNews, history
  <2>1. ObjectsInv' /\ MemoryInv' /\ TaskInv' /\ UidsInv' /\ ListInv'
    BY DEF SchedulersInv, ObjectsInv, MemoryInv, TaskInv, UidsInv, ListInv
  <2>2. TreeFits(countryNode, seenClusters, addedAttr, strayed)' /\ StartedInv'
    BY DEF SchedulersInv, StartedInv
  <2>3. DividedInv'
    BY DEF SchedulersInv, DividedInv, NoneGone, Given
  <2>. QED
    BY <2>1, <2>2, <2>3 DEF SchedulersInv
<1>2. CASE Users
  BY <1>2, CreateSchedulerKeepsInv, RemoveSchedulerKeepsInv, ClusterUsersKeepInv DEF Users
<1>3. CASE Handlers
  BY <1>3, addSchedulerKeepsInv, deleteSchedulerKeepsInv, ClusterHandlersKeepInv DEF Handlers
<1>4. CASE Balance
  BY <1>4, UpdateSchedulerKeepsInv, UpdateFailsKeepsInv DEF Balance
<1>5. CASE Work
  BY <1>5, syncHandlerKeepsInv DEF Work
<1>6. CASE Restart
  BY <1>6, RestartKeepsInv
<1>. QED
  BY <1>1, <1>2, <1>3, <1>4, <1>5, <1>6 DEF SchedulersNext
-----------------------------------------------------------------------------
(* What the invariant says once every notification was handled: the list   *)
(* has the schedulers there are, and none of them is gone.                 *)
LEMMA QuietList ==
    ASSUME SchedulersInv, Quiet
    PROVE  /\ NoneGone /\ IsFiniteSet(Existing) /\ Cardinality(Existing) = Len(schedulers)
           /\ \A s : s \in Existing <=> \E i \in 1..Len(schedulers) : schedulers[i] = s
<1>1. seenUid = apiUid /\ schedulers \in Seq(Schedulers)
  BY DEF SchedulersInv, MemoryInv, Quiet
<1>2. NoneGone
  BY <1>1 DEF NoneGone
<1>3. \A s : s \in Existing <=> \E i \in 1..Len(schedulers) : schedulers[i] = s
  BY <1>1 DEF SchedulersInv, ListInv, Existing
<1>4. PICK n : n = Len(schedulers)
  OBVIOUS
<1>5. n \in Nat /\ schedulers \in [1..n -> Existing]
  BY <1>1, <1>3, <1>4
<1>6. schedulers \in Bijection(1..n, Existing)
  <2>1. IsInjective(schedulers)
    BY <1>4, <1>5 DEF IsInjective, SchedulersInv, ListInv
  <2>2. schedulers \in Injection(1..n, Existing)
    BY <1>5, <2>1 DEF Injection
  <2>3. schedulers \in Surjection(1..n, Existing)
    BY <1>3, <1>4, <1>5 DEF Surjection
  <2>. QED
    BY <2>2, <2>3 DEF Bijection
<1>7. IsFiniteSet(1..n) /\ Cardinality(1..n) = n
  BY <1>5, FS_Interval
<1>8. IsFiniteSet(Existing) /\ Cardinality(Existing) = n
  <2>1. ExistsBijection(1..n, Existing)
    BY <1>6 DEF ExistsBijection
  <2>. QED
    BY <1>7, <2>1, FS_Bijection
<1>. QED
  BY <1>2, <1>3, <1>4, <1>8

LEMMA InvGivesStarted == SchedulersInv => QueuedSchedulersStarted
<1> SUFFICES ASSUME SchedulersInv, Quiet, queue = EmptyBag, faults = 0, NEW s \in Existing
             PROVE  apiUid[s] \in started \/ s \in unqueued
  BY DEF QueuedSchedulersStarted
<1>1. BagToSet(queue) = {} /\ task.adding = {}
  BY DEF EmptyBag, SetToBag, BagToSet, Quiet, NoTask
<1>. QED
  BY <1>1 DEF SchedulersInv, StartedInv, Quiet, Existing

LEMMA InvGivesTree == SchedulersInv => TreeInv
<1> SUFFICES ASSUME SchedulersInv PROVE TreeInv
  OBVIOUS
<1> USE DEF SchedulersInv
<1>1. ASSUME NEW p \in DOMAIN countryNode
      PROVE  /\ p = Root \/ Below(p) # {}
             /\ countryNode[p].clusterMap = SetToBag(Below(p))
             /\ BagToSet(countryNode[p].unionMap) \subseteq Attributes
  <2>1. Below(p) = BelowIn(seenClusters, p)
    BY DEF Below, BelowIn
  <2>. QED
    BY <2>1 DEF TreeFits, Tallies, BagToSet
<1>2. TreeMatchesClusters
  <2>1. \A c \in seenClusters : PathPrefixes(Geo(c), 0..Len(Geo(c))) \subseteq DOMAIN countryNode
    BY DEF TreeFits
  <2>. QED
    BY <1>1, <2>1 DEF TreeMatchesClusters
<1>3. \A p \in DOMAIN countryNode :
          /\ BagToSet(countryNode[p].clusterMap) \subseteq Clusters
          /\ BagToSet(countryNode[p].unionMap) \subseteq Attributes
  <2> TAKE p \in DOMAIN countryNode
  <2>1. BagToSet(countryNode[p].clusterMap) = Below(p)
    BY <1>1 DEF BagToSet, SetToBag
  <2>. QED
    BY <1>1, <2>1 DEF Below, MemoryInv
<1>4. /\ task.adding \subseteq Schedulers
      /\ task.next \in 0..Len(task.parts) /\ Len(task.parts) <= Len(schedulers)
  <2>1. CASE task = NoTask
    BY <2>1 DEF NoTask, MemoryInv
  <2>2. CASE task # NoTask
    BY <2>2 DEF TaskInv
  <2>. QED
    BY <2>1, <2>2
<1>5. SchedulersTypeOK
  BY <1>3, <1>4 DEF SchedulersTypeOK, ObjectsInv, MemoryInv
<1>. QED
  BY <1>2, <1>5 DEF TreeInv

LEMMA InvGivesDivision == SchedulersInv => ClustersDivided
<1> SUFFICES ASSUME SchedulersInv, Quiet, faults = 0, Existing # {}
             PROVE  /\ apiClusters \subseteq UNION {apiCluster[s] : s \in Existing}
                    /\ Cardinality(apiClusters) >= Cardinality(Existing) =>
                           \A s \in Existing :
                               /\ apiCluster[s] \subseteq apiClusters
                               /\ apiUnion[s] \ strayed = {addedAttr[c] : c \in apiCluster[s]} \ strayed
                               /\ \A t \in Existing \ {s} : apiCluster[s] \cap apiCluster[t] = {}
  BY DEF ClustersDivided
<1>1. /\ NoneGone /\ Cardinality(Existing) = Len(schedulers)
      /\ \A s : s \in Existing <=> \E i \in 1..Len(schedulers) : schedulers[i] = s
  BY QuietList
<1>2. task = NoTask /\ seenClusters = apiClusters
  BY DEF Quiet
<1>3. schedulers # <<>>
  BY <1>1
<1>4. PICK m \in 1..Len(schedulers) : Divides(Given(m), apiClusters, Len(schedulers), addedAttr, strayed)
  BY <1>1, <1>2, <1>3 DEF SchedulersInv, DividedInv
<1>5. PICK n : n = Len(schedulers)
  OBVIOUS
<1>6. n \in Nat /\ m \in 1..n /\ m \in Nat
  BY <1>4, <1>5 DEF SchedulersInv, MemoryInv
<1>7. PICK given : given = Given(m)
  OBVIOUS
<1>8. Len(given) = m /\ \A k \in 1..m : /\ given[k].cluster = apiCluster[schedulers[k]]
                                        /\ given[k].union = apiUnion[schedulers[k]]
  BY <1>6, <1>7 DEF Given
<1>9. Divides(given, apiClusters, n, addedAttr, strayed)
  BY <1>4, <1>5, <1>7
<1>10. ASSUME NEW c \in apiClusters PROVE \E s \in Existing : c \in apiCluster[s]
  <2>1. PICK k \in 1..m : c \in given[k].cluster
    BY <1>8, <1>9 DEF Divides
  <2>2. schedulers[k] \in Existing
    BY <1>1, <1>5, <1>6
  <2>. QED
    BY <1>8, <2>1, <2>2
<1>11. ASSUME Cardinality(apiClusters) >= Cardinality(Existing), NEW s \in Existing
       PROVE  /\ apiCluster[s] \subseteq apiClusters
              /\ apiUnion[s] \ strayed = {addedAttr[c] : c \in apiCluster[s]} \ strayed
              /\ \A t \in Existing \ {s} : apiCluster[s] \cap apiCluster[t] = {}
  <2>1. m = n
    <3>1. Cardinality(apiClusters) \in Nat
      BY <1>2, FS_CardinalityType DEF SchedulersInv, MemoryInv
    <3>2. n <= Cardinality(apiClusters)
      BY <1>1, <1>5, <1>6, <1>11, <3>1
    <3>. QED
      BY <1>8, <1>9, <3>2 DEF Divides
  <2>2. PICK k \in 1..m : schedulers[k] = s
    BY <1>1, <1>5, <2>1
  <2>3. UNION {given[j].cluster : j \in 1..m} = apiClusters
    BY <1>8, <1>9 DEF Divides
  <2>4. given[k].cluster \subseteq apiClusters
    BY <2>3
  <2>5. given[k].union \ strayed = {addedAttr[c] : c \in given[k].cluster} \ strayed
    BY <1>8, <1>9 DEF Divides
  <2>6. ASSUME NEW t \in Existing \ {s} PROVE apiCluster[s] \cap apiCluster[t] = {}
    <3>1. PICK l \in 1..m : schedulers[l] = t
      BY <1>1, <1>5, <2>1
    <3>2. k # l
      BY <2>2, <2>6, <3>1
    <3>3. given[k].cluster \cap given[l].cluster = {}
      BY <1>8, <1>9, <3>2 DEF Divides
    <3>. QED
      BY <1>8, <2>2, <3>1, <3>3
  <2>7. given[k].cluster = apiCluster[s] /\ given[k].union = apiUnion[s]
    BY <1>8, <2>2
  <2>. QED
    BY <2>4, <2>5, <2>6, <2>7
<1>. QED
  BY <1>10, <1>11

(* QueuedSchedulersStarted holds: no scheduler is lost between addScheduler,*)
(* the balance, the queue and syncHandler, whatever is deleted meanwhile    *)
(* and wherever the controller is restarted.                                *)
THEOREM SchedulersAreStarted == SchedulersSpec => []QueuedSchedulersStarted
  BY SchedulersStart, SchedulersStep, InvGivesStarted, PTL DEF SchedulersSpec

(* TreeInv holds: AddCluster and DelCluster keep a tree that has the nodes  *)
(* on the paths of the clusters and no others, and counts each once.        *)
THEOREM TreeCountsClusters == SchedulersSpec => []TreeInv
  BY SchedulersStart, SchedulersStep, InvGivesTree, PTL DEF SchedulersSpec

(* ClustersDivided holds: the balance that ends last gives every cluster    *)
(* to a scheduler, and to one only when there are clusters for all.         *)
THEOREM ClustersAreDivided == SchedulersSpec => []ClustersDivided
  BY SchedulersStart, SchedulersStep, InvGivesDivision, PTL DEF SchedulersSpec
==============================================================================
