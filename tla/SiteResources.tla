---------------------------- MODULE SiteResources ----------------------------
(***************************************************************************)
(* Schedule: filter, score, strategy and bind over the scheduler's site    *)
(* cache, and the deduction of what it places (scheduler.go, the Flavor    *)
(* and LocationAndOperator plugins, the default binder,                    *)
(* sitecache_info.go).  The cache is one map shared by the pod worker, the *)
(* allocation informer, the cluster worker and the resource collector's    *)
(* reports; nothing locks it between the filter and the deduction.         *)
(*                                                                         *)
(* One flavor stands for a site's flavors: every stack has one resource    *)
(* with Count 1 (eventhandlers.go:240, scheduler.go:1069), so a stack      *)
(* takes one unit of it.  The filter plugins other than Flavor compare a   *)
(* request's selector with a site's fixed attributes: Eligible.            *)
(***************************************************************************)
EXTENDS Integers, Sequences, FiniteSets

CONSTANTS
    Sites,        \* site IDs (region--zone)
    Capacity,     \* Capacity[s]: TotalCapacity of the flavor in the cluster
    Requests,     \* pods and allocations assigned to this scheduler
    Pods,         \* those of them that are pods
    NoRequest,    \* no request: what an idle thread schedules
    Threads,      \* the goroutines that call Schedule
    ThreadOf,     \* ThreadOf[r]: the one that schedules r
    Replicas,     \* Replicas[r]: 1 for a pod
    VMs,          \* VMs[r]: resources of type vm in r's group, 1 for a pod
    Centralize,   \* the requests whose LocationStrategy is "centralize"
    Eligible,     \* Eligible[r]: the sites r's selector accepts
    Registered,   \* the sites known when the scheduler starts to schedule
    MaxTotal,     \* bound on what a report says a site has
    MaxReports,   \* bound on the resource collector's reports
    MaxUpdates    \* bound on cluster updates that replace a site

ASSUME ConstantsAssumption ==
    /\ Capacity \in [Sites -> Nat]
    /\ NoRequest \notin Requests
    /\ Pods \subseteq Requests
    /\ ThreadOf \in [Requests -> Threads]
    /\ Replicas \in [Requests -> Nat \ {0}]
    /\ VMs \in [Requests -> Nat \ {0}]
    /\ Centralize \subseteq Requests
    /\ Eligible \in [Requests -> SUBSET Sites]
    /\ Registered \subseteq Sites
    /\ MaxTotal \in Nat /\ MaxReports \in Nat /\ MaxUpdates \in Nat

ASSUME FinitenessAssumption == IsFiniteSet(Sites) /\ IsFiniteSet(Threads)

VARIABLES
    \* the site cache
    entry,        \* entry[s]: "absent"; "bare", with Site nil; or "ready"
    allocatable,  \* AllocatableFlavor of site s
    requested,    \* RequestedResources of site s
    total,        \* TotalResources of site s, NoTotal before a report
    \* the Schedule call each thread is in
    pc,           \* where it is
    req, vm,      \* the request and which of its VMs
    todo,         \* the sites the present step still has to look at
    fit,          \* filteredSites
    maxCount,     \* StackMaxCount of each site in the cycle's state
    sum,          \* totalCount: their sum
    left,         \* the replicas the strategy still has to give to sites
    siteCount,    \* the stacks each site is to get
    order,        \* the sites of siteCount in strategy order
    count,        \* the stacks bound so far
    \* the rest
    placed,       \* history: the stacks ever placed on site s
    phase,        \* phase[r] in the API
    dropped,      \* pods that are Assigned and no longer in the queue
    got,          \* history: the stacks placed for request r
    up,           \* FALSE once the process has panicked
    room,         \* history: the most site s was declared or reported to have
    reports, updates

siteVars == <<entry, allocatable, requested, total>>
planVars == <<maxCount, sum, left, siteCount, order, count>>
callVars == <<pc, req, vm, todo, fit, planVars>>
histVars == <<placed, got>>
apiVars == <<phase, dropped>>
envVars == <<room, reports, updates>>
vars == <<siteVars, callVars, histVars, apiVars, up, envVars>>

NoTotal == -1

Zero == [s \in Sites |-> 0]

SiteTypes == /\ entry \in [Sites -> {"absent", "bare", "ready"}]
             /\ allocatable \in [Sites -> Int]
             /\ requested \in [Sites -> Nat]
             /\ total \in [Sites -> Nat \cup {NoTotal}]

PlanTypes == /\ maxCount \in [Threads -> [Sites -> Nat]]
             /\ sum \in [Threads -> Nat]
             /\ left \in [Threads -> Int]
             /\ siteCount \in [Threads -> [Sites -> Nat]]
             /\ order \in [Threads -> Seq(Sites)]
             /\ count \in [Threads -> Nat]

CallTypes == /\ pc \in [Threads -> {"idle", "filter", "score", "strategy", "bind"}]
             /\ req \in [Threads -> Requests \cup {NoRequest}]
             /\ vm \in [Threads -> Nat]
             /\ todo \in [Threads -> SUBSET Sites]
             /\ fit \in [Threads -> SUBSET Sites]

HistTypes == placed \in [Sites -> Nat] /\ got \in [Requests -> Nat]

EnvTypes == /\ up \in BOOLEAN /\ reports \in Nat /\ updates \in Nat
            /\ room \in [Sites -> Nat]

TypeOK == /\ SiteTypes /\ PlanTypes /\ CallTypes /\ HistTypes /\ EnvTypes
          /\ phase \in [Requests -> {"Assigned", "Bound", "NotScheduled"}]
          /\ dropped \subseteq Pods

Init == /\ entry = [s \in Sites |-> IF s \in Registered THEN "ready" ELSE "absent"]
        /\ allocatable = [s \in Sites |-> IF s \in Registered THEN Capacity[s] ELSE 0]
        /\ requested = Zero
        /\ total = [s \in Sites |-> NoTotal]
        /\ pc = [t \in Threads |-> "idle"]
        /\ req = [t \in Threads |-> NoRequest]
        /\ vm = [t \in Threads |-> 0]
        /\ todo = [t \in Threads |-> {}] /\ fit = [t \in Threads |-> {}]
        /\ maxCount = [t \in Threads |-> Zero] /\ sum = [t \in Threads |-> 0]
        /\ left = [t \in Threads |-> 0]
        /\ siteCount = [t \in Threads |-> Zero] /\ order = [t \in Threads |-> <<>>]
        /\ count = [t \in Threads |-> 0]
        /\ placed = Zero
        /\ phase = [r \in Requests |-> "Assigned"] /\ dropped = {}
        /\ got = [r \in Requests |-> 0]
        /\ up = TRUE
        /\ room = Capacity /\ reports = 0 /\ updates = 0
-----------------------------------------------------------------------------
(* The calls of one thread: scheduleOne's loop, or the informer's handler. *)

\* The sites findSitesThatPassFilters looks at: all that are in the map.
Known == {s \in Sites : entry[s] # "absent"}

\* Every call of Schedule has a state of its own.
NewCycleState(t) == /\ fit' = [fit EXCEPT ![t] = {}]
                    /\ maxCount' = [maxCount EXCEPT ![t] = Zero]
                    /\ sum' = [sum EXCEPT ![t] = 0]
                    /\ left' = [left EXCEPT ![t] = 0]
                    /\ siteCount' = [siteCount EXCEPT ![t] = Zero]
                    /\ order' = [order EXCEPT ![t] = <<>>]
                    /\ count' = [count EXCEPT ![t] = 0]

\* Schedule is called for the v-th VM of request r.
Call(t, r, v) == /\ pc' = [pc EXCEPT ![t] = "filter"]
                 /\ req' = [req EXCEPT ![t] = r]
                 /\ vm' = [vm EXCEPT ![t] = v]
                 /\ todo' = [todo EXCEPT ![t] = Known]
                 /\ NewCycleState(t)

\* The thread is ready for its next request.
Idle(t) == /\ pc' = [pc EXCEPT ![t] = "idle"]
           /\ req' = [req EXCEPT ![t] = NoRequest]
           /\ vm' = [vm EXCEPT ![t] = 0]
           /\ todo' = [todo EXCEPT ![t] = {}]
           /\ NewCycleState(t)

\* The request is decided.
Return(t, p) == /\ phase' = [phase EXCEPT ![req[t]] = p]
                /\ UNCHANGED dropped
                /\ Idle(t)

\* The thread takes its next request: a pod popped from the queue, or an
\* allocation of an informer event, whose VMs are scheduled in turn.
Begin(t, r) ==
    /\ ThreadOf[r] = t
    /\ pc[t] = "idle"
    /\ phase[r] = "Assigned" /\ r \notin dropped
    /\ Call(t, r, 1)
    /\ UNCHANGED <<siteVars, histVars, apiVars, up, envVars>>

\* Mutant of Fail: the status is not written.
FailSilently(t) == Idle(t) /\ UNCHANGED apiVars

\* Schedule has failed: an allocation is NotScheduled, a pod's status says
\* so; what was deducted for it stays deducted.
Fail(t) == Return(t, "NotScheduled")

\* Schedule has returned no error: the allocation's next VM, or it is Bound.
Succeed(t) ==
    \/ /\ vm[t] < VMs[req[t]]
       /\ Call(t, req[t], vm[t] + 1)
       /\ UNCHANGED apiVars
    \/ /\ vm[t] = VMs[req[t]]
       /\ Return(t, "Bound")

\* scheduleOne binds the stacks Schedule has returned for a pod: when there
\* are none nothing is written, and the pod is not queued again.
Drop(t) == /\ dropped' = dropped \cup {req[t]}
           /\ UNCHANGED phase
           /\ Idle(t)

\* Mutant of FilterSite: the last unit of a site is not offered.
FilterSiteStrict(t, s) ==
    /\ pc[t] = "filter"
    /\ s \in todo[t]
    /\ entry[s] = "ready"
    /\ todo' = [todo EXCEPT ![t] = @ \ {s}]
    /\ fit' = [fit EXCEPT ![t] = IF s \in Eligible[req[t]] /\ allocatable[s] > 1 THEN @ \cup {s} ELSE @]
    /\ UNCHANGED <<siteVars, pc, req, vm, planVars, histVars, apiVars, up, envVars>>

\* One goroutine of the filter checks one site.  An entry without a Site
\* is dereferenced, and the panic ends the process.
FilterSite(t, s) ==
    /\ pc[t] = "filter"
    /\ s \in todo[t]
    /\ \/ /\ entry[s] = "ready"
          /\ todo' = [todo EXCEPT ![t] = @ \ {s}]
          /\ fit' = [fit EXCEPT ![t] =
                        IF s \in Eligible[req[t]] /\ allocatable[s] >= 1 THEN @ \cup {s} ELSE @]
          /\ UNCHANGED up
       \/ /\ entry[s] = "bare"
          /\ up' = FALSE
          /\ UNCHANGED <<todo, fit>>
    /\ UNCHANGED <<siteVars, pc, req, vm, planVars, histVars, apiVars, envVars>>

\* All sites are checked: with none left, Schedule returns an error.
Filtered(t) ==
    /\ pc[t] = "filter"
    /\ todo[t] = {}
    /\ \/ /\ fit[t] = {}
          /\ Fail(t)
       \/ /\ fit[t] # {}
          /\ pc' = [pc EXCEPT ![t] = "score"]
          /\ todo' = [todo EXCEPT ![t] = fit[t]]
          /\ UNCHANGED <<req, vm, fit, planVars, apiVars>>
    /\ UNCHANGED <<siteVars, histVars, up, envVars>>

\* Mutant of ScoreSite: StackMaxCount is what the cluster declares.
ScoreSiteDeclared(t, s) ==
    /\ pc[t] = "score"
    /\ s \in todo[t]
    /\ todo' = [todo EXCEPT ![t] = @ \ {s}]
    /\ maxCount' = [maxCount EXCEPT ![t][s] = Capacity[s]]
    /\ sum' = [sum EXCEPT ![t] = @ + Capacity[s]]
    /\ UNCHANGED <<siteVars, pc, req, vm, fit, left, siteCount, order, count, histVars, apiVars, up, envVars>>

\* The score of one site reads the flavor's count again and leaves it in
\* the cycle's state as StackMaxCount, none when it no longer fits.
ScoreSite(t, s) ==
    LET most == IF allocatable[s] >= 1 THEN allocatable[s] ELSE 0 IN
    /\ pc[t] = "score"
    /\ s \in todo[t]
    /\ todo' = [todo EXCEPT ![t] = @ \ {s}]
    /\ maxCount' = [maxCount EXCEPT ![t][s] = most]
    /\ sum' = [sum EXCEPT ![t] = @ + most]
    /\ UNCHANGED <<siteVars, pc, req, vm, fit, left, siteCount, order, count, histVars, apiVars, up, envVars>>

\* The strategy first compares the request with the sum.  More replicas
\* than that is Unschedulable, but Schedule returns the err of an earlier
\* call, which is nil: success, with no stacks.
Scored(t) ==
    /\ pc[t] = "score"
    /\ todo[t] = {}
    /\ \/ /\ Replicas[req[t]] > sum[t]
          /\ \/ req[t] \notin Pods /\ Succeed(t)
             \/ req[t] \in Pods /\ Drop(t)
       \/ /\ Replicas[req[t]] <= sum[t]
          /\ pc' = [pc EXCEPT ![t] = "strategy"]
          /\ todo' = [todo EXCEPT ![t] = fit[t]]
          /\ left' = [left EXCEPT ![t] = Replicas[req[t]]]
          /\ UNCHANGED <<req, vm, fit, maxCount, sum, siteCount, order, count, apiVars>>
    /\ UNCHANGED <<siteVars, histVars, up, envVars>>

Lesser(a, b) == IF a <= b THEN a ELSE b

\* The stacks a site gets: all that fit, or its rounded share of the
\* replicas, at least one: floor(count * max / total + 0.5).
StackCount(r, most, all, rest) ==
    IF r \in Centralize THEN Lesser(rest, most)
    ELSE LET share == (2 * Replicas[r] * most + all) \div (2 * all)
         IN Lesser(IF share >= 1 THEN share ELSE 1, most)

\* The strategy gives the next site by score its stacks, until the count is
\* used up; the scores of the other plugins make the order arbitrary.
PlanSite(t, s) ==
    LET n == StackCount(req[t], maxCount[t][s], sum[t], left[t]) IN
    /\ pc[t] = "strategy"
    /\ s \in todo[t]
    /\ siteCount' = [siteCount EXCEPT ![t][s] = n]
    /\ order' = [order EXCEPT ![t] = Append(@, s)]
    /\ left' = [left EXCEPT ![t] = @ - n]
    /\ todo' = [todo EXCEPT ![t] = @ \ {s}]
    /\ pc' = [pc EXCEPT ![t] = IF left[t] <= n \/ todo[t] = {s} THEN "bind" ELSE @]
    /\ UNCHANGED <<siteVars, req, vm, fit, maxCount, sum, count, histVars, apiVars, up, envVars>>

\* Mutant of Deducted: the total less what was requested before this stack.
DeductedBefore(s) ==
    IF total[s] = NoTotal THEN allocatable[s] - 1
    ELSE Lesser(allocatable[s], total[s] - requested[s])

\* What DeductSiteResInfo leaves in AllocatableFlavor of s: one less, or,
\* once a total is reported, no more than the total minus the requested,
\* this stack included.
Deducted(s) ==
    IF total[s] = NoTotal THEN allocatable[s] - 1
    ELSE Lesser(allocatable[s], total[s] - (requested[s] + 1))

\* Mutant of Deduct: the stack is assigned and nothing deducted.
DeductNothing(t, s) ==
    /\ siteCount' = [siteCount EXCEPT ![t][s] = @ - 1]
    /\ count' = [count EXCEPT ![t] = @ + 1]
    /\ placed' = [placed EXCEPT ![s] = @ + 1]
    /\ got' = [got EXCEPT ![req[t]] = @ + 1]
    /\ UNCHANGED <<siteVars, pc, req, vm, todo, fit, maxCount, sum, left, order, apiVars, up, envVars>>

\* The binder assigns one stack to site s and deducts it there.
Deduct(t, s) ==
    /\ requested' = [requested EXCEPT ![s] = @ + 1]
    /\ allocatable' = [allocatable EXCEPT ![s] = Deducted(s)]
    /\ siteCount' = [siteCount EXCEPT ![t][s] = @ - 1]
    /\ count' = [count EXCEPT ![t] = @ + 1]
    /\ placed' = [placed EXCEPT ![s] = @ + 1]
    /\ got' = [got EXCEPT ![req[t]] = @ + 1]
    /\ UNCHANGED <<entry, total, pc, req, vm, todo, fit, maxCount, sum, left, order, apiVars, up, envVars>>

\* Inside the loops over siteCount and its stacks.
InLoop(t) == pc[t] = "bind" /\ order[t] # <<>> /\ count[t] < Replicas[req[t]]

\* The next stack of the present site is bound.
Bind(t) ==
    /\ InLoop(t)
    /\ siteCount[t][Head(order[t])] > 0
    /\ Deduct(t, Head(order[t]))

\* The loop over siteCount goes on to the next site.
NextSite(t) ==
    /\ InLoop(t)
    /\ siteCount[t][Head(order[t])] = 0
    /\ order' = [order EXCEPT ![t] = Tail(@)]
    /\ UNCHANGED <<siteVars, pc, req, vm, todo, fit, maxCount, sum, left, siteCount, count,
                   histVars, apiVars, up, envVars>>

\* Mutant of Finish: fewer stacks than replicas is not an error.
FinishShort(t) ==
    /\ pc[t] = "bind"
    /\ count[t] >= Replicas[req[t]] \/ order[t] = <<>>
    /\ Succeed(t)
    /\ UNCHANGED <<siteVars, histVars, up, envVars>>

\* The loops are over: fewer stacks than replicas is an error, and the
\* stacks already bound stay deducted.
Finish(t) ==
    /\ pc[t] = "bind"
    /\ \/ /\ count[t] >= Replicas[req[t]]
          /\ Succeed(t)
       \/ /\ order[t] = <<>>
          /\ count[t] < Replicas[req[t]]
          /\ Fail(t)
    /\ UNCHANGED <<siteVars, histVars, up, envVars>>

Schedule(t) == \/ \E r \in Requests : Begin(t, r)
               \/ \E s \in Sites : FilterSite(t, s) \/ ScoreSite(t, s) \/ PlanSite(t, s)
               \/ Filtered(t) \/ Scored(t) \/ Bind(t) \/ NextSite(t) \/ Finish(t)
-----------------------------------------------------------------------------
(* The other writers of the site cache. *)

Greater(a, b) == IF a >= b THEN a ELSE b

\* The resource collector reports what site s has: any value, whatever its
\* cluster declares.  A site that is not in the map gets an empty entry.
UpdateSiteDynamicResource(s) ==
    /\ reports < MaxReports
    /\ reports' = reports + 1
    /\ \E v \in 0 .. MaxTotal : /\ total' = [total EXCEPT ![s] = v]
                              /\ room' = [room EXCEPT ![s] = Greater(@, v)]
    /\ entry' = [entry EXCEPT ![s] = IF @ = "absent" THEN "bare" ELSE @]
    /\ UNCHANGED <<allocatable, requested, callVars, histVars, apiVars, up, updates>>

\* The cluster worker handles a create or an update: a new SiteCacheInfo
\* with the declared capacity takes the place of the one in the map.
UpdateStaticSiteResourceInfo(s) ==
    /\ \/ /\ entry[s] # "ready"
          /\ UNCHANGED updates
       \/ /\ entry[s] = "ready"
          /\ updates < MaxUpdates
          /\ updates' = updates + 1
    /\ entry' = [entry EXCEPT ![s] = "ready"]
    /\ allocatable' = [allocatable EXCEPT ![s] = Capacity[s]]
    /\ requested' = [requested EXCEPT ![s] = 0]
    /\ total' = [total EXCEPT ![s] = NoTotal]
    /\ UNCHANGED <<callVars, histVars, apiVars, up, room, reports>>

\* Every request is decided or dropped, or the process is gone.
Done == /\ ~up \/ \A r \in Requests : phase[r] # "Assigned" \/ r \in dropped
        /\ UNCHANGED vars

Next == \/ /\ up
           /\ \/ \E t \in Threads : Schedule(t)
              \/ \E s \in Sites : UpdateSiteDynamicResource(s) \/ UpdateStaticSiteResourceInfo(s)
        \/ Done

Spec == Init /\ [][Next]_vars

\* The goroutines run on: each takes its next step while it has one.
FairSpec == Spec /\ \A t \in Threads : WF_vars(up /\ Schedule(t))
-----------------------------------------------------------------------------
(* Properties. *)

\* What a site offers and what was placed on it stay within the most it was
\* ever said to have, declared by its cluster or reported by the collector,
\* through every deduction and report, as long as no update replaces the
\* entry (DeductSiteResInfo, UpdateSiteDynamicResource).  Not within the
\* capacity: a report above it hides placements until it is used up.
CapacityAccounted == \A s \in Sites : entry[s] = "ready" => allocatable[s] + placed[s] <= room[s]

\* No more stacks are placed on a site than it was ever said to have, although
\* Schedule filters, scores and plans first and deducts much later
\* (scheduler.go:513-618).  For a single scheduling thread and no update.
NoOvercommit == \A s \in Sites : placed[s] <= room[s]

\* Threads that schedule at the same time can fill a site more than once: each
\* binds what its own plan found free.  But each does so only once: what was
\* bound is deducted before its next plan is made.  A site gets at most what
\* it was ever said to have from each of them, and again after each update of
\* its cluster, which forgets the deductions (scheduler.go:513-618, 879-884).
OvercommitBounded ==
    \A s \in Sites : placed[s] <= Cardinality(Threads) * (1 + updates) * room[s]

\* Binding is all or nothing for a VM: a request that is Bound has, for
\* every VM, either all its replicas or none (scheduler.go:588-616).
WholeReplicas == \A r \in Requests : phase[r] = "Bound" => got[r] % Replicas[r] = 0

\* A centralized request is refused only when every site it may go to is
\* full, the sites added meanwhile left aside: nothing but an empty filter
\* result makes its Schedule fail (scheduler.go:547-552,
\* locationandoperator.go:134-154).  The rounded shares of a discrete one
\* can add up to less than its replicas (locationandoperator.go:163): it is
\* refused although there is room.
RefusedOnlyWhenFull ==
    [][\A r \in Centralize : phase[r] = "Assigned" /\ phase'[r] = "NotScheduled" =>
          \A s \in Eligible[r] \cap Registered : allocatable[s] < 1]_vars

\* Every pod and allocation is decided, whatever it competes with, unless the
\* process panics, on a site that was reported before its cluster was handled
\* (scheduler.go:914), or the request is a pod whose sites another thread has
\* filled between its filter and its strategy: the error of the strategy is
\* lost (scheduler.go:580-582) and the pod dropped.
EveryRequestDecided == \A r \in Requests : <>(phase[r] # "Assigned" \/ r \in dropped \/ ~up)

\* One thread that schedules implements the ledger: what a site has left is
\* what it was said to have less what was placed on it.
Ledger == INSTANCE CapacityLedger WITH free <- [s \in Sites |-> room[s] - placed[s]]

\* Placements and decisions are those of the ledger: nothing is placed on a
\* full site, a site's room only grows, and no request is decided twice.
LedgerSpec == Ledger!Spec
=============================================================================
