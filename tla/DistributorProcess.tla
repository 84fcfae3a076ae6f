------------------------- MODULE DistributorProcess -------------------------
(***************************************************************************)
(* How a distributor process finds a scheduler for a pod or an allocation  *)
(* (controllers/distributor/distributor_process.go): its scheduler         *)
(* informer keeps p.schedulers, a slice of copies of the Scheduler         *)
(* objects; ScheduleOne and ScheduleAllocation choose among the ones whose *)
(* Union has a geolocation the request's selector accepts.  The informers  *)
(* start together, so requests may be notified before any scheduler is.    *)
(*                                                                         *)
(* The informer goroutine changes the slice while the goroutines of the    *)
(* requests read it; each access is one step here.                         *)
(***************************************************************************)
EXTENDS Integers, Sequences

CONSTANTS Requests,     \* the Pending pods and the new allocations
          Schedulers,   \* names of Scheduler objects
          None,         \* no scheduler
          Fields,       \* Country, Area, Province, City
          Places,       \* geolocations: functions on Fields
          Selector,     \* Selector[r]: the request's, "" where it does not care
          MaxChange,    \* bound: creations and updates of Scheduler objects
          MaxDelete,    \* bound: deletions of Scheduler objects
          MaxExec       \* bound: restarts of the process

ASSUME ConstantsAssumption ==
    /\ None \notin Schedulers
    /\ MaxChange \in Nat /\ MaxDelete \in Nat /\ MaxExec \in Nat

Unions == SUBSET Places     \* Spec.Union.GeoLocation

Absent == [exists |-> FALSE, union |-> {}]
Objects == [exists : {TRUE}, union : Unions] \cup {Absent}

VARIABLES
    object,      \* the Scheduler objects in the API server
    informed,    \* what the scheduler informer has reported of them
    schedulers,  \* p.schedulers
    step,        \* of the goroutine of each request
    target,      \* the scheduler it has found
    changes, deletes, execs

vars == <<object, informed, schedulers, step, target, changes, deletes, execs>>

TypeOK ==
    /\ object \in [Schedulers -> Objects] /\ informed \in [Schedulers -> Objects]
    /\ schedulers \in Seq([name : Schedulers, union : Unions])
    /\ step \in [Requests -> {"waiting", "assign", "gaveUp", "assigned"}]
    /\ target \in [Requests -> Schedulers \cup {None}]
    /\ changes \in 0..MaxChange /\ deletes \in 0..MaxDelete
    /\ execs \in 0..MaxExec

Init ==
    /\ object = [s \in Schedulers |-> Absent]
    /\ informed = [s \in Schedulers |-> Absent]
    /\ schedulers = <<>>
    /\ step = [r \in Requests |-> "waiting"]
    /\ target = [r \in Requests |-> None]
    /\ changes = 0 /\ deletes = 0 /\ execs = 0
-----------------------------------------------------------------------------
(* The Scheduler objects (external): the scheduler controller writes the   *)
(* Union of a scheduler when it balances the clusters.                     *)

WriteScheduler(s, u) ==
    /\ changes < MaxChange /\ changes' = changes + 1
    /\ object[s] # [exists |-> TRUE, union |-> u]
    /\ object' = [object EXCEPT ![s] = [exists |-> TRUE, union |-> u]]
    /\ UNCHANGED <<informed, schedulers, step, target, deletes, execs>>

DeleteScheduler(s) ==
    /\ deletes < MaxDelete /\ deletes' = deletes + 1
    /\ object[s].exists
    /\ object' = [object EXCEPT ![s] = Absent]
    /\ UNCHANGED <<informed, schedulers, step, target, changes, execs>>
-----------------------------------------------------------------------------
(* The scheduler informer's handlers.                                      *)

Entry(s) == [name |-> s, union |-> object[s].union]

Reported(s) == informed' = [informed EXCEPT ![s] = object[s]]

AddFunc(s) ==
    /\ object[s].exists /\ ~informed[s].exists
    /\ Reported(s)
    /\ schedulers' = Append(schedulers, Entry(s))
    /\ UNCHANGED <<object, step, target, changes, deletes, execs>>

\* Mutant of UpdateFunc: the last entry is replaced.
UpdateFuncLast(s) ==
    /\ object[s].exists /\ informed[s].exists /\ object[s] # informed[s]
    /\ Reported(s)
    /\ schedulers' = [schedulers EXCEPT ![Len(schedulers)] = Entry(s)]
    /\ UNCHANGED <<object, step, target, changes, deletes, execs>>

\* The first entry with the name is replaced.
UpdateFunc(s) ==
    /\ object[s].exists /\ informed[s].exists /\ object[s] # informed[s]
    /\ Reported(s)
    /\ schedulers' = [i \in DOMAIN schedulers |->
           IF /\ schedulers[i].name = s
              /\ \A j \in 1..(i - 1) : schedulers[j].name # s
           THEN Entry(s) ELSE schedulers[i]]
    /\ UNCHANGED <<object, step, target, changes, deletes, execs>>

\* reflect.DeepEqual compares an entry, a Scheduler, with the deleted object,
\* a *Scheduler: they have different types and are never equal, so no entry
\* is removed.
DeleteFunc(s) ==
    /\ ~object[s].exists /\ informed[s].exists
    /\ Reported(s)
    /\ UNCHANGED <<object, schedulers, step, target, changes, deletes, execs>>
-----------------------------------------------------------------------------
(* Finding a scheduler.                                                    *)

\* matchGeoLocation, isAllocationGeoLocationMatched
matchGeoLocation(place, sel) ==
    \A f \in Fields : sel[f] # "" => place[f] = sel[f]

\* GeoLocationPredicate: a scheduler with an empty Union fits no request, not
\* even one without a selector.
GeoLocationPredicate(union, r) ==
    \E place \in union : matchGeoLocation(place, Selector[r])

\* Mutant of runPredicates: only the first scheduler is tried.
runPredicatesFirst(r) ==
    {schedulers[i].name : i \in
        {k \in DOMAIN schedulers \cap {1} : GeoLocationPredicate(schedulers[k].union, r)}}

runPredicates(r) ==
    {schedulers[i].name : i \in
        {k \in DOMAIN schedulers : GeoLocationPredicate(schedulers[k].union, r)}}

\* ScheduleOne and ScheduleAllocation: findFit, findScheduler choose at random.
Choose(r, s) ==
    /\ step[r] = "waiting" /\ s \in runPredicates(r)
    /\ step' = [step EXCEPT ![r] = "assign"]
    /\ target' = [target EXCEPT ![r] = s]
    /\ UNCHANGED <<object, informed, schedulers, changes, deletes, execs>>

\* No scheduler fits: the handler returns, and nothing calls it again.
GiveUp(r) ==
    /\ step[r] = "waiting" /\ runPredicates(r) = {}
    /\ step' = [step EXCEPT ![r] = "gaveUp"]
    /\ UNCHANGED <<object, informed, schedulers, target, changes, deletes, execs>>

\* bindPod, or the Update of the allocation (PodPipeline and
\* AllocationPipeline have their failures).
Assign(r) ==
    /\ step[r] = "assign"
    /\ step' = [step EXCEPT ![r] = "assigned"]
    /\ UNCHANGED <<object, informed, schedulers, target, changes, deletes, execs>>

\* A new range: syscall.Exec.  The requests that are not assigned, and the
\* schedulers, are listed again.
Exec ==
    /\ execs < MaxExec /\ execs' = execs + 1
    /\ informed' = [s \in Schedulers |-> Absent]
    /\ schedulers' = <<>>
    /\ step' = [r \in Requests |->
                   IF step[r] = "assigned" THEN "assigned" ELSE "waiting"]
    /\ target' = [r \in Requests |->
                   IF step[r] = "assigned" THEN target[r] ELSE None]
    /\ UNCHANGED <<object, changes, deletes>>

Informer(s) == AddFunc(s) \/ UpdateFunc(s) \/ DeleteFunc(s)

Handler(r) ==
    (\E s \in Schedulers : Choose(r, s)) \/ GiveUp(r) \/ Assign(r)

Next ==
    \/ \E s \in Schedulers : \E u \in Unions : WriteScheduler(s, u)
    \/ \E s \in Schedulers : DeleteScheduler(s) \/ Informer(s)
    \/ \E r \in Requests : Handler(r)
    \/ Exec

Spec == Init /\ [][Next]_vars

-----------------------------------------------------------------------------
(* Properties.                                                             *)

\* As long as no scheduler was deleted, the list has one entry for each
\* scheduler the informer has reported, as it was reported last: an update
\* reaches the entry that the predicates read.
ListCurrent ==
    deletes = 0 =>
        /\ \A i, j \in DOMAIN schedulers :
               schedulers[i].name = schedulers[j].name => i = j
        /\ \A s \in Schedulers : informed[s].exists <=>
               \E i \in DOMAIN schedulers : schedulers[i] =
                   [name |-> s, union |-> informed[s].union]

\* The list that the handlers of the informer keep for the predicates.
ListInv == TypeOK /\ ListCurrent

\* A handler decides by what the informer has reported.  As long as no scheduler
\* was deleted, a request goes to one whose Union, as last reported, the
\* selector accepts.  And it is given up for good only when none of those
\* reported accepts it: nothing calls the handler again, so it must not
\* overlook one it could use (ScheduleOne, ScheduleAllocation).
RightChoice ==
    [][\A r \in Requests : step[r] = "waiting" =>
           /\ step'[r] = "assign" /\ deletes = 0 =>
                  GeoLocationPredicate(informed[target'[r]].union, r)
           /\ step'[r] = "gaveUp" =>
                  \A s \in Schedulers : ~GeoLocationPredicate(informed[s].union, r)]_vars
=============================================================================
