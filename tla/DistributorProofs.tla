-------------------------- MODULE DistributorProofs --------------------------
(***************************************************************************)
(* Proofs about the distributors, for any set of them, of requests,        *)
(* schedulers and geolocations and any number of changes.                  *)
(*                                                                         *)
(* First the scheduler list of a distributor process.  Then the            *)
(* controller: the division of the hash keys and the processes it starts.  *)
(* What EvenlyDivide returns is proved in EvenlyDivideProofs; Division     *)
(* makes its theorems available here.                                      *)
(***************************************************************************)
EXTENDS DistributorController, DistributorProcess, FiniteSetTheorems,
        WellFoundedInduction, SequenceTheorems, TLAPS

(* The entry of a scheduler as the informer has reported it last.          *)
Listed(s) ==
    \E i \in DOMAIN schedulers :
        schedulers[i] = [name |-> s, union |-> informed[s].union]

(* ListCurrent is kept by the handlers because, without deletions, what is *)
(* listed exists and is reported; a deleted scheduler's entry stays, and   *)
(* even then what is reported is listed.                                   *)
UniqueNames ==
    \A i, j \in DOMAIN schedulers :
        schedulers[i].name = schedulers[j].name => i = j

NothingStale ==
    /\ \A s \in Schedulers : informed[s].exists => object[s].exists
    /\ \A i \in DOMAIN schedulers :
           /\ informed[schedulers[i].name].exists
           /\ informed[schedulers[i].name].union = schedulers[i].union

ReportedListed == \A s \in Schedulers : informed[s].exists => Listed(s)

ListStrong ==
    /\ TypeOK
    /\ deletes = 0 => UniqueNames /\ NothingStale
    /\ ReportedListed

(* The list that has an entry of s has a first one.                        *)
LEMMA FirstEntry ==
    ASSUME TypeOK, NEW s, NEW i \in DOMAIN schedulers, schedulers[i].name = s
    PROVE  \E k \in DOMAIN schedulers :
               /\ schedulers[k].name = s
               /\ \A j \in 1..(k - 1) : schedulers[j].name # s
<1> DEFINE Named == {k \in DOMAIN schedulers : schedulers[k].name = s}
<1>1. DOMAIN schedulers = 1..Len(schedulers) /\ Len(schedulers) \in Nat
  BY DEF TypeOK
<1>2. Named \subseteq Nat /\ Named # {}
  BY <1>1
<1>3. PICK k \in Named : \A j \in Named : ~(<<j, k>> \in OpToRel(<, Nat))
  BY <1>2, NatLessThanWellFounded, WFMin
<1>4. \A j \in Named : ~(j < k)
  BY <1>2, <1>3 DEF OpToRel
<1>. QED
  BY <1>1, <1>4

(* A Scheduler object that does not exist has no Union.                    *)
LEMMA ObjectShape ==
    ASSUME NEW o \in Objects
    PROVE  o.union \in Unions /\ (~o.exists => o.union = {})
<1>1. CASE o = Absent
  BY <1>1 DEF Absent, Unions
<1>2. CASE o \in [exists : {TRUE}, union : Unions]
  BY <1>2
<1>. QED
  BY <1>1, <1>2 DEF Objects

(* What the process has when it starts, again after each syscall.Exec.     *)
LEMMA ListInit == Init => ListStrong
<1> SUFFICES ASSUME Init PROVE ListStrong
  OBVIOUS
<1>1. /\ informed = [s \in Schedulers |-> Absent]
      /\ schedulers = <<>> /\ Absent.exists = FALSE /\ Absent \in Objects
  BY DEF Init, Absent, Objects
<1>2. object \in [Schedulers -> Objects] /\ informed \in [Schedulers -> Objects]
  BY <1>1 DEF Init
<1>3. TypeOK
  BY <1>1, <1>2, ConstantsAssumption DEF Init, TypeOK
<1>. QED
  BY <1>1, <1>3 DEF ListStrong, UniqueNames, NothingStale, ReportedListed

(* An update of the list keeps its length and changes one entry at most.   *)
LEMMA UpdateFuncList ==
    ASSUME TypeOK, NEW s \in Schedulers, UpdateFunc(s)
    PROVE  /\ DOMAIN schedulers' = DOMAIN schedulers
           /\ schedulers' \in Seq([name : Schedulers, union : Unions])
           /\ \A i \in DOMAIN schedulers :
                 \/ schedulers'[i] = schedulers[i]
                 \/ schedulers[i].name = s /\ schedulers'[i] = Entry(s)
           /\ \A i \in DOMAIN schedulers :
                 /\ schedulers[i].name = s
                 /\ \A j \in 1..(i - 1) : schedulers[j].name # s
                 => schedulers'[i] = Entry(s)
<1> DEFINE E == [name : Schedulers, union : Unions]
<1>0. object[s].union \in Unions
  BY ObjectShape DEF TypeOK
<1>1. Entry(s) \in E
  BY <1>0 DEF Entry
<1>2. /\ schedulers \in Seq(E) /\ DOMAIN schedulers = 1..Len(schedulers)
      /\ Len(schedulers) \in Nat
  BY DEF TypeOK
<1>3. schedulers' = [i \in DOMAIN schedulers |->
           IF /\ schedulers[i].name = s
              /\ \A j \in 1..(i - 1) : schedulers[j].name # s
           THEN Entry(s) ELSE schedulers[i]]
  BY DEF UpdateFunc
<1>4. \A i \in DOMAIN schedulers : schedulers'[i] \in E
  BY <1>1, <1>2, <1>3, ElementOfSeq
<1>5. schedulers' \in [1..Len(schedulers) -> E]
  BY <1>2, <1>3, <1>4
<1>6. schedulers' \in Seq(E)
  BY <1>2, <1>5
<1>. QED
  BY <1>3, <1>6

(* Every step keeps the fields in their types.                             *)
LEMMA TypeStep ==
    ASSUME TypeOK, [Next]_vars
    PROVE  TypeOK'
<1> USE ConstantsAssumption DEF TypeOK
<1>1. ASSUME NEW s \in Schedulers, NEW u \in Unions, WriteScheduler(s, u)
      PROVE  TypeOK'
  <2>1. [exists |-> TRUE, union |-> u] \in Objects
    BY DEF Objects
  <2>. QED
    BY <1>1, <2>1 DEF WriteScheduler
<1>2. ASSUME NEW s \in Schedulers, DeleteScheduler(s)
      PROVE  TypeOK'
  <2>1. Absent \in Objects
    BY DEF Objects
  <2>. QED
    BY <1>2, <2>1 DEF DeleteScheduler
<1>3. ASSUME NEW s \in Schedulers, AddFunc(s)
      PROVE  TypeOK'
  <2>1. object[s] \in Objects /\ object[s].union \in Unions
    BY ObjectShape
  <2>2. Entry(s) \in [name : Schedulers, union : Unions]
    BY <2>1 DEF Entry
  <2>. QED
    BY <1>3, <2>1, <2>2 DEF AddFunc, Reported
<1>4. ASSUME NEW s \in Schedulers, UpdateFunc(s)
      PROVE  TypeOK'
  BY <1>4, UpdateFuncList DEF UpdateFunc, Reported
<1>5. ASSUME NEW s \in Schedulers, DeleteFunc(s)
      PROVE  TypeOK'
  BY <1>5 DEF DeleteFunc, Reported
<1>6. ASSUME NEW r \in Requests, NEW s \in Schedulers, Choose(r, s)
      PROVE  TypeOK'
  BY <1>6 DEF Choose
<1>7. ASSUME NEW r \in Requests, GiveUp(r) \/ Assign(r)
      PROVE  TypeOK'
  BY <1>7 DEF GiveUp, Assign
<1>8. CASE Exec
  <2>1. [s \in Schedulers |-> Absent] \in [Schedulers -> Objects]
    BY DEF Objects
  <2>2. step' \in [Requests -> {"waiting", "assign", "gaveUp", "assigned"}]
    BY <1>8 DEF Exec
  <2>3. target' \in [Requests -> Schedulers \cup {None}]
    BY <1>8 DEF Exec
  <2>. QED
    BY <1>8, <2>1, <2>2, <2>3 DEF Exec
<1>9. CASE UNCHANGED vars
  BY <1>9 DEF vars
<1>. QED
  BY <1>1, <1>2, <1>3, <1>4, <1>5, <1>6, <1>7, <1>8, <1>9
     DEF Next, Informer, Handler

(* A step that leaves the list and the reports alone, and deletes nothing  *)
(* that is reported, changes nothing here.                                 *)
LEMMA ListUntouched ==
    ASSUME ListStrong, UNCHANGED <<informed, schedulers>>, deletes' \in Nat,
           \/ deletes' # 0
           \/ deletes' = deletes
              /\ \A s \in Schedulers : object[s].exists => object'[s].exists
    PROVE  /\ deletes' = 0 => UniqueNames' /\ NothingStale'
           /\ ReportedListed'
  BY DEF ListStrong, UniqueNames, NothingStale, ReportedListed, Listed

(* ListStrong is inductive.                                                *)
LEMMA ListStep ==
    ASSUME ListStrong, [Next]_vars
    PROVE  ListStrong'
<1> DEFINE Goal == /\ deletes' = 0 => UniqueNames' /\ NothingStale'
                   /\ ReportedListed'
<1>0. TypeOK /\ TypeOK'
  BY TypeStep DEF ListStrong
<1>t. /\ DOMAIN schedulers = 1..Len(schedulers) /\ Len(schedulers) \in Nat
      /\ \A i \in DOMAIN schedulers : schedulers[i].name \in Schedulers
      /\ informed \in [Schedulers -> Objects] /\ object \in [Schedulers -> Objects]
      /\ deletes \in Nat /\ deletes' \in Nat
  <2>1. \A i \in DOMAIN schedulers :
            schedulers[i] \in [name : Schedulers, union : Unions]
    <3> DEFINE E == [name : Schedulers, union : Unions]
    <3>1. schedulers \in Seq(E)
      BY <1>0 DEF TypeOK
    <3> HIDE DEF E
    <3>2. \A i \in DOMAIN schedulers : schedulers[i] \in E
      BY <3>1, ElementOfSeq
    <3>. QED
      BY <3>2 DEF E
  <2>2. deletes \in Nat /\ deletes' \in Nat
    BY <1>0, ConstantsAssumption DEF TypeOK
  <2>. QED
    BY <1>0, <2>1, <2>2 DEF TypeOK
<1>i. /\ deletes = 0 => UniqueNames /\ NothingStale
      /\ ReportedListed
  BY DEF ListStrong
<1>1. ASSUME NEW s \in Schedulers, NEW u \in Unions, WriteScheduler(s, u)
      PROVE  Goal
  BY <1>1, <1>t, ListUntouched DEF WriteScheduler
<1>2. ASSUME NEW s \in Schedulers, DeleteScheduler(s)
      PROVE  Goal
  BY <1>2, <1>t, ListUntouched DEF DeleteScheduler
<1>3. ASSUME NEW s \in Schedulers, AddFunc(s)
      PROVE  Goal
  <2>1. /\ object[s].exists /\ ~informed[s].exists
        /\ informed' = [informed EXCEPT ![s] = object[s]]
        /\ UNCHANGED <<object, deletes>>
    BY <1>3 DEF AddFunc, Reported
  <2>2. /\ DOMAIN schedulers' = 1..(Len(schedulers) + 1)
        /\ \A i \in DOMAIN schedulers : schedulers'[i] = schedulers[i]
        /\ schedulers'[Len(schedulers) + 1] = Entry(s)
    BY <1>3, <1>0 DEF AddFunc, TypeOK
  <2>3. Entry(s).name = s /\ Entry(s).union = object[s].union
    BY DEF Entry
  <2>4. ASSUME deletes = 0 PROVE UniqueNames'
    <3>1. \A i \in DOMAIN schedulers : schedulers[i].name # s
      BY <1>i, <1>t, <2>1, <2>4 DEF NothingStale
    <3>. QED
      BY <1>i, <1>t, <2>2, <2>3, <2>4, <3>1 DEF UniqueNames
  <2>5. ASSUME deletes = 0 PROVE NothingStale'
    BY <1>i, <1>t, <2>1, <2>2, <2>3, <2>5 DEF NothingStale
  <2>6. ReportedListed'
    BY <1>i, <1>t, <2>1, <2>2, <2>3 DEF ReportedListed, Listed, Entry
  <2>. QED
    BY <2>1, <2>4, <2>5, <2>6
<1>4. ASSUME NEW s \in Schedulers, UpdateFunc(s)
      PROVE  Goal
  <2>1. /\ object[s].exists /\ informed[s].exists
        /\ informed' = [informed EXCEPT ![s] = object[s]]
        /\ UNCHANGED <<object, deletes>>
    BY <1>4 DEF UpdateFunc, Reported
  <2>2. /\ DOMAIN schedulers' = DOMAIN schedulers
        /\ \A i \in DOMAIN schedulers :
              \/ schedulers'[i] = schedulers[i]
              \/ schedulers[i].name = s /\ schedulers'[i] = Entry(s)
        /\ \A i \in DOMAIN schedulers :
              /\ schedulers[i].name = s
              /\ \A j \in 1..(i - 1) : schedulers[j].name # s
              => schedulers'[i] = Entry(s)
    BY <1>0, <1>4, UpdateFuncList
  <2>3. Entry(s).name = s /\ Entry(s).union = object[s].union
    BY DEF Entry
  <2>4. PICK k \in DOMAIN schedulers : schedulers'[k] = Entry(s) /\ schedulers[k].name = s
    <3>1. PICK i \in DOMAIN schedulers : schedulers[i].name = s
      BY <1>i, <2>1 DEF ReportedListed, Listed
    <3>. QED
      BY <1>0, <2>2, <3>1, FirstEntry
  <2>5. ASSUME deletes = 0 PROVE UniqueNames'
    BY <1>i, <1>t, <2>2, <2>3, <2>5 DEF UniqueNames
  <2>6. ASSUME deletes = 0 PROVE NothingStale'
    <3>1. ASSUME NEW i \in DOMAIN schedulers, schedulers[i].name = s PROVE i = k
      BY <1>i, <2>4, <2>6, <3>1 DEF UniqueNames
    <3>2. ASSUME NEW i \in DOMAIN schedulers
          PROVE  /\ informed'[schedulers'[i].name].exists
                 /\ informed'[schedulers'[i].name].union = schedulers'[i].union
      <4>1. CASE i = k
        BY <1>t, <2>1, <2>3, <2>4, <4>1
      <4>2. CASE i # k
        BY <1>i, <1>t, <2>1, <2>2, <2>6, <3>1, <4>2 DEF NothingStale
      <4>. QED
        BY <4>1, <4>2
    <3>. QED
      BY <1>i, <1>t, <2>1, <2>2, <2>6, <3>2 DEF NothingStale
  <2>7. ReportedListed'
    <3> SUFFICES ASSUME NEW t \in Schedulers, informed'[t].exists
                 PROVE  \E i \in DOMAIN schedulers' :
                            schedulers'[i] = [name |-> t, union |-> informed'[t].union]
      BY DEF ReportedListed, Listed
    <3>1. CASE t = s
      BY <1>t, <2>1, <2>2, <2>4, <3>1 DEF Entry
    <3>2. CASE t # s
      <4>1. PICK i \in DOMAIN schedulers :
                schedulers[i] = [name |-> t, union |-> informed[t].union]
        BY <1>i, <1>t, <2>1, <3>2 DEF ReportedListed, Listed
      <4>. QED
        BY <1>t, <2>1, <2>2, <3>2, <4>1
    <3>. QED
      BY <3>1, <3>2
  <2>. QED
    BY <2>1, <2>5, <2>6, <2>7
<1>5. ASSUME NEW s \in Schedulers, DeleteFunc(s)
      PROVE  Goal
  <2>1. /\ ~object[s].exists /\ informed[s].exists
        /\ informed' = [informed EXCEPT ![s] = object[s]]
        /\ UNCHANGED <<object, deletes, schedulers>>
    BY <1>5 DEF DeleteFunc, Reported
  <2>2. deletes # 0
    BY <1>i, <2>1 DEF NothingStale
  <2>. QED
    BY <1>i, <1>t, <2>1, <2>2 DEF ReportedListed, Listed
<1>6. ASSUME NEW r \in Requests, Handler(r)
      PROVE  Goal
  BY <1>6, <1>t, ListUntouched DEF Handler, Choose, GiveUp, Assign
<1>7. ASSUME Exec PROVE Goal
  <2>1. /\ informed' = [s \in Schedulers |-> Absent]
        /\ schedulers' = <<>> /\ Absent.exists = FALSE
    BY <1>7 DEF Exec, Absent
  <2>. QED
    BY <2>1 DEF UniqueNames, NothingStale, ReportedListed
<1>8. ASSUME UNCHANGED vars PROVE Goal
  BY <1>8, <1>t, ListUntouched DEF vars
<1>9. Goal
  BY <1>1, <1>2, <1>3, <1>4, <1>5, <1>6, <1>7, <1>8 DEF Next, Informer
<1>. QED
  BY <1>0, <1>9 DEF ListStrong

(* The invariant holds.                                                    *)
LEMMA ListInvariance == Spec => []ListStrong
<1>1. ListStrong /\ [Next]_vars => ListStrong'
  BY ListStep
<1>. QED
  BY <1>1, ListInit, PTL DEF Spec

(* The handlers of the scheduler informer keep, as long as no scheduler is *)
(* deleted, one entry for each scheduler reported, as reported last.       *)
THEOREM ListIsCurrent == Spec => []ListInv
<1>1. ListStrong => ListInv
  <2> SUFFICES ASSUME ListStrong PROVE ListInv
    OBVIOUS
  <2>1. TypeOK /\ ReportedListed /\ (deletes = 0 => UniqueNames /\ NothingStale)
    BY DEF ListStrong
  <2>2. ASSUME deletes = 0, NEW s \in Schedulers
        PROVE  informed[s].exists <=> Listed(s)
    <3>1. informed[s].exists => Listed(s)
      BY <2>1 DEF ReportedListed
    <3>2. ASSUME Listed(s) PROVE informed[s].exists
      <4>1. PICK i \in DOMAIN schedulers : schedulers[i].name = s
        BY <3>2 DEF Listed
      <4>. QED
        BY <2>1, <2>2, <4>1 DEF NothingStale
    <3>. QED
      BY <2>1, <3>1, <3>2 DEF TypeOK, Objects, Absent
  <2>. QED
    BY <2>1, <2>2 DEF ListInv, ListCurrent, UniqueNames, Listed
<1>. QED
  BY <1>1, ListInvariance, PTL

(* A handler decides by what the informer reported: without deletions the  *)
(* scheduler chosen accepts the request, and a request is given up only    *)
(* when no reported scheduler accepts it, deletions or not.                *)
THEOREM HandlersChooseRight == Spec => RightChoice
<1> DEFINE Right == \A r \in Requests : step[r] = "waiting" =>
           /\ step'[r] = "assign" /\ deletes = 0 =>
                  GeoLocationPredicate(informed[target'[r]].union, r)
           /\ step'[r] = "gaveUp" =>
                  \A s \in Schedulers : ~GeoLocationPredicate(informed[s].union, r)
<1>1. ListStrong /\ [Next]_vars => [Right]_vars
  <2> SUFFICES ASSUME ListStrong, Next, NEW r \in Requests, step[r] = "waiting"
               PROVE  /\ step'[r] = "assign" /\ deletes = 0 =>
                            GeoLocationPredicate(informed[target'[r]].union, r)
                      /\ step'[r] = "gaveUp" => \A s \in Schedulers :
                            ~GeoLocationPredicate(informed[s].union, r)
    BY DEF vars
  <2>0. /\ TypeOK /\ ReportedListed /\ (deletes = 0 => NothingStale)
        /\ step \in [Requests -> {"waiting", "assign", "gaveUp", "assigned"}]
        /\ target \in [Requests -> Schedulers \cup {None}]
        /\ informed \in [Schedulers -> Objects]
    BY DEF ListStrong, TypeOK
  <2>1. ASSUME NEW q \in Requests, NEW s \in Schedulers, Choose(q, s)
        PROVE  /\ step'[r] # "gaveUp"
               /\ step'[r] = "assign" => r = q /\ target'[r] = s
    BY <2>0, <2>1 DEF Choose
  <2>2. ASSUME NEW q \in Requests, GiveUp(q)
        PROVE  step'[r] # "assign" /\ (step'[r] = "gaveUp" => r = q)
    BY <2>0, <2>2 DEF GiveUp
  <2>3. ASSUME NEW q \in Requests, Assign(q)
        PROVE  step'[r] = "waiting"
    BY <2>0, <2>3 DEF Assign
  <2>4. ASSUME Exec PROVE step'[r] = "waiting"
    BY <2>0, <2>4 DEF Exec
  <2>5. ASSUME NEW s \in Schedulers, Choose(r, s), deletes = 0
        PROVE  GeoLocationPredicate(informed[s].union, r)
    <3>1. PICK k \in DOMAIN schedulers :
              /\ schedulers[k].name = s
              /\ GeoLocationPredicate(schedulers[k].union, r)
      BY <2>5 DEF Choose, runPredicates
    <3>2. informed[s].union = schedulers[k].union
      BY <2>0, <2>5, <3>1 DEF NothingStale
    <3>. QED
      BY <3>1, <3>2
  <2>6. ASSUME GiveUp(r), NEW s \in Schedulers
        PROVE  ~GeoLocationPredicate(informed[s].union, r)
    <3>1. CASE informed[s].exists
      <4>1. PICK i \in DOMAIN schedulers :
                schedulers[i] = [name |-> s, union |-> informed[s].union]
        BY <2>0, <3>1 DEF ReportedListed, Listed
      <4>2. schedulers[i].union = informed[s].union
        BY <4>1
      <4>3. ~GeoLocationPredicate(schedulers[i].union, r)
        BY <2>6, <4>1 DEF GiveUp, runPredicates
      <4>. QED
        BY <4>2, <4>3
    <3>2. CASE ~informed[s].exists
      <4>1. informed[s].union = {}
        BY <2>0, <3>2, ObjectShape
      <4>. QED
        BY <4>1 DEF GeoLocationPredicate
    <3>. QED
      BY <3>1, <3>2
  <2>7. ASSUME UNCHANGED step PROVE step'[r] = "waiting"
    BY <2>7
  <2>. QED
    BY <2>1, <2>2, <2>3, <2>4, <2>5, <2>6, <2>7
       DEF Next, WriteScheduler, DeleteScheduler, Informer, AddFunc, UpdateFunc,
           DeleteFunc, Handler
<1>. QED
  BY <1>1, ListInvariance, PTL DEF Spec, RightChoice
-----------------------------------------------------------------------------
Division == INSTANCE EvenlyDivideProofs
    WITH MaxInt <- 0, size <- 0, upper <- 0, i <- 0, start <- 0, res <- <<>>, pc <- ""
-----------------------------------------------------------------------------
(* The distributor controller.  The inductive invariant has five parts.    *)

Added(d) == [name |-> d, type |-> "add"] \in ToSet(notes)

Busy(t) == thread[t].step \in {"set", "update"}

(* A rebalance that has listed a version which is not the current one will *)
(* fail; two that have still to write the same version cannot both succeed.*)
Pointers(t) == ToSet(thread[t].list)
Doomed(t) == \E p \in Pointers(t) : ~IsCurrent(p)
Shared == Pointers("worker") \cap Pointers("listener") # {}

ThreadType ==
    [step : {"idle", "list", "set", "update", "start"},
     key : Distributors \cup {"none"}, list : Seq(Distributors \X Nat),
     ranges : Seq(Ranges), value : SUBSET Ranges]

(* The threads and their queues: only the worker has a key, which is then  *)
(* not in the queue, and the listener keeps the notification it works for. *)
ThreadsInv ==
    /\ thread \in [Threads -> ThreadType]
    /\ \A t \in Threads : /\ Len(thread[t].ranges) = Len(thread[t].list)
                          /\ Busy(t) <=> thread[t].list # <<>>
    /\ thread["worker"].step = "idle" <=> thread["worker"].key = "none"
    /\ thread["worker"].key \notin ToSet(queue)
    /\ again \subseteq {thread["worker"].key}
    /\ thread["listener"].step # "start"
    /\ thread["listener"].step # "idle"
           => notes # <<>> /\ Head(notes).type = "delete"
    /\ ~up => /\ watch = <<>> /\ notes = <<>> /\ queue = <<>> /\ again = {}
              /\ \A t \in Threads : thread[t] = Rest

Latest(i) == \A j \in 1..Len(watch) : j > i => watch[j].name # watch[i].name

(* Resource versions only grow on the way from the API server through the  *)
(* watch and the store to the pointers of a rebalance.                     *)
VersionsInv ==
    /\ \A d \in Distributors : rv[d] <= lastRv[d] /\ store[d] <= lastRv[d]
    /\ \A i \in 1..Len(watch) :
           /\ watch[i].rv <= lastRv[watch[i].name]
           /\ watch[i].rv # 0 =>
                  /\ store[watch[i].name] < watch[i].rv
                  /\ \A j \in 1..Len(watch) :
                         j < i /\ watch[j].name = watch[i].name
                             => watch[j].rv < watch[i].rv
    /\ up => \A d \in Distributors :
           \/ store[d] = rv[d] /\ \A i \in 1..Len(watch) : watch[i].name # d
           \/ \E i \in 1..Len(watch) :
                  watch[i].name = d /\ watch[i].rv = rv[d] /\ Latest(i)
    /\ \A t \in Threads : \A p \in Pointers(t) :
           p[2] # 0 /\ p[2] <= lastRv[p[1]] /\ (IsCurrent(p) => store[p[1]] = p[2])

(* A distributor without a process is on its way to the worker.            *)
StartedInv ==
    up => \A d \in Distributors : rv[d] # 0 =>
        \/ procs[d] > 0
        \/ store[d] = 0 \/ [name |-> d, rv |-> 0] \in ToSet(watch)
        \/ Added(d) \/ d \in ToSet(queue) \/ d \in again
        \/ thread["worker"].key = d

(* There will be another rebalance: of a creation or deletion that the     *)
(* informer, the listener or the worker has still to handle.               *)
Work ==
    \/ \E d \in Distributors : [name |-> d, rv |-> 0] \in ToSet(watch)
    \/ \E d \in Distributors : store[d] = 0 /\ rv[d] # 0
    \/ \E i \in 1..Len(notes) :
           notes[i].type = "delete" /\ (i > 1 \/ thread["listener"].step = "idle")
    \/ \E t \in Threads : thread[t].step = "list"
    \/ \E d \in Distributors :
           rv[d] # 0 /\ (Added(d) \/ d \in ToSet(queue) \/ d \in again)

(* The rebalance of t has listed the distributors there are, and those it  *)
(* has written have the ranges of the division it computed.                *)
Track(t, n, order, j) ==
    /\ IsInjective(order)
    /\ \A d \in Distributors : rv[d] # 0 <=> \E i \in 1..n : order[i] = d
    /\ \A i \in 1..n : i < j => range[order[i]] = EvenlyDivide(n, MaxKey)[i]
    /\ Len(thread[t].list) = n - j + 1
    /\ \A i \in 1..(n - j + 1) :
           /\ thread[t].list[i][1] = order[i + j - 1]
           /\ thread[t].ranges[i] = EvenlyDivide(n, MaxKey)[i + j - 1]
    /\ thread[t].step = "update" => thread[t].value = {Head(thread[t].ranges)}

OnTrack(t) ==
    \E n \in 1..(MaxKey + 1) : \E order \in [1..n -> Distributors], j \in 1..n :
        Track(t, n, order, j)

Partitioned ==
    Exists => \A k \in Keys : \E d \in Distributors : Handlers(k) = {d}

(* Of two rebalances at once one fails, unless an Update that changed      *)
(* nothing went unnoticed.                                                 *)
RacesInv == Busy("worker") /\ Busy("listener")
                => Doomed("worker") \/ Doomed("listener") \/ Shared \/ unnoticed

(* With nothing left to do and no rebalance that will fail, the one that   *)
(* runs will partition the hash keys; when none runs, they are partitioned.*)
Calm == up /\ ~unbalanced /\ ~unnoticed /\ ~Work /\ \A t \in Threads : ~Doomed(t)

OnlyBusy(t) == Busy(t) /\ \A u \in Threads : u # t => ~Busy(u)

BalanceInv ==
    Calm => /\ (\A t \in Threads : ~Busy(t)) => Partitioned
            /\ \A t \in Threads : OnlyBusy(t) => OnTrack(t)
-----------------------------------------------------------------------------
(* Sequences as sets.                                                      *)

(* Appending an element.                                                   *)
LEMMA AppendElements ==
    ASSUME NEW S, NEW q \in Seq(S), NEW x \in S
    PROVE  /\ Append(q, x) \in Seq(S)
           /\ ToSet(Append(q, x)) = ToSet(q) \cup {x}
           /\ q # <<>> => Append(q, x) # <<>> /\ Head(Append(q, x)) = Head(q)
           /\ Len(Append(q, x)) = Len(q) + 1 /\ Len(q) \in Nat
           /\ \A i \in 1..Len(q) : Append(q, x)[i] = q[i]
           /\ Append(q, x)[Len(q) + 1] = x
<1>1. /\ Len(Append(q, x)) = Len(q) + 1 /\ Len(q) \in Nat
      /\ DOMAIN q = 1..Len(q) /\ DOMAIN Append(q, x) = 1..(Len(q) + 1)
      /\ \A i \in 1..Len(q) : Append(q, x)[i] = q[i]
      /\ Append(q, x)[Len(q) + 1] = x
      /\ Append(q, x) \in Seq(S)
  OBVIOUS
<1>2. \A i \in 1..(Len(q) + 1) : i \in 1..Len(q) \/ i = Len(q) + 1
  BY <1>1
<1>3. \A i \in 1..Len(q) : i \in 1..(Len(q) + 1)
  BY <1>1
<1>4. ToSet(Append(q, x)) = ToSet(q) \cup {x}
  <2>1. Len(q) + 1 \in 1..(Len(q) + 1)
    BY <1>1
  <2>. QED
    BY <1>1, <1>2, <1>3, <2>1, Zenon DEF ToSet
<1>5. q # <<>> => Append(q, x) # <<>> /\ Head(Append(q, x)) = Head(q)
  OBVIOUS
<1>. QED
  BY <1>1, <1>4, <1>5

(* Taking the first element away.                                          *)
LEMMA TailElements ==
    ASSUME NEW S, NEW q \in Seq(S), q # <<>>
    PROVE  /\ Tail(q) \in Seq(S) /\ Head(q) \in S
           /\ ToSet(q) = {Head(q)} \cup ToSet(Tail(q))
           /\ Len(Tail(q)) = Len(q) - 1
           /\ \A i \in 1..Len(Tail(q)) : Tail(q)[i] = q[i + 1]
           /\ Len(q) \in Nat \ {0} /\ Head(q) = q[1]
<1>1. /\ Len(q) \in Nat \ {0} /\ Len(Tail(q)) = Len(q) - 1
      /\ DOMAIN q = 1..Len(q) /\ DOMAIN Tail(q) = 1..(Len(q) - 1)
      /\ \A i \in 1..(Len(q) - 1) : Tail(q)[i] = q[i + 1]
      /\ Head(q) = q[1]
      /\ Tail(q) \in Seq(S) /\ Head(q) \in S
  OBVIOUS
<1>2. \A i \in 1..Len(q) : i = 1 \/ (i - 1 \in 1..(Len(q) - 1) /\ (i - 1) + 1 = i)
  BY <1>1
<1>3. \A i \in 1..(Len(q) - 1) : i + 1 \in 1..Len(q)
  BY <1>1
<1>4. 1 \in 1..Len(q)
  BY <1>1
<1>5. ToSet(q) \subseteq {Head(q)} \cup ToSet(Tail(q))
  <2> SUFFICES ASSUME NEW i \in 1..Len(q) PROVE q[i] \in {Head(q)} \cup ToSet(Tail(q))
    BY <1>1 DEF ToSet
  <2>1. CASE i = 1
    BY <1>1, <2>1
  <2>2. CASE i # 1
    <3>1. i - 1 \in DOMAIN Tail(q) /\ Tail(q)[i - 1] = q[i]
      BY <1>1, <1>2, <2>2
    <3>. QED
      BY <3>1 DEF ToSet
  <2>. QED
    BY <2>1, <2>2
<1>6. {Head(q)} \cup ToSet(Tail(q)) \subseteq ToSet(q)
  <2>1. Head(q) \in ToSet(q)
    BY <1>1, <1>4 DEF ToSet
  <2>2. ASSUME NEW i \in DOMAIN Tail(q) PROVE Tail(q)[i] \in ToSet(q)
    <3>1. i + 1 \in DOMAIN q /\ Tail(q)[i] = q[i + 1]
      BY <1>1, <1>3
    <3>. QED
      BY <3>1 DEF ToSet
  <2>3. ToSet(Tail(q)) \subseteq ToSet(q)
    BY <2>2 DEF ToSet
  <2>. QED
    BY <2>1, <2>3
<1>. QED
  BY <1>1, <1>5, <1>6

(* The elements are those at the indices; the empty sequence has none.     *)
LEMMA ElementsAt ==
    ASSUME NEW S, NEW q \in Seq(S)
    PROVE  /\ \A x : x \in ToSet(q) <=> \E i \in 1..Len(q) : q[i] = x
           /\ ToSet(q) \subseteq S
           /\ Len(q) \in Nat /\ (q = <<>> <=> Len(q) = 0)
           /\ q = <<>> <=> ToSet(q) = {}
<1>1. DOMAIN q = 1..Len(q) /\ Len(q) \in Nat /\ \A i \in 1..Len(q) : q[i] \in S
  OBVIOUS
<1>2. \A x : x \in ToSet(q) <=> \E i \in 1..Len(q) : q[i] = x
  BY <1>1 DEF ToSet
<1>3. q = <<>> <=> Len(q) = 0
  OBVIOUS
<1>4. Len(q) # 0 => 1 \in 1..Len(q)
  BY <1>1
<1>5. Len(q) = 0 => 1..Len(q) = {}
  OBVIOUS
<1>6. q = <<>> <=> ToSet(q) = {}
  BY <1>2, <1>3, <1>4, <1>5
<1>. QED
  BY <1>1, <1>2, <1>3, <1>6, Zenon

LEMMA EmptyElements == ToSet(<<>>) = {}
<1>1. <<>> \in Seq({})
  OBVIOUS
<1>. QED
  BY <1>1, ElementsAt

(* A queue without duplicates stays one.                                   *)
LEMMA InjectiveQueue ==
    ASSUME NEW S, NEW q \in Seq(S), IsInjective(q)
    PROVE  /\ \A x \in S : x \notin ToSet(q) => IsInjective(Append(q, x))
           /\ q # <<>> => IsInjective(Tail(q)) /\ Head(q) \notin ToSet(Tail(q))
<1>0. \A i, j \in 1..Len(q) : q[i] = q[j] => i = j
  BY DEF IsInjective
<1>1. ASSUME NEW x \in S, x \notin ToSet(q)
      PROVE  IsInjective(Append(q, x))
  <2>1. \A i \in 1..Len(q) : q[i] # x
    BY <1>1, ElementsAt, Zenon
  <2>2. /\ DOMAIN Append(q, x) = 1..(Len(q) + 1) /\ Len(q) \in Nat
        /\ \A i \in 1..Len(q) : Append(q, x)[i] = q[i]
        /\ Append(q, x)[Len(q) + 1] = x
    BY <1>1
  <2>3. \A i \in 1..(Len(q) + 1) : i \in 1..Len(q) \/ i = Len(q) + 1
    BY <2>2
  <2> SUFFICES ASSUME NEW i \in 1..(Len(q) + 1), NEW j \in 1..(Len(q) + 1),
                      Append(q, x)[i] = Append(q, x)[j]
               PROVE  i = j
    BY <2>2 DEF IsInjective
  <2>. QED
    BY <1>0, <2>1, <2>2, <2>3
<1>2. ASSUME q # <<>>
      PROVE  IsInjective(Tail(q)) /\ Head(q) \notin ToSet(Tail(q))
  <2>1. /\ Len(q) \in Nat \ {0} /\ DOMAIN Tail(q) = 1..(Len(q) - 1)
        /\ \A i \in 1..(Len(q) - 1) : Tail(q)[i] = q[i + 1] /\ i + 1 \in 1..Len(q)
        /\ Head(q) = q[1] /\ 1 \in 1..Len(q)
    BY <1>2
  <2>2. \A i, j \in 1..(Len(q) - 1) : i + 1 = j + 1 => i = j
    OBVIOUS
  <2>3. \A i \in 1..(Len(q) - 1) : i + 1 # 1
    OBVIOUS
  <2>4. IsInjective(Tail(q))
    BY <1>0, <2>1, <2>2 DEF IsInjective
  <2>5. Head(q) \notin ToSet(Tail(q))
    BY <1>0, <2>1, <2>3 DEF ToSet
  <2>. QED
    BY <2>4, <2>5
<1>. QED
  BY <1>1, <1>2

-----------------------------------------------------------------------------
(* The lists of rebalance() and the ranges for them.                       *)

(* With as many chunks as there are distributors, each has a range, and    *)
(* every hash key is in exactly one of them.                               *)
LEMMA RangesOfKeys ==
    ASSUME NEW n \in 1..(MaxKey + 1)
    PROVE  LET r == EvenlyDivide(n, MaxKey) IN
           /\ r \in Seq(Ranges) /\ Len(r) = n
           /\ \A k \in Keys : \E j \in 1..n : r[j][1] <= k /\ k <= r[j][2]
           /\ \A k \in Keys : \A i1, i2 \in 1..n :
                  /\ r[i1][1] <= k /\ k <= r[i1][2]
                  /\ r[i2][1] <= k /\ k <= r[i2][2]
                  => i1 = i2
<1> DEFINE r == EvenlyDivide(n, MaxKey)
<1>0. MaxKey \in Nat /\ n \in Nat \ {0} /\ n <= MaxKey + 1
  BY ControllerAssumption
<1>1. \A k : Division!ChunkStart(n, MaxKey, k) = ChunkStart(n, MaxKey, k)
  BY DEF Division!ChunkStart, Division!chunk, Division!mod, Division!Smaller,
         ChunkStart, chunk, mod, Smaller
<1>2. Division!ChunkCount(n, MaxKey) = n /\ ChunkCount(n, MaxKey) = n
  BY <1>0 DEF Division!ChunkCount, Division!Smaller, ChunkCount, Smaller
<1>3. Division!EvenlyDivide(n, MaxKey) = r
  BY <1>1, <1>2 DEF Division!EvenlyDivide, EvenlyDivide
<1>4. /\ Len(r) = n
      /\ \A j \in 1..n : r[j][1] \in 0..MaxKey /\ r[j][2] \in 0..MaxKey
      /\ \A k \in 0..MaxKey : \E j \in 1..n : r[j][1] <= k /\ k <= r[j][2]
      /\ \A k \in 0..MaxKey : \A i1, i2 \in 1..n :
             /\ r[i1][1] <= k /\ k <= r[i1][2]
             /\ r[i2][1] <= k /\ k <= r[i2][2]
             => i1 = i2
  BY <1>0, <1>2, <1>3, Division!ChunksPartition
<1>5. r = [j \in 1..n |-> <<ChunkStart(n, MaxKey, j - 1), ChunkStart(n, MaxKey, j) - 1>>]
  BY <1>2 DEF EvenlyDivide
<1>6. ASSUME NEW j \in 1..n PROVE r[j] \in Ranges
  <2>1. r[j] = <<r[j][1], r[j][2]>>
    BY <1>5
  <2>2. r[j][1] \in Keys /\ r[j][2] \in -1..MaxKey
    BY <1>0, <1>4 DEF Keys
  <2> HIDE DEF r
  <2>. QED
    BY <2>1, <2>2 DEF Ranges
<1>7. r \in Seq(Ranges)
  <2>1. r \in [1..n -> Ranges]
    <3>1. DOMAIN r = 1..n /\ r = [j \in DOMAIN r |-> r[j]]
      BY <1>5
    <3> HIDE DEF r
    <3>. QED
      BY <1>6, <3>1
  <2> HIDE DEF r
  <2>. QED
    BY <1>0, <2>1
<1> HIDE DEF r
<1>8. QED
  BY <1>4, <1>7 DEF r, Keys

(* Any order in which the store lists its objects.                         *)
LEMMA ListedOrder ==
    ASSUME NEW names \in SUBSET Distributors, names # {},
           NEW order \in SetToSeqs(names)
    PROVE  /\ Len(order) \in 1..(MaxKey + 1)
           /\ order \in [1..Len(order) -> Distributors]
           /\ IsInjective(order)
           /\ \A d \in Distributors : d \in names <=> \E i \in 1..Len(order) : order[i] = d
<1> DEFINE c == Cardinality(names)
<1>1. IsFiniteSet(names) /\ c \in Nat /\ c <= MaxKey /\ c # 0 /\ MaxKey \in Nat
  <2>1. IsFiniteSet(names) /\ c <= Cardinality(Distributors)
    BY ControllerAssumption, FS_Subset
  <2>2. c \in Nat /\ Cardinality(Distributors) \in Nat
    BY <2>1, ControllerAssumption, FS_CardinalityType
  <2>3. c # 0
    BY <2>1, FS_EmptySet
  <2>. QED
    BY <2>1, <2>2, <2>3, ControllerAssumption
<1>2. order \in [1..c -> names] /\ \A i, j \in 1..c : i # j => order[i] # order[j]
  BY DEF SetToSeqs
<1> HIDE DEF c
<1>3. Len(order) = c
  BY <1>1, <1>2
<1>4. IsInjective(order)
  BY <1>2 DEF IsInjective
<1>5. order \in Injection(1..c, names)
  BY <1>2, <1>4 DEF Injection
<1>6. order \in Surjection(1..c, names)
  <2>1. Cardinality(1..c) = c /\ IsFiniteSet(1..c)
    BY <1>1, FS_Interval
  <2>. QED
    BY <1>1, <1>5, <2>1, FS_Injection DEF c
<1>7. \A d \in names : \E i \in 1..c : order[i] = d
  BY <1>6 DEF Surjection
<1>8. \A i \in 1..c : order[i] \in names
  BY <1>2
<1>. QED
  BY <1>1, <1>2, <1>3, <1>4, <1>7, <1>8
-----------------------------------------------------------------------------
(* Types, threads and queues.                                              *)

Change == [name : Distributors, rv : Nat]
Note == [name : Distributors, type : {"add", "delete"}]

(* The type of everything but the threads, which have theirs in ThreadsInv.*)
StateType ==
    /\ rv \in [Distributors -> Nat] /\ lastRv \in [Distributors -> Nat]
    /\ range \in [Distributors -> Ranges]
    /\ creates \in 0..MaxCreate /\ deletions \in 0..MaxDeletions
    /\ watch \in Seq(Change)
    /\ store \in [Distributors -> Nat]
    /\ notes \in Seq(Note)
    /\ queue \in Seq(Distributors) /\ IsInjective(queue)
    /\ again \subseteq Distributors /\ delayed \subseteq Distributors
    /\ procs \in [Distributors -> Nat]
    /\ up \in BOOLEAN /\ restarts \in 0..MaxRestart
    /\ unbalanced \in BOOLEAN /\ unnoticed \in BOOLEAN

TypesInv == StateType /\ ThreadsInv

LEMMA TypesGiveTypeOK == TypesInv => ControllerTypeOK
  BY DEF TypesInv, StateType, ThreadsInv, ThreadType, ControllerTypeOK, Change, Note

LEMMA RestTyped == Rest \in ThreadType /\ Rest.list = <<>> /\ Rest.step = "idle"
                      /\ Rest.key = "none" /\ Rest.ranges = <<>> /\ Rest.value = {}
  BY DEF Rest, ThreadType

LEMMA TypesInit == ControllerInit => TypesInv
<1> SUFFICES ASSUME ControllerInit PROVE TypesInv
  OBVIOUS
<1>1. NoRange \in Ranges
  BY ControllerAssumption DEF NoRange, Ranges, Keys
<1>2. StateType
  <2>1. /\ rv \in [Distributors -> Nat] /\ lastRv \in [Distributors -> Nat]
        /\ store \in [Distributors -> Nat] /\ procs \in [Distributors -> Nat]
        /\ range \in [Distributors -> Ranges]
    BY <1>1 DEF ControllerInit
  <2>2. watch \in Seq(Change) /\ notes \in Seq(Note) /\ queue \in Seq(Distributors)
    BY DEF ControllerInit
  <2>3. IsInjective(queue)
    BY DEF ControllerInit, IsInjective
  <2>4. creates \in 0..MaxCreate /\ deletions \in 0..MaxDeletions /\ restarts \in 0..MaxRestart
    BY ControllerAssumption DEF ControllerInit
  <2>. QED
    BY <2>1, <2>2, <2>3, <2>4 DEF ControllerInit, StateType
<1>3. \A t \in Threads : thread[t] = Rest
  BY DEF ControllerInit
<1>4. thread \in [Threads -> ThreadType]
  BY RestTyped DEF ControllerInit
<1>5. "none" \notin ToSet(queue)
  BY ElementsAt, <1>2 DEF StateType, ControllerInit
<1>. QED
  BY <1>2, <1>3, <1>4, <1>5, RestTyped DEF TypesInv, ThreadsInv, ControllerInit, Busy, Threads

(* A key is queued, or noted as to be queued again: types, and where it is. *)
LEMMA EnqueueTyped ==
    ASSUME TypesInv, NEW d \in Distributors, Enqueue(d)
    PROVE  /\ queue' \in Seq(Distributors) /\ IsInjective(queue)'
           /\ again' \subseteq Distributors
           /\ ToSet(queue) \subseteq ToSet(queue') /\ again \subseteq again'
           /\ d \in ToSet(queue') \cup again'
           /\ thread["worker"].key \notin ToSet(queue')
           /\ again' \subseteq {thread["worker"].key}
<1>0. /\ queue \in Seq(Distributors) /\ IsInjective(queue) /\ again \subseteq Distributors
      /\ thread["worker"].key \notin ToSet(queue)
      /\ again \subseteq {thread["worker"].key}
  BY DEF TypesInv, StateType, ThreadsInv
<1>1. CASE d = thread["worker"].key
  <2>1. again' = again \cup {d} /\ queue' = queue
    BY <1>1 DEF Enqueue
  <2>. QED
    BY <1>0, <1>1, <2>1
<1>2. CASE d # thread["worker"].key
  <2>1. again' = again /\ queue' = IF Contains(queue, d) THEN queue ELSE Append(queue, d)
    BY <1>2 DEF Enqueue
  <2>2. Contains(queue, d) <=> d \in ToSet(queue)
    BY <1>0, ElementsAt, Zenon DEF Contains
  <2>3. CASE d \in ToSet(queue)
    BY <1>0, <2>1, <2>2, <2>3
  <2>4. CASE d \notin ToSet(queue)
    <3>1. queue' = Append(queue, d)
      BY <2>1, <2>2, <2>4
    <3>2. queue' \in Seq(Distributors) /\ ToSet(queue') = ToSet(queue) \cup {d}
      BY <1>0, <3>1, AppendElements
    <3>3. IsInjective(queue')
      BY <1>0, <2>4, <3>1, InjectiveQueue
    <3>. QED
      BY <1>0, <1>2, <2>1, <3>2, <3>3
  <2>. QED
    BY <2>3, <2>4
<1>. QED
  BY <1>1, <1>2

(* Users, the informer and AddFunc leave the threads alone.                *)
LEMMA TypesOutside ==
    ASSUME TypesInv,
           Users \/ Receive \/ DistributorAddFunc \/ (\E d \in Distributors : Retry(d))
    PROVE  TypesInv'
<1>0. /\ StateType /\ ThreadsInv /\ NoRange \in Ranges
      /\ MaxCreate \in Nat /\ MaxDeletions \in Nat
  BY ControllerAssumption DEF TypesInv, NoRange, Ranges, Keys
<1>1. ASSUME NEW d \in Distributors, CreateDistributor(d) PROVE TypesInv'
  <2>1. lastRv[d] + 1 \in Nat /\ [name |-> d, rv |-> lastRv[d] + 1] \in Change
    BY <1>0 DEF StateType, Change
  <2>2. watch' \in Seq(Change) /\ (~up => watch' = watch)
    BY <1>0, <1>1, <2>1, AppendElements DEF CreateDistributor, Write, StateType
  <2>5. /\ rv' \in [Distributors -> Nat] /\ lastRv' \in [Distributors -> Nat]
        /\ range' \in [Distributors -> Ranges]
    BY <1>0, <1>1, <2>1 DEF StateType, CreateDistributor, Write
  <2>6. creates' \in 0..MaxCreate
    BY <1>0, <1>1 DEF StateType, CreateDistributor
  <2>3. StateType'
    BY <1>0, <1>1, <2>2, <2>5, <2>6 DEF StateType, CreateDistributor, workqueue, process, flaws
  <2>4. ThreadsInv'
    BY <1>0, <1>1, <2>2 DEF ThreadsInv, CreateDistributor, Write, workqueue, process, Busy
  <2>. QED
    BY <2>3, <2>4 DEF TypesInv
<1>2. ASSUME NEW d \in Distributors, DeleteDistributor(d) PROVE TypesInv'
  <2>1. [name |-> d, rv |-> 0] \in Change
    BY DEF Change
  <2>2. watch' \in Seq(Change) /\ (~up => watch' = watch)
    BY <1>0, <1>2, <2>1, AppendElements DEF DeleteDistributor, StateType
  <2>3. StateType'
    BY <1>0, <1>2, <2>2 DEF StateType, DeleteDistributor, workqueue, flaws
  <2>4. ThreadsInv'
    BY <1>0, <1>2, <2>2 DEF ThreadsInv, DeleteDistributor, workqueue, Busy
  <2>. QED
    BY <2>3, <2>4 DEF TypesInv
<1>3. ASSUME Receive PROVE TypesInv'
  <2>0. up /\ watch # <<>> /\ watch \in Seq(Change) /\ notes \in Seq(Note)
    BY <1>0, <1>3 DEF Receive, StateType
  <2>1. Head(watch) \in Change /\ Tail(watch) \in Seq(Change)
    BY <2>0, TailElements
  <2>2. Head(watch).name \in Distributors /\ Head(watch).rv \in Nat
    BY <2>1 DEF Change
  <2>3. /\ [name |-> Head(watch).name, type |-> "delete"] \in Note
        /\ [name |-> Head(watch).name, type |-> "add"] \in Note
    BY <2>2 DEF Note
  <2>4. notes' \in Seq(Note) /\ (notes # <<>> => notes' # <<>> /\ Head(notes') = Head(notes))
    <3>1. notes' = notes \/ \E x \in Note : notes' = Append(notes, x)
      BY <1>3, <2>3 DEF Receive
    <3>2. ASSUME NEW x \in Note, notes' = Append(notes, x)
          PROVE  /\ notes' \in Seq(Note)
                 /\ notes # <<>> => notes' # <<>> /\ Head(notes') = Head(notes)
      BY <2>0, <3>2, AppendElements
    <3>. QED
      BY <2>0, <3>1, <3>2
  <2>5. StateType'
    BY <1>0, <1>3, <2>1, <2>2, <2>4 DEF StateType, Receive, api, workqueue, process, flaws
  <2>6. ThreadsInv'
    BY <1>0, <1>3, <2>0, <2>4 DEF ThreadsInv, Receive, workqueue, process, Busy
  <2>. QED
    BY <2>5, <2>6 DEF TypesInv
<1>4. ASSUME DistributorAddFunc PROVE TypesInv'
  <2>0. up /\ notes # <<>> /\ notes \in Seq(Note) /\ Head(notes).type = "add"
    BY <1>0, <1>4 DEF DistributorAddFunc, StateType
  <2>1. Head(notes) \in Note /\ Tail(notes) \in Seq(Note)
    BY <2>0, TailElements
  <2>2. Head(notes).name \in Distributors
    BY <2>1 DEF Note
  <2>3. Enqueue(Head(notes).name)
    BY <1>4 DEF DistributorAddFunc
  <2>4. /\ queue' \in Seq(Distributors) /\ IsInjective(queue)'
        /\ again' \subseteq Distributors
        /\ thread["worker"].key \notin ToSet(queue')
        /\ again' \subseteq {thread["worker"].key}
    BY <2>2, <2>3, EnqueueTyped
  <2>5. StateType'
    BY <1>0, <1>4, <2>1, <2>4 DEF StateType, DistributorAddFunc, api, process, flaws
  <2>6. thread["listener"].step = "idle"
    BY <1>0, <2>0 DEF ThreadsInv
  <2>7. ThreadsInv'
    BY <1>0, <1>4, <2>0, <2>4, <2>6 DEF ThreadsInv, DistributorAddFunc, process, Busy
  <2>. QED
    BY <2>5, <2>7 DEF TypesInv
<1>5. ASSUME NEW d \in Distributors, Retry(d) PROVE TypesInv'
  <2>1. up /\ Enqueue(d)
    BY <1>5 DEF Retry
  <2>4. /\ queue' \in Seq(Distributors) /\ IsInjective(queue)'
        /\ again' \subseteq Distributors
        /\ thread["worker"].key \notin ToSet(queue')
        /\ again' \subseteq {thread["worker"].key}
    BY <2>1, EnqueueTyped
  <2>5. StateType'
    BY <1>0, <1>5, <2>4 DEF StateType, Retry, api, informer, process, flaws
  <2>7. ThreadsInv'
    BY <1>0, <1>5, <2>1, <2>4 DEF ThreadsInv, Retry, informer, process, Busy
  <2>. QED
    BY <2>5, <2>7 DEF TypesInv
<1>. QED
  BY <1>1, <1>2, <1>3, <1>4, <1>5 DEF Users

(* What the threads' types say of one thread.                              *)
LEMMA ThreadFields ==
    ASSUME TypesInv, NEW t \in Threads
    PROVE  /\ thread[t] \in ThreadType
           /\ thread[t].step \in {"idle", "list", "set", "update", "start"}
           /\ thread[t].key \in Distributors \cup {"none"}
           /\ thread[t].list \in Seq(Distributors \X Nat)
           /\ thread[t].ranges \in Seq(Ranges) /\ thread[t].value \subseteq Ranges
           /\ Len(thread[t].ranges) = Len(thread[t].list)
           /\ Busy(t) <=> thread[t].list # <<>>
  BY DEF TypesInv, ThreadsInv, ThreadType

(* rebalance() returns: thread t has nothing listed any more.              *)
LEMMA ReturnFacts ==
    ASSUME TypesInv, NEW t \in Threads, thread[t].step \in {"list", "update"}, Return(t)
    PROVE  /\ thread' \in [Threads -> ThreadType]
           /\ thread'[t].list = <<>> /\ thread'[t].ranges = <<>>
           /\ \A u \in Threads : u # t => thread'[u] = thread[u]
           /\ thread'["worker"].key = thread["worker"].key
           /\ t = "worker" => thread'[t].step = "start" /\ notes' = notes
           /\ t = "listener" => /\ thread'[t].step = "idle" /\ notes' = Tail(notes)
                                /\ notes # <<>> /\ notes' \in Seq(Note)
<1>0. thread \in [Threads -> ThreadType] /\ notes \in Seq(Note)
  BY DEF TypesInv, ThreadsInv, StateType
<1>1. CASE t = "worker"
  <2>1. thread["worker"].key \in Distributors \cup {"none"}
    BY <1>1, ThreadFields
  <2> DEFINE new == [Rest EXCEPT !.step = "start", !.key = thread["worker"].key]
  <2>2. /\ new \in ThreadType /\ new.list = <<>> /\ new.ranges = <<>> /\ new.step = "start"
        /\ new.key = thread["worker"].key
    <3>1. new.list = <<>> /\ new.ranges = <<>> /\ new.step = "start"
      BY DEF Rest
    <3>2. new.key = thread["worker"].key
      BY DEF Rest
    <3>5. new \in ThreadType
      BY <2>1, RestTyped DEF ThreadType
    <3>. QED
      BY <3>1, <3>2, <3>5
  <2>3. thread' = [thread EXCEPT !["worker"] = new] /\ notes' = notes
    BY <1>1 DEF Return
  <2> HIDE DEF new
  <2>. QED
    BY <1>0, <1>1, <2>2, <2>3 DEF Threads
<1>2. CASE t = "listener"
  <2>1. thread' = [thread EXCEPT !["listener"] = Rest] /\ notes' = Tail(notes)
    BY <1>2 DEF Return
  <2>2. notes # <<>>
    BY <1>2 DEF TypesInv, ThreadsInv
  <2>3. notes' \in Seq(Note)
    BY <1>0, <2>1, <2>2, TailElements
  <2>. QED
    BY <1>0, <1>2, <2>1, <2>2, <2>3, RestTyped DEF Threads
<1>. QED
  BY <1>1, <1>2 DEF Threads

(* After a return the threads and queues are in order.                     *)
LEMMA ReturnTyped ==
    ASSUME TypesInv, NEW t \in Threads, thread[t].step \in {"list", "update"}, Return(t),
           UNCHANGED <<queue, again>>, up, up'
    PROVE  ThreadsInv'
<1>1. /\ thread' \in [Threads -> ThreadType]
      /\ thread'[t].list = <<>> /\ thread'[t].ranges = <<>>
      /\ \A u \in Threads : u # t => thread'[u] = thread[u]
      /\ thread'["worker"].key = thread["worker"].key
      /\ t = "worker" => thread'[t].step = "start" /\ notes' = notes
      /\ t = "listener" => thread'[t].step = "idle"
  BY ReturnFacts
<1>2. ASSUME NEW u \in Threads
      PROVE  /\ Len(thread'[u].ranges) = Len(thread'[u].list)
             /\ Busy(u)' <=> thread'[u].list # <<>>
  <2>1. CASE u = t
    BY <1>1, <2>1 DEF Threads, Busy
  <2>2. CASE u # t
    BY <1>1, <2>2, ThreadFields DEF Busy
  <2>. QED
    BY <2>1, <2>2
<1>3. ThreadsInv
  BY DEF TypesInv
<1>4. CASE t = "worker"
  BY <1>1, <1>2, <1>3, <1>4 DEF ThreadsInv, Threads
<1>5. CASE t = "listener"
  BY <1>1, <1>2, <1>3, <1>5 DEF ThreadsInv, Threads
<1>. QED
  BY <1>4, <1>5 DEF Threads

(* The worker takes a key and starts a process; the listener begins a      *)
(* deletion.                                                               *)
LEMMA TypesHandlers ==
    ASSUME TypesInv, deleteDistributor \/ processNextItem \/ StartProcess
    PROVE  TypesInv' /\ \A t \in Threads : thread'[t].list = thread[t].list
<1>0. /\ StateType /\ ThreadsInv /\ thread \in [Threads -> ThreadType]
      /\ "none" \notin Distributors
  BY ControllerAssumption DEF TypesInv, ThreadsInv
<1>F. \A t \in Threads : /\ thread[t] \in ThreadType
                         /\ Len(thread[t].ranges) = Len(thread[t].list)
                         /\ Busy(t) <=> thread[t].list # <<>>
  BY ThreadFields
<1>1. ASSUME deleteDistributor
      PROVE  TypesInv' /\ \A t \in Threads : thread'[t].list = thread[t].list
  <2>1. /\ thread' = [thread EXCEPT !["listener"].step = "list"]
        /\ thread["listener"].step = "idle"
        /\ UNCHANGED <<api, informer, workqueue, process, flaws>>
        /\ up /\ notes # <<>> /\ Head(notes).type = "delete"
    BY <1>1 DEF deleteDistributor
  <2>2. /\ thread' \in [Threads -> ThreadType]
        /\ thread'["worker"] = thread["worker"]
        /\ thread'["listener"].step = "list"
        /\ thread'["listener"].list = thread["listener"].list
        /\ thread'["listener"].ranges = thread["listener"].ranges
    BY <1>0, <2>1 DEF Threads, ThreadType
  <2>3. StateType'
    BY <1>0, <2>1 DEF StateType, api, informer, workqueue, process, flaws
  <2>4. ThreadsInv'
    BY <1>0, <1>F, <2>1, <2>2 DEF ThreadsInv, Busy, Threads, informer, workqueue, process
  <2>. QED
    BY <2>2, <2>3, <2>4 DEF TypesInv, Threads
<1>2. ASSUME processNextItem
      PROVE  TypesInv' /\ \A t \in Threads : thread'[t].list = thread[t].list
  <2>0. /\ up /\ queue # <<>> /\ thread["worker"].step = "idle"
        /\ queue' = Tail(queue)
        /\ UNCHANGED <<api, informer, again, process, flaws>>
        /\ queue \in Seq(Distributors) /\ IsInjective(queue)
    BY <1>0, <1>2 DEF processNextItem, StateType
  <2>1. /\ queue' \in Seq(Distributors) /\ IsInjective(queue')
        /\ Head(queue) \in Distributors /\ Head(queue) \notin ToSet(queue')
        /\ ToSet(queue') \subseteq ToSet(queue)
    BY <2>0, TailElements, InjectiveQueue
  <2>2. thread["worker"].key = "none" /\ again = {}
    BY <1>0, <2>0 DEF ThreadsInv, StateType
  <2>3. CASE store[Head(queue)] = 0
    <3>1. delayed' = delayed \cup {Head(queue)} /\ thread' = thread
      BY <1>2, <2>3 DEF processNextItem
    <3>2. StateType'
      BY <1>0, <2>0, <2>1, <3>1 DEF StateType, api, informer, process, flaws
    <3>3. ThreadsInv'
      BY <1>0, <2>0, <2>1, <3>1 DEF ThreadsInv, Busy, informer, process
    <3>. QED
      BY <3>1, <3>2, <3>3 DEF TypesInv
  <2>4. CASE store[Head(queue)] # 0
    <3>1. /\ thread' = [thread EXCEPT !["worker"].step = "list",
                                      !["worker"].key = Head(queue)]
          /\ delayed' = delayed
      BY <1>2, <2>4 DEF processNextItem
    <3>2. /\ thread' \in [Threads -> ThreadType]
          /\ thread'["listener"] = thread["listener"]
          /\ thread'["worker"].step = "list"
          /\ thread'["worker"].key = Head(queue)
          /\ thread'["worker"].list = thread["worker"].list
          /\ thread'["worker"].ranges = thread["worker"].ranges
      BY <1>0, <2>1, <3>1 DEF Threads, ThreadType
    <3>3. StateType'
      BY <1>0, <2>0, <2>1, <3>1 DEF StateType, api, informer, process, flaws
    <3>4. Head(queue) # "none"
      BY <1>0, <2>1
    <3>5. ThreadsInv'
      BY <1>0, <1>F, <2>0, <2>1, <2>2, <3>2, <3>4
      DEF ThreadsInv, Busy, Threads, informer, process
    <3>. QED
      BY <3>2, <3>3, <3>5 DEF TypesInv, Threads
  <2>. QED
    BY <2>3, <2>4
<1>3. ASSUME StartProcess
      PROVE  TypesInv' /\ \A t \in Threads : thread'[t].list = thread[t].list
  <2> DEFINE d == thread["worker"].key
  <2>0. /\ up /\ thread["worker"].step = "start"
        /\ procs' = [procs EXCEPT ![d] = IF rv[d] = 0 THEN 0 ELSE @ + 1]
        /\ queue' = IF d \in again THEN Append(queue, d) ELSE queue
        /\ again' = again \ {d}
        /\ thread' = [thread EXCEPT !["worker"] = Rest]
        /\ UNCHANGED <<api, informer, delayed, up, restarts, flaws>>
        /\ queue \in Seq(Distributors) /\ IsInjective(queue)
    BY <1>0, <1>3 DEF StartProcess, StateType
  <2>1. d \in Distributors /\ d \notin ToSet(queue) /\ again \subseteq {d}
    BY <1>0, <2>0 DEF ThreadsInv, ThreadType, Threads
  <2> HIDE DEF d
  <2>2. queue' \in Seq(Distributors) /\ IsInjective(queue')
    BY <2>0, <2>1, AppendElements, InjectiveQueue
  <2>3. ToSet(queue') \subseteq Distributors
    BY <2>2, ElementsAt
  <2>4. procs' \in [Distributors -> Nat]
    BY <1>0, <2>0, <2>1 DEF StateType
  <2>5. StateType'
    BY <1>0, <2>0, <2>2, <2>4 DEF StateType, api, informer, flaws
  <2>6. again' = {}
    BY <2>0, <2>1
  <2>7. /\ thread' \in [Threads -> ThreadType]
        /\ thread'["listener"] = thread["listener"] /\ thread'["worker"] = Rest
    BY <1>0, <2>0, RestTyped DEF Threads
  <2>8. thread["worker"].list = <<>>
    BY <1>F, <2>0 DEF Busy, Threads
  <2>9. "none" \notin ToSet(queue')
    BY <1>0, <2>3
  <2>10. ThreadsInv'
    BY <1>0, <1>F, <2>0, <2>6, <2>7, <2>9, RestTyped DEF ThreadsInv, Busy, Threads, informer
  <2>. QED
    BY <2>5, <2>7, <2>8, <2>10, RestTyped DEF TypesInv, Threads
<1>. QED
  BY <1>1, <1>2, <1>3

(* What rebalance() lists: the objects of the store, in some order, with   *)
(* a range for each of them.                                               *)
LEMMA ListFacts ==
    ASSUME TypesInv, NEW t \in Threads, List(t), {d \in Distributors : store[d] # 0} # {}
    PROVE  \E order \in SetToSeqs({d \in Distributors : store[d] # 0}) :
           /\ thread' \in [Threads -> ThreadType]
           /\ \A u \in Threads : u # t => thread'[u] = thread[u]
           /\ thread'["worker"].key = thread["worker"].key
           /\ thread'[t].step = "set"
           /\ Len(thread'[t].list) = Len(order)
           /\ \A i \in 1..Len(order) : thread'[t].list[i] = <<order[i], store[order[i]]>>
           /\ thread'[t].ranges = EvenlyDivide(Len(order), MaxKey)
           /\ Len(thread'[t].ranges) = Len(order)
           /\ thread'[t].list # <<>>
<1> DEFINE names == {d \in Distributors : store[d] # 0}
<1>0. /\ thread \in [Threads -> ThreadType] /\ store \in [Distributors -> Nat]
      /\ thread[t] \in ThreadType
  BY ThreadFields DEF TypesInv, ThreadsInv, StateType
<1>1. PICK order \in SetToSeqs(names) :
          thread' = [thread EXCEPT
              ![t].step = "set",
              ![t].list = [i \in 1..Len(order) |-> <<order[i], store[order[i]]>>],
              ![t].ranges = EvenlyDivide(Len(order), MaxKey)]
  BY DEF List
<1>2. names \in SUBSET Distributors /\ names # {}
  OBVIOUS
<1> HIDE DEF names
<1>3. /\ Len(order) \in 1..(MaxKey + 1)
      /\ order \in [1..Len(order) -> Distributors]
  BY <1>1, <1>2, ListedOrder
<1>4. Len(order) \in Nat \ {0}
  BY <1>3, ControllerAssumption
<1> DEFINE list == [i \in 1..Len(order) |-> <<order[i], store[order[i]]>>]
           ranges == EvenlyDivide(Len(order), MaxKey)
<1>5. list \in [1..Len(order) -> Distributors \X Nat]
  BY <1>0, <1>3
<1>6. list \in Seq(Distributors \X Nat) /\ Len(list) = Len(order) /\ list # <<>>
  BY <1>4, <1>5
<1>7. \A i \in 1..Len(order) : list[i] = <<order[i], store[order[i]]>>
  OBVIOUS
<1>8. ranges \in Seq(Ranges) /\ Len(ranges) = Len(order)
  BY <1>3, RangesOfKeys
<1> HIDE DEF list, ranges
<1>9. thread' = [thread EXCEPT ![t].step = "set", ![t].list = list, ![t].ranges = ranges]
  BY <1>1 DEF list, ranges
<1>10. /\ thread' \in [Threads -> ThreadType]
       /\ \A u \in Threads : u # t => thread'[u] = thread[u]
       /\ thread'["worker"].key = thread["worker"].key
       /\ thread'[t].step = "set" /\ thread'[t].list = list
       /\ thread'[t].ranges = ranges
  BY <1>0, <1>6, <1>8, <1>9 DEF ThreadType, Threads
<1>. QED
  BY <1>6, <1>7, <1>8, <1>10 DEF names, ranges

(* Setting the range of an object: only steps and values change.           *)
LEMMA SetRangeFacts ==
    ASSUME TypesInv, NEW t \in Threads, SetRange(t)
    PROVE  /\ thread' \in [Threads -> ThreadType]
           /\ \A u \in Threads : /\ thread'[u].list = thread[u].list
                                 /\ thread'[u].ranges = thread[u].ranges
                                 /\ thread'[u].key = thread[u].key
                                 /\ u # t => thread'[u].step = thread[u].step
           /\ thread'[t].step = "update"
           /\ thread'[t].value = {Head(thread[t].ranges)}
<1> DEFINE r == Head(thread[t].ranges)
           p == Head(thread[t].list)
<1>0. /\ thread[t].step = "set"
      /\ thread' = [u \in Threads |->
               IF u = t THEN [thread[t] EXCEPT !.step = "update", !.value = {r}]
               ELSE IF thread[u].step = "update" /\ Head(thread[u].list) = p
               THEN [thread[u] EXCEPT !.value = @ \cup {r}]
               ELSE thread[u]]
  BY DEF SetRange
<1>1. \A u \in Threads : thread[u] \in ThreadType
  BY ThreadFields
<1>2. r \in Ranges
  <2>1. /\ thread[t].ranges \in Seq(Ranges) /\ thread[t].list \in Seq(Distributors \X Nat)
        /\ thread[t].list # <<>> /\ Len(thread[t].ranges) = Len(thread[t].list)
    BY <1>0, ThreadFields DEF Busy
  <2>2. thread[t].ranges # <<>>
    BY <2>1, ElementsAt
  <2>. QED
    BY <2>1, <2>2, TailElements
<1> HIDE DEF r, p
<1>3. ASSUME NEW u \in Threads
      PROVE  /\ thread'[u] \in ThreadType
             /\ thread'[u].list = thread[u].list /\ thread'[u].ranges = thread[u].ranges
             /\ thread'[u].key = thread[u].key
             /\ u # t => thread'[u].step = thread[u].step
             /\ u = t => thread'[u].step = "update" /\ thread'[u].value = {r}
  <2>1. CASE u = t
    BY <1>0, <1>1, <1>2, <2>1 DEF ThreadType
  <2>2. CASE u # t /\ thread[u].step = "update" /\ Head(thread[u].list) = p
    <3>1. thread'[u] = [thread[u] EXCEPT !.value = @ \cup {r}]
      BY <1>0, <2>2
    <3>2. thread[u].value \cup {r} \in SUBSET Ranges
      BY <1>1, <1>2 DEF ThreadType
    <3>3. thread'[u] \in ThreadType
      BY <1>1, <3>1, <3>2 DEF ThreadType
    <3>4. /\ thread'[u].list = thread[u].list /\ thread'[u].ranges = thread[u].ranges
          /\ thread'[u].key = thread[u].key /\ thread'[u].step = thread[u].step
      BY <1>1, <3>1 DEF ThreadType
    <3>. QED
      BY <2>2, <3>3, <3>4
  <2>3. CASE u # t /\ ~(thread[u].step = "update" /\ Head(thread[u].list) = p)
    <3>1. thread'[u] = thread[u]
      BY <1>0, <2>3
    <3>. QED
      BY <1>1, <2>3, <3>1
  <2>. QED
    BY <2>1, <2>2, <2>3
<1>4. thread' \in [Threads -> ThreadType]
  <2>1. DOMAIN thread' = Threads /\ thread' = [u \in Threads |-> thread'[u]]
    BY <1>0
  <2>. QED
    BY <1>3, <2>1
<1>. QED
  BY <1>3, <1>4 DEF r

(* What an Update does: it writes the object, or leaves it as it was, which*)
(* another thread that has still to write the object does not notice.      *)
Sent(t, p, r) ==
    /\ unnoticed' \in BOOLEAN /\ (unnoticed => unnoticed')
    /\ \/ Write(p[1], r)
       \/ /\ r = range[p[1]] /\ UNCHANGED <<rv, range, lastRv, watch>>
          /\ (\E u \in Threads : u # t /\ p \in Pointers(u)) => unnoticed'

LEMMA PutSends ==
    ASSUME TypesInv, NEW t \in Threads, NEW p \in Distributors \X Nat, NEW r, Put(t, p, r)
    PROVE  Sent(t, p, r)
<1>1. unnoticed \in BOOLEAN
  BY DEF TypesInv, StateType
<1>2. \A u \in Threads : p \in Pointers(u) => Contains(thread[u].list, p)
  <2> SUFFICES ASSUME NEW u \in Threads, p \in Pointers(u)
               PROVE  Contains(thread[u].list, p)
    OBVIOUS
  <2>1. thread[u].list \in Seq(Distributors \X Nat)
    BY ThreadFields
  <2> DEFINE q == thread[u].list
             S == Distributors \X Nat
  <2>2. q \in Seq(S) /\ p \in ToSet(q)
    BY <2>1 DEF Pointers
  <2> HIDE DEF q, S
  <2>3. Contains(q, p)
    BY <2>2, ElementsAt, Zenon DEF Contains
  <2>. QED
    BY <2>3 DEF q
<1>3. CASE r # range[p[1]] /\ Write(p[1], r) /\ UNCHANGED unnoticed
  BY <1>1, <1>3 DEF Sent
<1>4. CASE /\ r = range[p[1]]
           /\ unnoticed' = (unnoticed \/ \E u \in Threads \ {t} : Contains(thread[u].list, p))
           /\ UNCHANGED <<rv, range, lastRv, watch>>
  <2>1. unnoticed' \in BOOLEAN /\ (unnoticed => unnoticed')
    BY <1>1, <1>4, Zenon
  <2>2. (\E u \in Threads : u # t /\ p \in Pointers(u)) => unnoticed'
    BY <1>2, <1>4, Zenon
  <2>. QED
    BY <1>4, <2>1, <2>2 DEF Sent
<1>. QED
  BY <1>3, <1>4 DEF Put


(* A successful Update: the first pointer of the list is current, and the  *)
(* API server is sent its range.                                           *)
LEMMA UpdateFacts ==
    ASSUME TypesInv, NEW t \in Threads, Update(t)
    PROVE  LET p == Head(thread[t].list) IN
           /\ p \in Distributors \X Nat /\ p[1] \in Distributors
           /\ rv[p[1]] = p[2] /\ thread[t].step = "update" /\ up
           /\ thread[t].list # <<>> /\ thread[t].ranges # <<>>
           /\ \E a, b \in thread[t].value :
                  a \in Ranges /\ b \in Ranges /\ Sent(t, p, <<a[1], b[2]>>)
           /\ \A u \in Threads : u # t => thread'[u] = thread[u]
           /\ thread'["worker"].key = thread["worker"].key
           /\ thread' \in [Threads -> ThreadType]
           /\ \/ Len(thread[t].list) = 1 /\ Return(t)
              \/ /\ Len(thread[t].list) > 1 /\ thread'[t].step = "set"
                 /\ thread'[t].list = Tail(thread[t].list)
                 /\ thread'[t].ranges = Tail(thread[t].ranges)
                 /\ notes' = notes
           /\ UNCHANGED <<creates, deletions, store, workqueue, process, unbalanced>>
<1> DEFINE p == Head(thread[t].list)
<1>0. /\ up /\ thread[t].step = "update" /\ IsCurrent(p)
      /\ \E a, b \in thread[t].value : Put(t, p, <<a[1], b[2]>>)
      /\ IF Len(thread[t].list) = 1 THEN Return(t)
         ELSE /\ thread' = [thread EXCEPT ![t].step = "set",
                              ![t].list = Tail(@), ![t].ranges = Tail(@),
                              ![t].value = {}]
              /\ UNCHANGED notes
      /\ UNCHANGED <<creates, deletions, store, workqueue, process, unbalanced>>
  BY DEF Update
<1>1. /\ thread[t].ranges \in Seq(Ranges) /\ thread[t].list \in Seq(Distributors \X Nat)
      /\ thread[t].list # <<>> /\ Len(thread[t].ranges) = Len(thread[t].list)
      /\ thread[t].value \subseteq Ranges /\ thread[t] \in ThreadType
      /\ thread \in [Threads -> ThreadType]
  BY <1>0, ThreadFields DEF Busy, TypesInv, ThreadsInv
<1>2. Len(thread[t].list) \in Nat \ {0} /\ thread[t].ranges # <<>>
  BY <1>1, ElementsAt
<1>3. p \in Distributors \X Nat /\ Tail(thread[t].list) \in Seq(Distributors \X Nat)
  BY <1>1, TailElements
<1>4. Tail(thread[t].ranges) \in Seq(Ranges)
  BY <1>1, <1>2, TailElements
<1> HIDE DEF p
<1>5. p[1] \in Distributors /\ rv[p[1]] = p[2]
  BY <1>0, <1>3 DEF IsCurrent
<1>S. \E a, b \in thread[t].value :
          a \in Ranges /\ b \in Ranges /\ Sent(t, p, <<a[1], b[2]>>)
  <2>1. PICK a \in thread[t].value, b \in thread[t].value : Put(t, p, <<a[1], b[2]>>)
    BY <1>0
  <2>2. Sent(t, p, <<a[1], b[2]>>)
    BY <1>3, <2>1, PutSends
  <2>. QED
    BY <1>1, <2>1, <2>2
<1>6. CASE Len(thread[t].list) = 1
  <2>1. Return(t)
    BY <1>0, <1>6
  <2>2. /\ thread' \in [Threads -> ThreadType]
        /\ \A u \in Threads : u # t => thread'[u] = thread[u]
        /\ thread'["worker"].key = thread["worker"].key
    BY <1>0, <2>1, ReturnFacts
  <2>. QED
    BY <1>0, <1>1, <1>2, <1>3, <1>5, <1>6, <1>S, <2>1, <2>2 DEF p
<1>7. CASE Len(thread[t].list) # 1
  <2>1. /\ thread' = [thread EXCEPT ![t].step = "set",
                              ![t].list = Tail(@), ![t].ranges = Tail(@),
                              ![t].value = {}]
        /\ notes' = notes
    BY <1>0, <1>7
  <2>2. /\ thread' \in [Threads -> ThreadType]
        /\ thread'[t].step = "set" /\ thread'[t].list = Tail(thread[t].list)
        /\ thread'[t].ranges = Tail(thread[t].ranges)
        /\ thread'["worker"].key = thread["worker"].key
        /\ \A u \in Threads : u # t => thread'[u] = thread[u]
    BY <1>1, <1>3, <1>4, <2>1 DEF ThreadType, Threads
  <2>3. Len(thread[t].list) > 1
    <3>1. \A n \in Nat \ {0} : n # 1 => n > 1
      OBVIOUS
    <3>. QED
      BY <1>2, <1>7, <3>1
  <2>. QED
    BY <1>0, <1>1, <1>2, <1>3, <1>5, <1>S, <2>1, <2>2, <2>3 DEF p
<1>. QED
  BY <1>6, <1>7

(* The steps of rebalance(), and a restart.                                *)
LEMMA TypesRebalance ==
    ASSUME TypesInv, (\E t \in Threads : rebalance(t)) \/ Restart
    PROVE  TypesInv'
<1>0. /\ StateType /\ ThreadsInv /\ thread \in [Threads -> ThreadType]
      /\ "none" \notin Distributors
      /\ MaxRestart \in Nat
  BY ControllerAssumption DEF TypesInv, ThreadsInv
<1>F. \A t \in Threads : /\ thread[t] \in ThreadType
                         /\ Len(thread[t].ranges) = Len(thread[t].list)
                         /\ Busy(t) <=> thread[t].list # <<>>
  BY ThreadFields
<1>1. ASSUME NEW t \in Threads, List(t) PROVE TypesInv'
  <2>0. up /\ thread[t].step = "list" /\ unbalanced' = FALSE /\ unnoticed' = FALSE
        /\ UNCHANGED <<api, watch, store, workqueue, process>>
    BY <1>1 DEF List
  <2>1. CASE {d \in Distributors : store[d] # 0} = {}
    <3>1. Return(t)
      BY <1>1, <2>1 DEF List
    <3>2. ThreadsInv'
      BY <2>0, <3>1, ReturnTyped DEF workqueue, process
    <3>3. notes' \in Seq(Note)
      BY <1>0, <2>0, <3>1, ReturnFacts DEF Threads, StateType
    <3>4. StateType'
      BY <1>0, <2>0, <3>3 DEF StateType, api, workqueue, process
    <3>. QED
      BY <3>2, <3>4 DEF TypesInv
  <2>2. CASE {d \in Distributors : store[d] # 0} # {}
    <3>1. /\ thread' \in [Threads -> ThreadType]
          /\ \A u \in Threads : u # t => thread'[u] = thread[u]
          /\ thread'["worker"].key = thread["worker"].key
          /\ thread'[t].step = "set"
          /\ Len(thread'[t].ranges) = Len(thread'[t].list)
          /\ thread'[t].list # <<>>
      BY <1>1, <2>2, ListFacts
    <3>2. notes' = notes
      BY <1>1, <2>2 DEF List
    <3>3. StateType'
      BY <1>0, <2>0, <3>2 DEF StateType, api, workqueue, process
    <3>4. ASSUME NEW u \in Threads
          PROVE  /\ Len(thread'[u].ranges) = Len(thread'[u].list)
                 /\ Busy(u)' <=> thread'[u].list # <<>>
      BY <1>F, <3>1 DEF Busy
    <3>5. ThreadsInv'
      BY <1>0, <2>0, <3>1, <3>2, <3>4 DEF ThreadsInv, Threads, workqueue, process
    <3>. QED
      BY <3>3, <3>5 DEF TypesInv
  <2>. QED
    BY <2>1, <2>2
<1>2. ASSUME NEW t \in Threads, SetRange(t) PROVE TypesInv'
  <2>0. up /\ thread[t].step = "set"
        /\ UNCHANGED <<api, informer, workqueue, process, flaws>>
    BY <1>2 DEF SetRange
  <2>1. /\ thread' \in [Threads -> ThreadType]
        /\ \A u \in Threads : /\ thread'[u].list = thread[u].list
                              /\ thread'[u].ranges = thread[u].ranges
                              /\ thread'[u].key = thread[u].key
                              /\ u # t => thread'[u].step = thread[u].step
        /\ thread'[t].step = "update"
    BY <1>2, SetRangeFacts
  <2>2. StateType'
    BY <1>0, <2>0 DEF StateType, api, informer, workqueue, process, flaws
  <2>3. ASSUME NEW u \in Threads
        PROVE  /\ Len(thread'[u].ranges) = Len(thread'[u].list)
               /\ Busy(u)' <=> thread'[u].list # <<>>
    BY <1>F, <2>0, <2>1 DEF Busy
  <2>4. ThreadsInv'
    BY <1>0, <2>0, <2>1, <2>3 DEF ThreadsInv, Threads, informer, workqueue, process
  <2>. QED
    BY <2>2, <2>4 DEF TypesInv
<1>3. ASSUME NEW t \in Threads, Update(t) PROVE TypesInv'
  <2> DEFINE p == Head(thread[t].list)
  <2>0. /\ p[1] \in Distributors
        /\ thread[t].step = "update" /\ up
        /\ \E a, b \in thread[t].value :
                  a \in Ranges /\ b \in Ranges /\ Sent(t, p, <<a[1], b[2]>>)
        /\ \A u \in Threads : u # t => thread'[u] = thread[u]
        /\ thread'["worker"].key = thread["worker"].key
        /\ thread' \in [Threads -> ThreadType]
        /\ \/ Len(thread[t].list) = 1 /\ Return(t)
           \/ /\ Len(thread[t].list) > 1 /\ thread'[t].step = "set"
              /\ thread'[t].list = Tail(thread[t].list)
              /\ thread'[t].ranges = Tail(thread[t].ranges)
              /\ notes' = notes
        /\ UNCHANGED <<creates, deletions, store, workqueue, process, unbalanced>>
    BY <1>3, UpdateFacts
  <2> HIDE DEF p
  <2>1. PICK r \in Ranges : Sent(t, p, r)
    <3>1. PICK a \in thread[t].value, b \in thread[t].value :
                a \in Ranges /\ b \in Ranges /\ Sent(t, p, <<a[1], b[2]>>)
      BY <2>0
    <3>2. <<a[1], b[2]>> \in Ranges
      BY <3>1 DEF Ranges
    <3>. QED
      BY <3>1, <3>2
  <2>2. lastRv[p[1]] + 1 \in Nat /\ [name |-> p[1], rv |-> lastRv[p[1]] + 1] \in Change
    BY <1>0, <2>0 DEF StateType, Change
  <2>W. Write(p[1], r) \/ UNCHANGED <<rv, range, lastRv, watch>>
    BY <2>1 DEF Sent
  <2>3. watch' \in Seq(Change)
    <3>1. CASE Write(p[1], r)
      BY <1>0, <2>0, <2>2, <3>1, AppendElements DEF Write, StateType
    <3>2. CASE UNCHANGED <<rv, range, lastRv, watch>>
      BY <1>0, <3>2 DEF StateType
    <3>. QED
      BY <2>W, <3>1, <3>2
  <2>4. /\ rv' \in [Distributors -> Nat] /\ lastRv' \in [Distributors -> Nat]
        /\ range' \in [Distributors -> Ranges]
    <3>1. CASE Write(p[1], r)
      BY <1>0, <2>1, <2>2, <3>1 DEF StateType, Write
    <3>2. CASE UNCHANGED <<rv, range, lastRv, watch>>
      BY <1>0, <3>2 DEF StateType
    <3>. QED
      BY <2>W, <3>1, <3>2
  <2>9. unnoticed' \in BOOLEAN
    BY <2>1 DEF Sent
  <2>5. notes' \in Seq(Note)
    <3>1. CASE Return(t)
      BY <1>0, <2>0, <3>1, ReturnFacts DEF Threads, StateType
    <3>. QED
      BY <1>0, <2>0, <3>1 DEF StateType
  <2>6. StateType'
    BY <1>0, <2>0, <2>3, <2>4, <2>5, <2>9 DEF StateType, workqueue, process
  <2>7. CASE Return(t)
    <3>1. ThreadsInv'
      BY <2>0, <2>7, ReturnTyped DEF workqueue, process
    <3>. QED
      BY <2>6, <3>1 DEF TypesInv
  <2>8. CASE ~Return(t)
    <3>0. /\ Len(thread[t].list) > 1 /\ thread'[t].step = "set"
          /\ thread'[t].list = Tail(thread[t].list)
          /\ thread'[t].ranges = Tail(thread[t].ranges)
          /\ notes' = notes
      BY <2>0, <2>8
    <3>1. ASSUME NEW u \in Threads
          PROVE  /\ Len(thread'[u].ranges) = Len(thread'[u].list)
                 /\ Busy(u)' <=> thread'[u].list # <<>>
      <4>1. CASE u = t
        <5>1. /\ thread[t].ranges \in Seq(Ranges) /\ thread[t].list \in Seq(Distributors \X Nat)
              /\ Len(thread[t].ranges) = Len(thread[t].list)
          BY ThreadFields
        <5>2. Len(thread[t].list) \in Nat
          BY <5>1
        <5>3. thread[t].list # <<>> /\ thread[t].ranges # <<>>
          BY <3>0, <5>1
        <5>4. /\ Len(Tail(thread[t].list)) = Len(thread[t].list) - 1
              /\ Tail(thread[t].list) \in Seq(Distributors \X Nat)
          BY <5>1, <5>3, TailElements
        <5>5. Len(Tail(thread[t].ranges)) = Len(thread[t].ranges) - 1
          BY <5>1, <5>3, TailElements
        <5>6. Tail(thread[t].list) # <<>>
          <6>1. \A n \in Nat : n > 1 => n - 1 # 0
            OBVIOUS
          <6>2. Len(Tail(thread[t].list)) # 0
            BY <3>0, <5>2, <5>4, <6>1
          <6>. QED
            BY <5>4, <6>2, ElementsAt
        <5>. QED
          BY <3>0, <4>1, <5>1, <5>4, <5>5, <5>6 DEF Busy
      <4>2. CASE u # t
        BY <1>F, <2>0, <4>2 DEF Busy
      <4>. QED
        BY <4>1, <4>2
    <3>2. ThreadsInv'
      BY <1>0, <2>0, <3>0, <3>1 DEF ThreadsInv, Threads, workqueue, process
    <3>. QED
      BY <2>6, <3>2 DEF TypesInv
  <2>. QED
    BY <2>7, <2>8
<1>4. ASSUME NEW t \in Threads, UpdateFails(t) PROVE TypesInv'
  <2>0. up /\ thread[t].step = "update" /\ UNCHANGED <<api, procs, restarts, unnoticed>>
    BY <1>4 DEF UpdateFails
  <2>1. CASE t = "worker"
    <3>1. /\ up' = FALSE /\ UNCHANGED unbalanced
          /\ watch' = <<>> /\ notes' = <<>> /\ store' = [d \in Distributors |-> 0]
          /\ queue' = <<>> /\ again' = {} /\ delayed' = {}
          /\ thread' = [u \in Threads |-> Rest]
      BY <1>4, <2>1 DEF UpdateFails, Die
    <3>2. IsInjective(queue')
      BY <3>1 DEF IsInjective
    <3>3. watch' \in Seq(Change) /\ notes' \in Seq(Note) /\ queue' \in Seq(Distributors)
      BY <3>1
    <3>4. StateType'
      BY <1>0, <2>0, <3>1, <3>2, <3>3 DEF StateType, api
    <3>5. ToSet(queue') = {}
      BY <3>1, <3>3, ElementsAt
    <3>6. ThreadsInv'
      BY <3>1, <3>5, RestTyped DEF ThreadsInv, Threads, Busy
    <3>. QED
      BY <3>4, <3>6 DEF TypesInv
  <2>2. CASE t # "worker"
    <3>1. Return(t) /\ unbalanced' = TRUE /\ UNCHANGED <<watch, store, workqueue, up>>
      BY <1>4, <2>2 DEF UpdateFails
    <3>2. ThreadsInv'
      BY <2>0, <3>1, ReturnTyped DEF workqueue
    <3>3. notes' \in Seq(Note)
      BY <2>0, <2>2, <3>1, ReturnFacts DEF Threads
    <3>4. StateType'
      BY <1>0, <2>0, <3>1, <3>3 DEF StateType, api, workqueue
    <3>. QED
      BY <3>2, <3>4 DEF TypesInv
  <2>. QED
    BY <2>1, <2>2
<1>5. ASSUME Restart PROVE TypesInv'
  <2>0. /\ ~up /\ restarts < MaxRestart /\ up' = TRUE /\ restarts' = restarts + 1
        /\ store' = rv /\ unbalanced' = FALSE /\ unnoticed' = FALSE
        /\ UNCHANGED <<api, watch, workqueue, thread, procs>>
    BY <1>5 DEF Restart
  <2>1. notes' \in Seq(Note)
    <3> DEFINE names == {d \in Distributors : rv[d] # 0}
    <3>1. PICK order \in SetToSeqs(names) :
              notes' = [i \in 1..Len(order) |-> [name |-> order[i], type |-> "add"]]
      BY <1>5 DEF Restart
    <3>2. IsFiniteSet(names) /\ Cardinality(names) \in Nat
      BY ControllerAssumption, FS_Subset, FS_CardinalityType
    <3>3. order \in [1..Cardinality(names) -> Distributors]
      BY <3>1 DEF SetToSeqs
    <3>4. order \in Seq(Distributors)
      <4>1. \A n \in Nat : [1..n -> Distributors] \subseteq Seq(Distributors)
        OBVIOUS
      <4>. QED
        BY <3>2, <3>3, <4>1
    <3>. QED
      BY <3>1, <3>4 DEF Note
  <2>2. StateType'
    <3>1. restarts' \in 0..MaxRestart
      BY <1>0, <2>0 DEF StateType
    <3>. QED
      BY <1>0, <2>0, <2>1, <3>1 DEF StateType, api, workqueue
  <2>3. \A t \in Threads : thread[t] = Rest
    BY <1>0, <2>0 DEF ThreadsInv
  <2>4. ThreadsInv'
    BY <1>0, <2>0, <2>3, RestTyped DEF ThreadsInv, Threads, workqueue, Busy
  <2>. QED
    BY <2>2, <2>4 DEF TypesInv
<1>. QED
  BY <1>1, <1>2, <1>3, <1>4, <1>5 DEF rebalance

LEMMA TypesStep ==
    ASSUME TypesInv, ControllerNext PROVE TypesInv'
  BY TypesOutside, TypesHandlers, TypesRebalance DEF ControllerNext, Controller
-----------------------------------------------------------------------------
(* Resource versions.                                                      *)

LEMMA PointersTyped ==
    ASSUME TypesInv, NEW t \in Threads
    PROVE  /\ Pointers(t) \subseteq Distributors \X Nat
           /\ Busy(t) <=> Pointers(t) # {}
<1>1. thread[t].list \in Seq(Distributors \X Nat) /\ (Busy(t) <=> thread[t].list # <<>>)
  BY ThreadFields
<1>2. /\ ToSet(thread[t].list) \subseteq Distributors \X Nat
      /\ thread[t].list = <<>> <=> ToSet(thread[t].list) = {}
  <2> DEFINE q == thread[t].list
             S == Distributors \X Nat
  <2>1. q \in Seq(S)
    BY <1>1
  <2> HIDE DEF q, S
  <2>2. ToSet(q) \subseteq S /\ (q = <<>> <=> ToSet(q) = {})
    BY <2>1, ElementsAt
  <2>. QED
    BY <2>2 DEF q, S
<1>. QED
  BY <1>1, <1>2 DEF Pointers

LEMMA ChangeTyped ==
    ASSUME TypesInv, NEW i \in 1..Len(watch)
    PROVE  watch[i].name \in Distributors /\ watch[i].rv \in Nat
<1>1. watch[i] \in Change
  BY DEF TypesInv, StateType
<1>. QED
  BY <1>1 DEF Change

LEMMA VersionsInit == ControllerInit => VersionsInv
<1> SUFFICES ASSUME ControllerInit PROVE VersionsInv
  OBVIOUS
<1>1. TypesInv /\ \A t \in Threads : thread[t] = Rest
  BY TypesInit DEF ControllerInit
<1>2. \A t \in Threads : Pointers(t) = {}
  BY <1>1, PointersTyped, RestTyped DEF Busy
<1>3. watch = <<>> /\ 1..Len(watch) = {}
  BY DEF ControllerInit
<1>4. \A d \in Distributors : rv[d] = 0 /\ lastRv[d] = 0 /\ store[d] = 0
  BY DEF ControllerInit
<1>. QED
  BY <1>2, <1>3, <1>4 DEF VersionsInv

(* An object of which the store has the current version is in no change    *)
(* that the reflector has still to receive.                                *)
LEMMA StoredIsLatest ==
    ASSUME TypesInv, VersionsInv, up, NEW d \in Distributors, store[d] = rv[d], rv[d] # 0,
           NEW i \in 1..Len(watch)
    PROVE  watch[i].name # d
<1>1. \/ \A j \in 1..Len(watch) : watch[j].name # d
      \/ \E j \in 1..Len(watch) : watch[j].name = d /\ watch[j].rv = rv[d] /\ Latest(j)
  BY DEF VersionsInv
<1>2. ASSUME NEW j \in 1..Len(watch), watch[j].name = d, watch[j].rv = rv[d]
      PROVE  FALSE
  <2>1. store[d] < rv[d]
    BY <1>2 DEF VersionsInv
  <2>2. rv[d] \in Nat
    BY DEF TypesInv, StateType
  <2>. QED
    BY <2>1, <2>2
<1>. QED
  BY <1>1, <1>2

(* Object d gets version v: a new one, or 0 when it is deleted.            *)
LEMMA WriteVersions ==
    ASSUME TypesInv, TypesInv', VersionsInv, NEW d \in Distributors, NEW v \in Nat,
           \/ v = lastRv[d] + 1 /\ lastRv' = [lastRv EXCEPT ![d] = v]
           \/ v = 0 /\ lastRv' = lastRv,
           rv' = [rv EXCEPT ![d] = v],
           watch' = IF up THEN Append(watch, [name |-> d, rv |-> v]) ELSE watch,
           store' = store, up' = up,
           \A t \in Threads : Pointers(t)' \subseteq Pointers(t)
    PROVE  VersionsInv'
<1>0. /\ rv \in [Distributors -> Nat] /\ lastRv \in [Distributors -> Nat]
      /\ store \in [Distributors -> Nat] /\ watch \in Seq(Change)
  BY DEF TypesInv, StateType
<1>1. /\ \A e \in Distributors : /\ rv[e] \in Nat /\ lastRv[e] \in Nat /\ store[e] \in Nat
                                 /\ lastRv[e] <= lastRv'[e] /\ lastRv'[e] \in Nat
                                 /\ e # d => rv'[e] = rv[e] /\ lastRv'[e] = lastRv[e]
      /\ rv'[d] = v /\ v <= lastRv'[d] /\ (v # 0 => v = lastRv[d] + 1)
  BY <1>0
<1>2. \A e \in Distributors : rv[e] <= lastRv[e] /\ store[e] <= lastRv[e]
  BY DEF VersionsInv
<1>3. \A e \in Distributors : rv'[e] <= lastRv'[e] /\ store'[e] <= lastRv'[e]
  BY <1>1, <1>2
<1>4. \A i \in 1..Len(watch) : watch[i].name \in Distributors /\ watch[i].rv \in Nat
  BY ChangeTyped
<1>5. \A i \in 1..Len(watch) :
           /\ watch[i].rv <= lastRv[watch[i].name]
           /\ watch[i].rv # 0 =>
                  /\ store[watch[i].name] < watch[i].rv
                  /\ \A j \in 1..Len(watch) :
                         j < i /\ watch[j].name = watch[i].name
                             => watch[j].rv < watch[i].rv
  BY DEF VersionsInv
<1>6. \A i \in 1..Len(watch) : watch[i].rv <= lastRv'[watch[i].name]
  BY <1>1, <1>4, <1>5
<1>7. ASSUME NEW t \in Threads, NEW p \in Pointers(t)'
      PROVE  p[2] # 0 /\ p[2] <= lastRv'[p[1]] /\ (rv'[p[1]] = p[2] => store'[p[1]] = p[2])
  <2>1. p \in Pointers(t) /\ p[1] \in Distributors /\ p[2] \in Nat
    BY <1>7, PointersTyped
  <2>2. p[2] # 0 /\ p[2] <= lastRv[p[1]] /\ (rv[p[1]] = p[2] => store[p[1]] = p[2])
    BY <2>1 DEF VersionsInv, IsCurrent
  <2>. QED
    BY <1>1, <2>1, <2>2
<1>8. CASE up
  <2> DEFINE n == Len(watch)
  <2>1. /\ Len(watch') = n + 1 /\ n \in Nat
        /\ \A i \in 1..n : watch'[i] = watch[i]
        /\ watch'[n + 1] = [name |-> d, rv |-> v]
    BY <1>0, <1>8
  <2>2. \A i \in 1..(n + 1) : i \in 1..n \/ i = n + 1
    BY <2>1
  <2> HIDE DEF n
  <2>3. ASSUME NEW i \in 1..(n + 1)
        PROVE  /\ watch'[i].rv <= lastRv'[watch'[i].name]
               /\ watch'[i].rv # 0 =>
                  /\ store'[watch'[i].name] < watch'[i].rv
                  /\ \A j \in 1..(n + 1) :
                         j < i /\ watch'[j].name = watch'[i].name
                             => watch'[j].rv < watch'[i].rv
    <3>1. CASE i \in 1..n
      <4>1. \A j \in 1..(n + 1) : j < i => j \in 1..n
        BY <2>1, <3>1
      <4>. QED
        BY <1>5, <1>6, <2>1, <3>1, <4>1 DEF n
    <3>2. CASE i = n + 1
      <4>1. watch'[i].rv = v /\ watch'[i].name = d
        BY <2>1, <3>2
      <4>2. v # 0 => store[d] < v
        BY <1>1, <1>2
      <4>3. \A j \in 1..(n + 1) : j < i => j \in 1..n
        BY <2>1, <3>2
      <4>4. ASSUME v # 0, NEW j \in 1..n, watch[j].name = d
            PROVE  watch[j].rv < v
        <5>1. watch[j].rv <= lastRv[d] /\ watch[j].rv \in Nat
          BY <1>4, <1>5, <4>4 DEF n
        <5>. QED
          BY <1>1, <4>4, <5>1
      <4>. QED
        BY <1>1, <2>1, <4>1, <4>2, <4>3, <4>4
    <3>. QED
      BY <2>2, <3>1, <3>2
  <2>4. ASSUME NEW e \in Distributors
        PROVE  \/ store'[e] = rv'[e] /\ \A i \in 1..(n + 1) : watch'[i].name # e
               \/ \E i \in 1..(n + 1) :
                     /\ watch'[i].name = e /\ watch'[i].rv = rv'[e]
                     /\ \A j \in 1..(n + 1) : j > i => watch'[j].name # watch'[i].name
    <3>1. CASE e = d
      <4>1. n + 1 \in 1..(n + 1) /\ \A j \in 1..(n + 1) : ~(j > n + 1)
        BY <2>1
      <4>. QED
        BY <1>1, <2>1, <3>1, <4>1
    <3>2. CASE e # d
      <4>1. \/ store[e] = rv[e] /\ \A i \in 1..n : watch[i].name # e
            \/ \E i \in 1..n :
                     /\ watch[i].name = e /\ watch[i].rv = rv[e]
                     /\ \A j \in 1..n : j > i => watch[j].name # watch[i].name
        BY <1>8 DEF VersionsInv, Latest, n
      <4>2. watch'[n + 1].name # e
        BY <2>1, <3>2
      <4>3. CASE store[e] = rv[e] /\ \A i \in 1..n : watch[i].name # e
        BY <1>1, <2>1, <2>2, <3>2, <4>2, <4>3
      <4>4. CASE \E i \in 1..n :
                     /\ watch[i].name = e /\ watch[i].rv = rv[e]
                     /\ \A j \in 1..n : j > i => watch[j].name # watch[i].name
        <5>1. PICK i \in 1..n : /\ watch[i].name = e /\ watch[i].rv = rv[e]
                                /\ \A j \in 1..n : j > i => watch[j].name # watch[i].name
          BY <4>4
        <5>2. i \in 1..(n + 1)
          BY <2>1
        <5>3. watch'[i].name = e /\ watch'[i].rv = rv'[e]
          BY <1>1, <2>1, <3>2, <5>1
        <5>4. \A j \in 1..(n + 1) : j > i => watch'[j].name # e
          BY <2>1, <2>2, <4>2, <5>1
        <5>. QED
          BY <5>2, <5>3, <5>4
      <4>. QED
        BY <4>1, <4>3, <4>4
    <3>. QED
      BY <3>1, <3>2
  <2>. QED
    BY <1>3, <1>7, <2>1, <2>3, <2>4 DEF VersionsInv, IsCurrent, Latest
<1>9. CASE ~up
  BY <1>3, <1>5, <1>6, <1>7, <1>9 DEF VersionsInv, IsCurrent
<1>. QED
  BY <1>8, <1>9

(* The reflector receives a change.                                        *)
LEMMA ReceiveVersions ==
    ASSUME TypesInv, VersionsInv, Receive
    PROVE  VersionsInv'
<1> DEFINE e == Head(watch)
           n == Len(watch) - 1
<1>0. /\ rv \in [Distributors -> Nat] /\ lastRv \in [Distributors -> Nat]
      /\ store \in [Distributors -> Nat] /\ watch \in Seq(Change)
      /\ up /\ up' = up /\ watch # <<>> /\ store' = [store EXCEPT ![e.name] = e.rv]
      /\ watch' = Tail(watch) /\ thread' = thread /\ rv' = rv /\ lastRv' = lastRv
  BY DEF TypesInv, StateType, Receive, api, process
<1>1. /\ Len(watch) = n + 1 /\ n \in Nat /\ Len(watch') = n /\ e = watch[1]
      /\ \A i \in 1..n : watch'[i] = watch[i + 1] /\ i + 1 \in 1..(n + 1)
      /\ 1 \in 1..(n + 1)
  BY <1>0, TailElements
<1>2. \A i \in 1..(n + 1) : /\ watch[i].name \in Distributors /\ watch[i].rv \in Nat
                            /\ i # 1 => i - 1 \in 1..n /\ watch'[i - 1] = watch[i]
  <2>1. \A i \in 1..(n + 1) : i # 1 => i - 1 \in 1..n /\ (i - 1) + 1 = i
    BY <1>1
  <2>. QED
    BY <1>1, <2>1, ChangeTyped
<1>3. e.name \in Distributors /\ e.rv \in Nat
  BY <1>1, <1>2
<1> HIDE DEF e, n
<1>4. /\ \A d \in Distributors : rv[d] <= lastRv[d] /\ store[d] <= lastRv[d]
      /\ \A i \in 1..(n + 1) :
           /\ watch[i].rv <= lastRv[watch[i].name]
           /\ watch[i].rv # 0 =>
                  /\ store[watch[i].name] < watch[i].rv
                  /\ \A j \in 1..(n + 1) :
                         j < i /\ watch[j].name = watch[i].name
                             => watch[j].rv < watch[i].rv
  BY <1>1 DEF VersionsInv
<1>5. \A d \in Distributors : rv'[d] <= lastRv'[d] /\ store'[d] <= lastRv'[d]
  BY <1>0, <1>1, <1>3, <1>4
<1>6. ASSUME NEW i \in 1..n
      PROVE  /\ watch'[i].rv <= lastRv'[watch'[i].name]
             /\ watch'[i].rv # 0 =>
                  /\ store'[watch'[i].name] < watch'[i].rv
                  /\ \A j \in 1..n :
                         j < i /\ watch'[j].name = watch'[i].name
                             => watch'[j].rv < watch'[i].rv
  <2>1. watch'[i] = watch[i + 1] /\ i + 1 \in 1..(n + 1) /\ 1 < i + 1
    BY <1>1
  <2>2. watch'[i].rv <= lastRv'[watch'[i].name]
    BY <1>0, <1>4, <2>1
  <2>3. ASSUME watch'[i].rv # 0 PROVE store'[watch'[i].name] < watch'[i].rv
    <3>1. CASE watch'[i].name = e.name
      <4>1. e.rv < watch[i + 1].rv
        BY <1>1, <1>4, <2>1, <2>3, <3>1
      <4>2. store'[e.name] = e.rv
        BY <1>0, <1>3
      <4>. QED
        BY <2>1, <3>1, <4>1, <4>2
    <3>2. CASE watch'[i].name # e.name
      <4>1. watch[i + 1].name \in Distributors
        BY <1>2, <2>1
      <4>2. store'[watch[i + 1].name] = store[watch[i + 1].name]
        BY <1>0, <2>1, <3>2, <4>1
      <4>. QED
        BY <1>4, <2>1, <2>3, <4>2
    <3>. QED
      BY <3>1, <3>2
  <2>4. ASSUME watch'[i].rv # 0, NEW j \in 1..n, j < i, watch'[j].name = watch'[i].name
        PROVE  watch'[j].rv < watch'[i].rv
    <3>1. watch'[j] = watch[j + 1] /\ j + 1 \in 1..(n + 1) /\ j + 1 < i + 1
      BY <1>1, <2>4
    <3>. QED
      BY <1>4, <2>1, <2>4, <3>1
  <2>. QED
    BY <2>2, <2>3, <2>4
<1>7. ASSUME NEW d \in Distributors
      PROVE  \/ store'[d] = rv'[d] /\ \A i \in 1..n : watch'[i].name # d
             \/ \E i \in 1..n :
                   /\ watch'[i].name = d /\ watch'[i].rv = rv'[d]
                   /\ \A j \in 1..n : j > i => watch'[j].name # watch'[i].name
  <2>1. \/ store[d] = rv[d] /\ \A i \in 1..(n + 1) : watch[i].name # d
        \/ \E i \in 1..(n + 1) :
                   /\ watch[i].name = d /\ watch[i].rv = rv[d]
                   /\ \A j \in 1..(n + 1) : j > i => watch[j].name # watch[i].name
    <3>1. \/ store[d] = rv[d] /\ \A i \in 1..Len(watch) : watch[i].name # d
          \/ \E i \in 1..Len(watch) : watch[i].name = d /\ watch[i].rv = rv[d] /\ Latest(i)
      BY <1>0 DEF VersionsInv
    <3>. QED
      BY <1>1, <3>1 DEF Latest
  <2>2. CASE store[d] = rv[d] /\ \A i \in 1..(n + 1) : watch[i].name # d
    <3>1. e.name # d
      BY <1>1, <2>2
    <3>2. store'[d] = rv'[d]
      BY <1>0, <2>2, <3>1
    <3>. QED
      BY <1>1, <2>2, <3>2
  <2>3. CASE \E i \in 1..(n + 1) :
                   /\ watch[i].name = d /\ watch[i].rv = rv[d]
                   /\ \A j \in 1..(n + 1) : j > i => watch[j].name # watch[i].name
    <3>1. PICK i \in 1..(n + 1) :
                   /\ watch[i].name = d /\ watch[i].rv = rv[d]
                   /\ \A j \in 1..(n + 1) : j > i => watch[j].name # watch[i].name
      BY <2>3
    <3>2. CASE i = 1
      <4>1. store'[d] = rv'[d]
        BY <1>0, <1>1, <3>1, <3>2
      <4>2. \A j \in 1..n : watch'[j].name # d
        <5>1. \A j \in 1..n : j + 1 > 1
          OBVIOUS
        <5>. QED
          BY <1>1, <3>1, <3>2, <5>1
      <4>. QED
        BY <4>1, <4>2
    <3>3. CASE i # 1
      <4>1. i - 1 \in 1..n /\ watch'[i - 1] = watch[i]
        BY <1>2, <3>3
      <4>2. \A j \in 1..n : j > i - 1 => j + 1 > i
        BY <1>1
      <4>3. \A j \in 1..n : j > i - 1 => watch'[j].name # d
        BY <1>1, <3>1, <4>2
      <4>. QED
        BY <1>0, <3>1, <4>1, <4>3
    <3>. QED
      BY <3>2, <3>3
  <2>. QED
    BY <2>1, <2>2, <2>3
<1>8. ASSUME NEW t \in Threads, NEW p \in Pointers(t)
      PROVE  p[2] # 0 /\ p[2] <= lastRv'[p[1]] /\ (rv'[p[1]] = p[2] => store'[p[1]] = p[2])
  <2>1. p[1] \in Distributors /\ p[2] \in Nat
    BY <1>8, PointersTyped
  <2>2. p[2] # 0 /\ p[2] <= lastRv[p[1]] /\ (rv[p[1]] = p[2] => store[p[1]] = p[2])
    BY <1>8 DEF VersionsInv, IsCurrent
  <2>3. ASSUME rv[p[1]] = p[2] PROVE e.name # p[1]
    BY <1>0, <1>1, <2>1, <2>2, <2>3, StoredIsLatest
  <2>. QED
    BY <1>0, <2>1, <2>2, <2>3
<1>9. \A t \in Threads : Pointers(t)' = Pointers(t)
  BY <1>0 DEF Pointers
<1>10. \A t \in Threads : \A p \in Pointers(t)' :
           p[2] # 0 /\ p[2] <= lastRv'[p[1]] /\ (IsCurrent(p)' => store'[p[1]] = p[2])
  BY <1>8, <1>9 DEF IsCurrent
<1>11. \A d \in Distributors :
           \/ store'[d] = rv'[d] /\ \A i \in 1..Len(watch') : watch'[i].name # d
           \/ \E i \in 1..Len(watch') :
                  watch'[i].name = d /\ watch'[i].rv = rv'[d] /\ Latest(i)'
  BY <1>1, <1>7 DEF Latest
<1>. QED
  BY <1>1, <1>5, <1>6, <1>10, <1>11 DEF VersionsInv

(* Steps that change no version, and take pointers away at most.           *)
LEMMA SameVersions ==
    ASSUME VersionsInv, UNCHANGED <<rv, lastRv, watch, store, up>>,
           \A t \in Threads : Pointers(t)' \subseteq Pointers(t)
    PROVE  VersionsInv'
  BY DEF VersionsInv, IsCurrent, Latest

(* The pointers of a rebalance that returns or has written an object.      *)
LEMMA PointersAfter ==
    ASSUME TypesInv, TypesInv', NEW t \in Threads
    PROVE  /\ thread[t].step \in {"list", "update"} /\ Return(t)
                => /\ Pointers(t)' = {}
                   /\ \A u \in Threads : u # t => Pointers(u)' = Pointers(u)
           /\ Update(t) => /\ Pointers(t) = {Head(thread[t].list)} \cup Pointers(t)'
                           /\ \A u \in Threads : u # t => Pointers(u)' = Pointers(u)
<1>1. ASSUME thread[t].step \in {"list", "update"}, Return(t)
      PROVE  /\ Pointers(t)' = {}
             /\ \A u \in Threads : u # t => Pointers(u)' = Pointers(u)
  <2>1. /\ thread'[t].list = <<>>
        /\ \A u \in Threads : u # t => thread'[u] = thread[u]
    BY <1>1, ReturnFacts
  <2>. QED
    BY <2>1, EmptyElements DEF Pointers
<1>2. ASSUME Update(t)
      PROVE  /\ Pointers(t) = {Head(thread[t].list)} \cup Pointers(t)'
             /\ \A u \in Threads : u # t => Pointers(u)' = Pointers(u)
  <2>1. /\ thread[t].list # <<>> /\ thread[t].step = "update"
        /\ \A u \in Threads : u # t => thread'[u] = thread[u]
        /\ \/ Len(thread[t].list) = 1 /\ Return(t)
           \/ thread'[t].list = Tail(thread[t].list)
    BY <1>2, UpdateFacts
  <2>2. thread[t].list \in Seq(Distributors \X Nat)
    BY ThreadFields
  <2> DEFINE q == thread[t].list
             S == Distributors \X Nat
  <2>3. q \in Seq(S) /\ q # <<>>
    BY <2>1, <2>2
  <2> HIDE DEF q, S
  <2>4. ToSet(q) = {Head(q)} \cup ToSet(Tail(q)) /\ Len(Tail(q)) = Len(q) - 1 /\ Tail(q) \in Seq(S)
    BY <2>3, TailElements
  <2>5. Len(q) = 1 => ToSet(Tail(q)) = {}
    <3>1. Len(q) = 1 => Len(Tail(q)) = 0
      BY <2>4
    <3>2. Tail(q) = <<>> <=> Len(Tail(q)) = 0
      BY <2>4, ElementsAt
    <3>. QED
      BY <3>1, <3>2, EmptyElements
  <2>6. CASE Len(thread[t].list) = 1 /\ Return(t)
    <3>1. Pointers(t)' = {}
      BY <1>1, <2>1, <2>6
    <3>. QED
      BY <2>1, <2>4, <2>5, <2>6, <3>1 DEF Pointers, q
  <2>7. CASE thread'[t].list = Tail(thread[t].list)
    BY <2>1, <2>4, <2>7 DEF Pointers, q
  <2>. QED
    BY <2>1, <2>6, <2>7
<1>. QED
  BY <1>1, <1>2

(* The pointers that List takes from the store.                            *)
LEMMA PointersListed ==
    ASSUME TypesInv, TypesInv', NEW t \in Threads, List(t)
    PROVE  /\ \A u \in Threads : u # t => Pointers(u)' = Pointers(u)
           /\ Pointers(t)' = {<<d, store[d]>> : d \in {e \in Distributors : store[e] # 0}}
<1> DEFINE names == {e \in Distributors : store[e] # 0}
<1>0. thread[t].step = "list"
  BY DEF List
<1>1. CASE names = {}
  <2>1. Return(t)
    BY <1>1 DEF List
  <2>2. /\ Pointers(t)' = {}
        /\ \A u \in Threads : u # t => Pointers(u)' = Pointers(u)
    BY <1>0, <2>1, PointersAfter
  <2>. QED
    BY <1>1, <2>2
<1>2. CASE names # {}
  <2>1. PICK order \in SetToSeqs(names) :
           /\ \A u \in Threads : u # t => thread'[u] = thread[u]
           /\ Len(thread'[t].list) = Len(order)
           /\ \A i \in 1..Len(order) : thread'[t].list[i] = <<order[i], store[order[i]]>>
    BY <1>2, ListFacts
  <2>2. thread'[t].list \in Seq(Distributors \X Nat)
    BY DEF TypesInv, ThreadsInv, ThreadType
  <2>3. \A x : x \in Pointers(t)' <=> \E i \in 1..Len(order) : <<order[i], store[order[i]]>> = x
    <3>1. \A x : x \in ToSet(thread'[t].list)
                    <=> \E i \in 1..Len(thread'[t].list) : thread'[t].list[i] = x
      <4> DEFINE q == thread'[t].list
                 S == Distributors \X Nat
      <4>1. q \in Seq(S)
        BY <2>2
      <4> HIDE DEF q, S
      <4>2. \A x : x \in ToSet(q) <=> \E i \in 1..Len(q) : q[i] = x
        BY <4>1, ElementsAt
      <4>. QED
        BY <4>2 DEF q
    <3>2. 1..Len(thread'[t].list) = 1..Len(order)
      BY <2>1
    <3>3. \A i \in 1..Len(order) : thread'[t].list[i] = <<order[i], store[order[i]]>>
      BY <2>1
    <3>4. Pointers(t)' = ToSet(thread'[t].list)
      BY DEF Pointers
    <3>. QED
      BY <3>1, <3>2, <3>3, <3>4, Zenon
  <2>4. names \in SUBSET Distributors
    OBVIOUS
  <2> HIDE DEF names
  <2>5. /\ order \in [1..Len(order) -> Distributors]
        /\ \A d \in Distributors : d \in names <=> \E i \in 1..Len(order) : order[i] = d
    BY <1>2, <2>1, <2>4, ListedOrder
  <2>6. \A i \in 1..Len(order) : order[i] \in names
    BY <2>5
  <2>7. Pointers(t)' = {<<d, store[d]>> : d \in names}
    <3>1. ASSUME NEW x \in Pointers(t)' PROVE x \in {<<d, store[d]>> : d \in names}
      BY <2>3, <2>6
    <3>2. ASSUME NEW d \in names PROVE <<d, store[d]>> \in Pointers(t)'
      BY <2>3, <2>4, <2>5
    <3>. QED
      BY <3>1, <3>2
  <2>. QED
    BY <2>1, <2>7 DEF names, Pointers
<1>. QED
  BY <1>1, <1>2

(* What a step does to the pointers: nothing, except for List, Update and  *)
(* UpdateFails.                                                            *)
LEMMA VersionsStep ==
    ASSUME TypesInv, TypesInv', VersionsInv, ControllerNext
    PROVE  VersionsInv'
<1>P. ASSUME \A t \in Threads : thread'[t].list = thread[t].list
      PROVE  \A t \in Threads : Pointers(t)' \subseteq Pointers(t)
  BY <1>P DEF Pointers
<1>L. ASSUME thread' = thread
      PROVE  \A t \in Threads : Pointers(t)' \subseteq Pointers(t)
  BY <1>L DEF Pointers
<1>0. /\ rv \in [Distributors -> Nat] /\ lastRv \in [Distributors -> Nat]
      /\ store \in [Distributors -> Nat]
  BY DEF TypesInv, StateType
<1>1. ASSUME NEW d \in Distributors, CreateDistributor(d) PROVE VersionsInv'
  <2>1. /\ thread' = thread /\ store' = store /\ up' = up
        /\ lastRv' = [lastRv EXCEPT ![d] = lastRv[d] + 1]
        /\ rv' = [rv EXCEPT ![d] = lastRv[d] + 1] /\ lastRv[d] + 1 \in Nat
        /\ watch' = IF up THEN Append(watch, [name |-> d, rv |-> lastRv[d] + 1]) ELSE watch
    BY <1>0, <1>1 DEF CreateDistributor, Write, process
  <2>. QED
    BY <1>L, <2>1, WriteVersions
<1>2. ASSUME NEW d \in Distributors, DeleteDistributor(d) PROVE VersionsInv'
  <2>1. /\ thread' = thread /\ store' = store /\ up' = up /\ lastRv' = lastRv
        /\ rv' = [rv EXCEPT ![d] = 0]
        /\ watch' = IF up THEN Append(watch, [name |-> d, rv |-> 0]) ELSE watch
    BY <1>2 DEF DeleteDistributor
  <2>. QED
    BY <1>L, <2>1, WriteVersions
<1>3. ASSUME DistributorAddFunc \/ (\E d \in Distributors : Retry(d)) PROVE VersionsInv'
  BY <1>3, <1>L, SameVersions DEF DistributorAddFunc, Retry, api, informer, process
<1>4. ASSUME deleteDistributor \/ processNextItem \/ StartProcess PROVE VersionsInv'
  <2>1. \A t \in Threads : Pointers(t)' \subseteq Pointers(t)
    BY <1>4, <1>P, TypesHandlers
  <2>2. UNCHANGED <<rv, lastRv, watch, store, up>>
    BY <1>4 DEF deleteDistributor, processNextItem, StartProcess, api, informer, process
  <2>. QED
    BY <2>1, <2>2, SameVersions
<1>5. ASSUME NEW t \in Threads, List(t) PROVE VersionsInv'
  <2>1. UNCHANGED <<rv, lastRv, watch, store, up>>
    BY <1>5 DEF List, api, process
  <2>2. ASSUME NEW u \in Threads, NEW p \in Pointers(u)'
        PROVE  p[2] # 0 /\ p[2] <= lastRv[p[1]] /\ (rv[p[1]] = p[2] => store[p[1]] = p[2])
    <3>1. CASE u = t
      BY <1>0, <1>5, <2>2, <3>1, PointersListed DEF VersionsInv
    <3>2. CASE u # t
      BY <1>5, <2>2, <3>2, PointersListed DEF VersionsInv, IsCurrent
    <3>. QED
      BY <3>1, <3>2
  <2>. QED
    BY <2>1, <2>2 DEF VersionsInv, IsCurrent, Latest
<1>6. ASSUME NEW t \in Threads, SetRange(t) PROVE VersionsInv'
  <2>1. \A u \in Threads : Pointers(u)' \subseteq Pointers(u)
    BY <1>6, <1>P, SetRangeFacts
  <2>2. UNCHANGED <<rv, lastRv, watch, store, up>>
    BY <1>6 DEF SetRange, api, informer, process
  <2>. QED
    BY <2>1, <2>2, SameVersions
<1>7. ASSUME NEW t \in Threads, Update(t) PROVE VersionsInv'
  <2> DEFINE d == Head(thread[t].list)[1]
  <2>1. /\ d \in Distributors
        /\ \/ UNCHANGED <<rv, lastRv, watch>>
           \/ \E a, b \in thread[t].value : Write(d, <<a[1], b[2]>>)
        /\ UNCHANGED <<store, process>>
    BY <1>7, UpdateFacts DEF Sent
  <2> HIDE DEF d
  <2>3. \A u \in Threads : Pointers(u)' \subseteq Pointers(u)
    BY <1>7, PointersAfter
  <2>4. CASE UNCHANGED <<rv, lastRv, watch>>
    BY <2>1, <2>3, <2>4, SameVersions DEF process
  <2>5. CASE \E a, b \in thread[t].value : Write(d, <<a[1], b[2]>>)
   <3>1. /\ store' = store /\ up' = up
        /\ lastRv' = [lastRv EXCEPT ![d] = lastRv[d] + 1]
        /\ rv' = [rv EXCEPT ![d] = lastRv[d] + 1] /\ lastRv[d] + 1 \in Nat
        /\ watch' = IF up THEN Append(watch, [name |-> d, rv |-> lastRv[d] + 1]) ELSE watch
     BY <1>0, <2>1, <2>5 DEF Write, process
   <3>. QED
     BY <2>1, <2>3, <3>1, WriteVersions
  <2>. QED
    BY <2>1, <2>4, <2>5
<1>8. ASSUME NEW t \in Threads, UpdateFails(t) PROVE VersionsInv'
  <2>0. thread[t].step = "update" /\ UNCHANGED <<rv, lastRv>>
    BY <1>8 DEF UpdateFails, api
  <2>1. CASE t = "worker"
    <3>1. /\ up' = FALSE /\ watch' = <<>> /\ store' = [d \in Distributors |-> 0]
          /\ thread' = [u \in Threads |-> Rest]
      BY <1>8, <2>1 DEF UpdateFails, Die
    <3>2. \A u \in Threads : thread'[u] = Rest
      BY <3>1
    <3>4. \A u \in Threads : Pointers(u)' = {}
      BY <3>2, EmptyElements, RestTyped DEF Pointers
    <3>5. \A d \in Distributors : rv[d] <= lastRv[d] /\ store'[d] <= lastRv[d]
      BY <1>0, <3>1 DEF VersionsInv
    <3>6. 1..Len(watch') = {}
      BY <3>1
    <3>. QED
      BY <2>0, <3>1, <3>4, <3>5, <3>6 DEF VersionsInv
  <2>2. CASE t # "worker"
    <3>1. Return(t) /\ UNCHANGED <<watch, store, up>>
      BY <1>8, <2>2 DEF UpdateFails
    <3>2. \A u \in Threads : Pointers(u)' \subseteq Pointers(u)
      BY <2>0, <3>1, PointersAfter
    <3>. QED
      BY <2>0, <3>1, <3>2, SameVersions
  <2>. QED
    BY <2>1, <2>2
<1>9. ASSUME Restart PROVE VersionsInv'
  <2>1. ~up /\ store' = rv /\ UNCHANGED <<rv, lastRv, watch, thread>>
    BY <1>9 DEF Restart, api
  <2>2. watch' = <<>> /\ \A t \in Threads : thread[t] = Rest
    BY <2>1 DEF TypesInv, ThreadsInv
  <2>3. \A t \in Threads : Pointers(t)' = {}
    BY <2>1, <2>2, PointersTyped, <1>L, RestTyped DEF Busy
  <2>4. 1..Len(watch') = {}
    BY <2>2
  <2>5. \A d \in Distributors : rv'[d] <= lastRv'[d] /\ store'[d] <= lastRv'[d]
    BY <2>1 DEF VersionsInv
  <2>. QED
    BY <2>1, <2>3, <2>4, <2>5 DEF VersionsInv
<1>. QED
  BY <1>1, <1>2, <1>3, <1>4, <1>5, <1>6, <1>7, <1>8, <1>9, ReceiveVersions
  DEF ControllerNext, Users, Controller, rebalance
-----------------------------------------------------------------------------
(* Creations and deletions on their way to a rebalance.                    *)

Gone(d) == [name |-> d, rv |-> 0] \in ToSet(watch)

(* A name that is free is not in the store, or its deletion is on the way. *)
LEMMA FreeName ==
    ASSUME TypesInv, VersionsInv, up, NEW d \in Distributors, rv[d] = 0
    PROVE  store[d] = 0 \/ Gone(d)
<1>1. \/ store[d] = rv[d]
      \/ \E i \in 1..Len(watch) : watch[i].name = d /\ watch[i].rv = rv[d]
  BY DEF VersionsInv
<1>2. ASSUME NEW i \in 1..Len(watch), watch[i].name = d, watch[i].rv = 0
      PROVE  Gone(d)
  <2>1. watch \in Seq(Change)
    BY DEF TypesInv, StateType
  <2>2. watch[i] \in Change
    BY <2>1
  <2>3. watch[i] = [name |-> d, rv |-> 0]
    BY <1>2, <2>2 DEF Change
  <2>4. watch[i] \in ToSet(watch)
    BY <2>1, ElementsAt
  <2>. QED
    BY <2>3, <2>4 DEF Gone
<1>. QED
  BY <1>1, <1>2

(* What the reflector makes of a change.                                   *)
LEMMA ReceiveFacts ==
    ASSUME TypesInv, Receive
    PROVE  LET e == Head(watch) IN
           /\ up /\ e.name \in Distributors /\ e.rv \in Nat
           /\ ToSet(watch) = {e} \cup ToSet(watch')
           /\ \A d \in Distributors : store'[d] = IF d = e.name THEN e.rv ELSE store[d]
           /\ \A d \in Distributors : Added(d) => Added(d)'
           /\ \A d \in Distributors : d = e.name /\ e.rv # 0 /\ store[d] = 0 => Added(d)'
           /\ Len(notes) \in Nat /\ Len(notes') >= Len(notes) /\ Len(notes') \in Nat
           /\ \A i \in 1..Len(notes) : notes'[i] = notes[i]
           /\ e.rv = 0 => /\ Len(notes') = Len(notes) + 1
                          /\ notes'[Len(notes) + 1].type = "delete"
           /\ UNCHANGED <<api, workqueue, thread, process, flaws>>
<1> DEFINE e == Head(watch)
<1>0. /\ up /\ watch # <<>> /\ watch \in Seq(Change) /\ notes \in Seq(Note)
      /\ store \in [Distributors -> Nat]
      /\ store' = [store EXCEPT ![e.name] = e.rv]
      /\ notes' = IF e.rv = 0 THEN Append(notes, [name |-> e.name, type |-> "delete"])
                  ELSE IF store[e.name] = 0
                  THEN Append(notes, [name |-> e.name, type |-> "add"]) ELSE notes
      /\ watch' = Tail(watch)
      /\ UNCHANGED <<api, workqueue, thread, process, flaws>>
  BY DEF Receive, TypesInv, StateType
<1>1. e \in Change /\ ToSet(watch) = {e} \cup ToSet(watch')
  BY <1>0, TailElements
<1>2. e.name \in Distributors /\ e.rv \in Nat
  BY <1>1 DEF Change
<1> HIDE DEF e
<1>3. /\ [name |-> e.name, type |-> "delete"] \in Note
      /\ [name |-> e.name, type |-> "add"] \in Note
  BY <1>2 DEF Note
<1>4. \A d \in Distributors : store'[d] = IF d = e.name THEN e.rv ELSE store[d]
  BY <1>0, <1>2
<1>5. Len(notes) \in Nat
  BY <1>0
<1>6. ASSUME NEW x \in Note, notes' = Append(notes, x)
      PROVE  /\ Len(notes') = Len(notes) + 1
             /\ \A i \in 1..Len(notes) : notes'[i] = notes[i]
             /\ notes'[Len(notes) + 1] = x
             /\ ToSet(notes') = ToSet(notes) \cup {x}
  BY <1>0, <1>6, AppendElements
<1>7. /\ \A d \in Distributors : Added(d) => Added(d)'
      /\ Len(notes') >= Len(notes) /\ Len(notes') \in Nat
      /\ \A i \in 1..Len(notes) : notes'[i] = notes[i]
  <2>1. CASE notes' = notes
    BY <1>5, <2>1 DEF Added
  <2>2. ASSUME NEW x \in Note, notes' = Append(notes, x)
        PROVE  /\ \A d \in Distributors : Added(d) => Added(d)'
               /\ Len(notes') >= Len(notes) /\ Len(notes') \in Nat
               /\ \A i \in 1..Len(notes) : notes'[i] = notes[i]
    BY <1>5, <1>6, <2>2 DEF Added
  <2>. QED
    BY <1>0, <1>3, <2>1, <2>2
<1>8. e.rv = 0 => Len(notes') = Len(notes) + 1 /\ notes'[Len(notes) + 1].type = "delete"
  BY <1>0, <1>3, <1>6
<1>9. ASSUME NEW d \in Distributors, d = e.name, e.rv # 0, store[d] = 0 PROVE Added(d)'
  <2> DEFINE x == [name |-> d, type |-> "add"]
  <2>1. notes' = Append(notes, x) /\ x \in Note
    BY <1>0, <1>3, <1>9
  <2>2. x \in ToSet(notes')
    <3> HIDE DEF x
    <3>. QED
      BY <1>6, <2>1
  <2>. QED
    BY <2>2 DEF Added
<1>. QED
  BY <1>0, <1>1, <1>2, <1>4, <1>5, <1>7, <1>8, <1>9 DEF e

(* AddFunc hands the first note on.                                        *)
LEMMA AddFacts ==
    ASSUME TypesInv, DistributorAddFunc
    PROVE  /\ up /\ thread["listener"].step = "idle"
           /\ ToSet(queue) \subseteq ToSet(queue') /\ again \subseteq again'
           /\ \A d \in Distributors : Added(d) => Added(d)' \/ d \in ToSet(queue') \/ d \in again'
           /\ \A i \in 1..Len(notes) : notes[i].type = "delete" =>
                  i - 1 \in 1..Len(notes') /\ notes'[i - 1] = notes[i]
           /\ UNCHANGED <<api, watch, store, thread, process, flaws>>
<1>0. /\ up /\ notes # <<>> /\ Head(notes).type = "add" /\ Enqueue(Head(notes).name)
      /\ notes' = Tail(notes) /\ notes \in Seq(Note)
      /\ UNCHANGED <<api, watch, store, thread, process, flaws>>
  BY DEF DistributorAddFunc, TypesInv, StateType
<1>1. thread["listener"].step = "idle"
  BY <1>0 DEF TypesInv, ThreadsInv
<1>2. /\ Head(notes) \in Note /\ ToSet(notes) = {Head(notes)} \cup ToSet(notes')
      /\ Len(notes') = Len(notes) - 1 /\ Head(notes) = notes[1] /\ Len(notes) \in Nat
      /\ \A i \in 1..Len(notes') : notes'[i] = notes[i + 1]
  BY <1>0, TailElements
<1>3. Head(notes).name \in Distributors
  BY <1>2 DEF Note
<1>4. /\ ToSet(queue) \subseteq ToSet(queue') /\ again \subseteq again'
      /\ Head(notes).name \in ToSet(queue') \cup again'
  BY <1>0, <1>3, EnqueueTyped
<1>5. ASSUME NEW d \in Distributors, Added(d)
      PROVE  Added(d)' \/ d \in ToSet(queue') \/ d \in again'
  <2>1. CASE [name |-> d, type |-> "add"] = Head(notes)
    <3>1. Head(notes).name = d
      BY <2>1
    <3>. QED
      BY <1>4, <3>1
  <2>2. CASE [name |-> d, type |-> "add"] # Head(notes)
    BY <1>2, <1>5, <2>2 DEF Added
  <2>. QED
    BY <2>1, <2>2
<1>6. ASSUME NEW i \in 1..Len(notes), notes[i].type = "delete"
      PROVE  i - 1 \in 1..Len(notes') /\ notes'[i - 1] = notes[i]
  <2>1. i # 1
    BY <1>0, <1>2, <1>6
  <2>2. i - 1 \in 1..Len(notes') /\ (i - 1) + 1 = i
    BY <1>2, <2>1
  <2>. QED
    BY <1>2, <2>2
<1>. QED
  BY <1>0, <1>1, <1>4, <1>5, <1>6

(* The worker takes the first key.                                         *)
LEMMA TakeFacts ==
    ASSUME TypesInv, processNextItem
    PROVE  /\ up /\ Head(queue) \in Distributors
           /\ ToSet(queue) = {Head(queue)} \cup ToSet(queue')
           /\ thread'["listener"] = thread["listener"] /\ again = {}
           /\ store[Head(queue)] = 0 => thread' = thread
           /\ store[Head(queue)] # 0 => /\ thread'["worker"].step = "list"
                                        /\ thread'["worker"].key = Head(queue)
           /\ thread["worker"].step = "idle" /\ thread["worker"].key = "none"
           /\ UNCHANGED <<api, informer, again, process, flaws>>
<1>0. /\ up /\ queue # <<>> /\ thread["worker"].step = "idle"
      /\ queue' = Tail(queue) /\ queue \in Seq(Distributors)
      /\ IF store[Head(queue)] = 0
         THEN delayed' = delayed \cup {Head(queue)} /\ UNCHANGED thread
         ELSE /\ thread' = [thread EXCEPT !["worker"].step = "list",
                                          !["worker"].key = Head(queue)]
              /\ UNCHANGED delayed
      /\ UNCHANGED <<api, informer, again, process, flaws>>
  BY DEF processNextItem, TypesInv, StateType
<1>1. Head(queue) \in Distributors /\ ToSet(queue) = {Head(queue)} \cup ToSet(queue')
  BY <1>0, TailElements
<1>2. /\ thread \in [Threads -> ThreadType] /\ thread["worker"].key = "none"
      /\ again \subseteq {"none"} /\ again \subseteq Distributors
  BY <1>0 DEF TypesInv, ThreadsInv, StateType
<1>3. again = {}
  BY <1>2, ControllerAssumption
<1>4. /\ thread'["listener"] = thread["listener"]
      /\ store[Head(queue)] # 0 => /\ thread'["worker"].step = "list"
                                   /\ thread'["worker"].key = Head(queue)
  BY <1>0, <1>2 DEF Threads, ThreadType
<1>. QED
  BY <1>0, <1>1, <1>2, <1>3, <1>4

(* The worker is done with its key.                                        *)
LEMMA StartFacts ==
    ASSUME TypesInv, StartProcess
    PROVE  LET d == thread["worker"].key IN
           /\ up /\ d \in Distributors /\ again \subseteq {d}
           /\ ToSet(queue') = ToSet(queue) \cup again
           /\ \A e \in Distributors : procs'[e] =
                  IF e # d THEN procs[e] ELSE IF rv[d] = 0 THEN 0 ELSE procs[d] + 1
           /\ thread'["listener"] = thread["listener"]
           /\ thread["worker"].step = "start"
           /\ UNCHANGED <<api, informer, delayed, up, restarts, flaws>>
<1> DEFINE d == thread["worker"].key
<1>0. /\ up /\ thread["worker"].step = "start"
      /\ procs' = [procs EXCEPT ![d] = IF rv[d] = 0 THEN 0 ELSE @ + 1]
      /\ queue' = IF d \in again THEN Append(queue, d) ELSE queue
      /\ thread' = [thread EXCEPT !["worker"] = Rest]
      /\ UNCHANGED <<api, informer, delayed, up, restarts, flaws>>
      /\ queue \in Seq(Distributors) /\ procs \in [Distributors -> Nat]
      /\ thread \in [Threads -> ThreadType]
  BY DEF StartProcess, TypesInv, StateType, ThreadsInv
<1>1. d \in Distributors /\ again \subseteq {d}
  BY <1>0 DEF TypesInv, ThreadsInv, ThreadType, Threads
<1> HIDE DEF d
<1>2. ToSet(queue') = ToSet(queue) \cup again
  <2>1. CASE d \in again
    BY <1>0, <1>1, <2>1, AppendElements
  <2>2. CASE d \notin again
    BY <1>0, <1>1, <2>2
  <2>. QED
    BY <2>1, <2>2
<1>3. \A e \in Distributors : procs'[e] =
                  IF e # d THEN procs[e] ELSE IF rv[d] = 0 THEN 0 ELSE procs[d] + 1
  BY <1>0, <1>1
<1>4. thread'["listener"] = thread["listener"]
  BY <1>0 DEF Threads
<1>. QED
  BY <1>0, <1>1, <1>2, <1>3, <1>4 DEF d

(* The note that the listener has worked for is a deletion.                *)
LEMMA ListenerNote ==
    ASSUME TypesInv,
           \/ notes' = notes
           \/ thread["listener"].step # "idle" /\ notes' = Tail(notes) /\ notes # <<>>
    PROVE  /\ \A d \in Distributors : Added(d) => Added(d)'
           /\ notes' # notes =>
                \A i \in 1..Len(notes) : i > 1 =>
                    i - 1 \in 1..Len(notes') /\ notes'[i - 1] = notes[i]
<1>1. CASE notes' = notes
  BY <1>1 DEF Added
<1>2. CASE thread["listener"].step # "idle" /\ notes' = Tail(notes) /\ notes # <<>>
  <2>1. Head(notes).type = "delete" /\ notes \in Seq(Note)
    BY <1>2 DEF TypesInv, ThreadsInv, StateType
  <2>2. /\ ToSet(notes) = {Head(notes)} \cup ToSet(notes')
        /\ Len(notes') = Len(notes) - 1 /\ Len(notes) \in Nat
        /\ \A i \in 1..Len(notes') : notes'[i] = notes[i + 1]
    BY <1>2, <2>1, TailElements
  <2>3. ASSUME NEW d \in Distributors, Added(d) PROVE Added(d)'
    <3>1. [name |-> d, type |-> "add"] # Head(notes)
      BY <2>1
    <3>. QED
      BY <2>2, <2>3, <3>1 DEF Added
  <2>4. \A i \in 1..Len(notes) : i > 1 => i - 1 \in 1..Len(notes') /\ (i - 1) + 1 = i
    BY <2>2
  <2>5. \A i \in 1..Len(notes) : i > 1 => notes'[i - 1] = notes[i]
    BY <2>2, <2>4
  <2>. QED
    BY <2>3, <2>4, <2>5
<1>. QED
  BY <1>1, <1>2

(* After a restart every distributor is notified as added.                 *)
LEMMA RestartNotes ==
    ASSUME TypesInv, TypesInv', Restart
    PROVE  \A d \in Distributors : rv[d] # 0 => Added(d)'
<1> DEFINE names == {d \in Distributors : rv[d] # 0}
<1> SUFFICES ASSUME NEW d \in Distributors, rv[d] # 0 PROVE Added(d)'
  OBVIOUS
<1>1. PICK order \in SetToSeqs(names) :
          notes' = [i \in 1..Len(order) |-> [name |-> order[i], type |-> "add"]]
  BY DEF Restart
<1>2. names \in SUBSET Distributors /\ names # {} /\ d \in names
  OBVIOUS
<1> HIDE DEF names
<1>3. PICK i \in 1..Len(order) : order[i] = d
  BY <1>1, <1>2, ListedOrder
<1>4. i \in DOMAIN notes' /\ notes'[i] = [name |-> d, type |-> "add"]
  BY <1>1, <1>3
<1>. QED
  BY <1>4 DEF Added, ToSet

(* A distributor without a process stays on its way to the worker.         *)
LEMMA StartedStep ==
    ASSUME TypesInv, TypesInv', VersionsInv, StartedInv, ControllerNext
    PROVE  StartedInv'
<1> DEFINE Coming(d) == \/ procs[d] > 0 \/ store[d] = 0 \/ Gone(d)
                        \/ Added(d) \/ d \in ToSet(queue) \/ d \in again
                        \/ thread["worker"].key = d
<1>0. /\ up => \A d \in Distributors : rv[d] # 0 => Coming(d)
      /\ (up' => \A d \in Distributors : rv'[d] # 0 => Coming(d)') => StartedInv'
  BY DEF StartedInv, Gone
<1>T. /\ rv \in [Distributors -> Nat] /\ lastRv \in [Distributors -> Nat]
      /\ procs \in [Distributors -> Nat] /\ watch \in Seq(Change)
  BY DEF TypesInv, StateType
<1>K. ASSUME NEW x \in Change, watch' = IF up THEN Append(watch, x) ELSE watch, up
      PROVE  /\ \A d \in Distributors : Gone(d) => Gone(d)'
             /\ x \in ToSet(watch')
  BY <1>K, <1>T, AppendElements DEF Gone
<1>1. ASSUME NEW d \in Distributors, CreateDistributor(d), up'
      PROVE  \A e \in Distributors : rv'[e] # 0 => Coming(e)'
  <2>1. /\ up /\ rv[d] = 0 /\ [name |-> d, rv |-> lastRv[d] + 1] \in Change
        /\ watch' = IF up THEN Append(watch, [name |-> d, rv |-> lastRv[d] + 1]) ELSE watch
        /\ UNCHANGED <<store, notes, queue, again, thread, procs>>
        /\ \A e \in Distributors : e # d => rv'[e] = rv[e]
    BY <1>1, <1>T DEF CreateDistributor, Write, workqueue, process, Change
  <2>2. \A e \in Distributors : Gone(e) => Gone(e)'
    BY <1>K, <2>1
  <2>3. store[d] = 0 \/ Gone(d)
    BY <2>1, FreeName
  <2>. QED
    BY <1>0, <2>1, <2>2, <2>3 DEF Added
<1>2. ASSUME NEW d \in Distributors, DeleteDistributor(d), up'
      PROVE  \A e \in Distributors : rv'[e] # 0 => Coming(e)'
  <2>1. /\ up /\ [name |-> d, rv |-> 0] \in Change
        /\ watch' = IF up THEN Append(watch, [name |-> d, rv |-> 0]) ELSE watch
        /\ UNCHANGED <<store, notes, queue, again, thread>>
        /\ \A e \in Distributors : e # d => rv'[e] = rv[e] /\ procs'[e] = procs[e]
        /\ rv'[d] = 0
    BY <1>2, <1>T DEF DeleteDistributor, workqueue, Change
  <2>2. \A e \in Distributors : Gone(e) => Gone(e)'
    BY <1>K, <2>1
  <2>. QED
    BY <1>0, <2>1, <2>2 DEF Added
<1>3. ASSUME Receive
      PROVE  \A d \in Distributors : rv'[d] # 0 => Coming(d)'
  <2> DEFINE e == Head(watch)
  <2>1. /\ up /\ e.name \in Distributors /\ e.rv \in Nat
        /\ ToSet(watch) = {e} \cup ToSet(watch')
        /\ \A d \in Distributors : store'[d] = IF d = e.name THEN e.rv ELSE store[d]
        /\ \A d \in Distributors : Added(d) => Added(d)'
        /\ \A d \in Distributors : d = e.name /\ e.rv # 0 /\ store[d] = 0 => Added(d)'
        /\ UNCHANGED <<api, workqueue, thread, process>>
    BY <1>3, ReceiveFacts
  <2> HIDE DEF e
  <2>2. ASSUME NEW d \in Distributors, rv[d] # 0 PROVE Coming(d)'
    <3>1. Coming(d)
      BY <1>0, <2>1, <2>2
    <3>2. CASE store[d] = 0
      <4>1. d # e.name => store'[d] = 0
        BY <2>1, <3>2
      <4>2. d = e.name /\ e.rv = 0 => store'[d] = 0
        BY <2>1
      <4>3. d = e.name /\ e.rv # 0 => Added(d)'
        BY <2>1, <3>2
      <4>. QED
        BY <4>1, <4>2, <4>3
    <3>3. CASE Gone(d)
      <4>1. CASE [name |-> d, rv |-> 0] = e
        <5>1. e.name = d /\ e.rv = 0
          BY <4>1
        <5>. QED
          BY <2>1, <5>1
      <4>2. CASE [name |-> d, rv |-> 0] # e
        BY <2>1, <3>3, <4>2 DEF Gone
      <4>. QED
        BY <4>1, <4>2
    <3>4. CASE ~(store[d] = 0) /\ ~Gone(d)
      BY <2>1, <3>1, <3>4 DEF workqueue, process
    <3>. QED
      BY <3>2, <3>3, <3>4
  <2>. QED
    BY <2>1, <2>2 DEF api
<1>4. ASSUME DistributorAddFunc
      PROVE  \A d \in Distributors : rv'[d] # 0 => Coming(d)'
  <2>1. /\ up /\ ToSet(queue) \subseteq ToSet(queue') /\ again \subseteq again'
        /\ \A d \in Distributors : Added(d) => Added(d)' \/ d \in ToSet(queue') \/ d \in again'
        /\ UNCHANGED <<api, watch, store, thread, process>>
    BY <1>4, AddFacts
  <2>. QED
    BY <1>0, <2>1 DEF api, process, Gone
<1>5. ASSUME deleteDistributor
      PROVE  \A d \in Distributors : rv'[d] # 0 => Coming(d)'
  <2>1. /\ up /\ UNCHANGED <<api, informer, workqueue, process>>
        /\ thread'["worker"] = thread["worker"]
    BY <1>5 DEF deleteDistributor, TypesInv, ThreadsInv, Threads
  <2>. QED
    BY <1>0, <2>1 DEF api, informer, workqueue, process, Gone, Added
<1>6. ASSUME processNextItem
      PROVE  \A d \in Distributors : rv'[d] # 0 => Coming(d)'
  <2>1. /\ up /\ Head(queue) \in Distributors
        /\ ToSet(queue) = {Head(queue)} \cup ToSet(queue')
        /\ store[Head(queue)] # 0 => thread'["worker"].key = Head(queue)
        /\ thread["worker"].key = "none"
        /\ UNCHANGED <<api, informer, again, process>>
    BY <1>6, TakeFacts
  <2>2. "none" \notin Distributors
    BY ControllerAssumption
  <2>3. ASSUME NEW d \in Distributors, rv[d] # 0 PROVE Coming(d)'
    <3>1. Coming(d) /\ thread["worker"].key # d
      BY <1>0, <2>1, <2>2, <2>3
    <3>2. CASE d = Head(queue)
      BY <2>1, <3>2 DEF informer
    <3>3. CASE d # Head(queue)
      BY <2>1, <3>1, <3>3 DEF informer, process, Gone, Added
    <3>. QED
      BY <3>2, <3>3
  <2>. QED
    BY <2>1, <2>3 DEF api
<1>7. ASSUME StartProcess
      PROVE  \A d \in Distributors : rv'[d] # 0 => Coming(d)'
  <2> DEFINE k == thread["worker"].key
  <2>1. /\ up /\ k \in Distributors
        /\ ToSet(queue') = ToSet(queue) \cup again
        /\ \A e \in Distributors : procs'[e] =
                  IF e # k THEN procs[e] ELSE IF rv[k] = 0 THEN 0 ELSE procs[k] + 1
        /\ UNCHANGED <<api, informer>>
    BY <1>7, StartFacts
  <2> HIDE DEF k
  <2>2. ASSUME NEW d \in Distributors, rv[d] # 0 PROVE Coming(d)'
    <3>1. Coming(d) /\ procs[d] \in Nat
      BY <1>0, <1>T, <2>1, <2>2
    <3>2. CASE d = k
      BY <2>1, <2>2, <3>1, <3>2
    <3>3. CASE d # k
      BY <2>1, <3>1, <3>3 DEF informer, Gone, Added, k
    <3>. QED
      BY <3>2, <3>3
  <2>. QED
    BY <2>1, <2>2 DEF api
<1>8. ASSUME NEW c \in Distributors, Retry(c)
      PROVE  \A d \in Distributors : rv'[d] # 0 => Coming(d)'
  <2>1. /\ up /\ UNCHANGED <<api, informer, thread, process>>
        /\ ToSet(queue) \subseteq ToSet(queue') /\ again \subseteq again'
    BY <1>8, EnqueueTyped DEF Retry
  <2>. QED
    BY <1>0, <2>1 DEF api, informer, process, Gone, Added
<1>9. ASSUME NEW t \in Threads, List(t)
      PROVE  \A d \in Distributors : rv'[d] # 0 => Coming(d)'
  <2>0. up /\ thread[t].step = "list" /\ UNCHANGED <<api, watch, store, workqueue, process>>
    BY <1>9 DEF List
  <2>1. /\ thread'["worker"].key = thread["worker"].key
        /\ \A d \in Distributors : Added(d) => Added(d)'
    <3>1. CASE Return(t)
      <4>1. /\ thread'["worker"].key = thread["worker"].key
            /\ notes' = notes \/ (t = "listener" /\ notes' = Tail(notes) /\ notes # <<>>)
        BY <2>0, <3>1, ReturnFacts DEF Threads
      <4>. QED
        BY <2>0, <4>1, ListenerNote
    <3>2. CASE ~Return(t)
      <4>1. {d \in Distributors : store[d] # 0} # {} /\ notes' = notes
        BY <1>9, <3>2 DEF List
      <4>. QED
        BY <1>9, <4>1, ListFacts DEF Added
    <3>. QED
      BY <3>1, <3>2
  <2>. QED
    BY <1>0, <2>0, <2>1 DEF api, workqueue, process, Gone
<1>10. ASSUME NEW t \in Threads, SetRange(t)
      PROVE  \A d \in Distributors : rv'[d] # 0 => Coming(d)'
  <2>1. up /\ UNCHANGED <<api, informer, workqueue, process>>
    BY <1>10 DEF SetRange
  <2>2. thread'["worker"].key = thread["worker"].key
    BY <1>10, SetRangeFacts DEF Threads
  <2>. QED
    BY <1>0, <2>1, <2>2 DEF api, informer, workqueue, process, Gone, Added
<1>11. ASSUME NEW t \in Threads, Update(t)
      PROVE  \A d \in Distributors : rv'[d] # 0 => Coming(d)'
  <2> DEFINE c == Head(thread[t].list)[1]
  <2>1. /\ c \in Distributors /\ up /\ rv[c] = Head(thread[t].list)[2]
        /\ \/ UNCHANGED <<rv, watch>>
           \/ \E a, b \in thread[t].value : Write(c, <<a[1], b[2]>>)
        /\ thread[t].step = "update"
        /\ thread'["worker"].key = thread["worker"].key
        /\ Return(t) \/ notes' = notes
        /\ UNCHANGED <<store, workqueue, process>>
        /\ Head(thread[t].list) \in Pointers(t)
    BY <1>11, UpdateFacts, PointersAfter DEF Sent
  <2>2. rv[c] # 0
    BY <2>1 DEF VersionsInv
  <2> HIDE DEF c
  <2>3. /\ [name |-> c, rv |-> lastRv[c] + 1] \in Change
        /\ \/ watch' = watch
           \/ watch' = IF up THEN Append(watch, [name |-> c, rv |-> lastRv[c] + 1]) ELSE watch
        /\ \A e \in Distributors : e # c => rv'[e] = rv[e]
    BY <1>T, <2>1 DEF Write, Change
  <2>4. \A e \in Distributors : Gone(e) => Gone(e)'
    <3>1. CASE watch' = watch
      BY <3>1 DEF Gone
    <3>. QED
      BY <1>K, <2>1, <2>3, <3>1
  <2>5. \A d \in Distributors : Added(d) => Added(d)'
    <3>1. CASE Return(t)
      <4>1. notes' = notes \/ (t = "listener" /\ notes' = Tail(notes) /\ notes # <<>>)
        BY <2>1, <3>1, ReturnFacts DEF Threads
      <4>. QED
        BY <2>1, <4>1, ListenerNote
    <3>2. CASE notes' = notes
      BY <3>2 DEF Added
    <3>. QED
      BY <2>1, <3>1, <3>2
  <2>. QED
    BY <1>0, <2>1, <2>2, <2>3, <2>4, <2>5 DEF workqueue, process
<1>12. ASSUME NEW t \in Threads, UpdateFails(t), up'
      PROVE  \A d \in Distributors : rv'[d] # 0 => Coming(d)'
  <2>1. /\ up /\ t # "worker" /\ thread[t].step = "update" /\ Return(t)
        /\ UNCHANGED <<api, watch, store, workqueue, procs>>
    BY <1>12 DEF UpdateFails, Die
  <2>2. /\ thread'["worker"].key = thread["worker"].key
        /\ t = "listener" /\ notes' = Tail(notes) /\ notes # <<>>
    BY <2>1, ReturnFacts DEF Threads
  <2>3. \A d \in Distributors : Added(d) => Added(d)'
    BY <2>1, <2>2, ListenerNote
  <2>. QED
    BY <1>0, <2>1, <2>2, <2>3 DEF api, workqueue, Gone
<1>13. ASSUME Restart
      PROVE  \A d \in Distributors : rv'[d] # 0 => Coming(d)'
  BY <1>13, RestartNotes DEF Restart, api
<1>. QED
  BY <1>0, <1>1, <1>2, <1>3, <1>4, <1>5, <1>6, <1>7, <1>8, <1>9, <1>10, <1>11, <1>12, <1>13
  DEF ControllerNext, Users, Controller, rebalance
-----------------------------------------------------------------------------
(* The work that is left.                                                  *)

(* A note of a deletion that the listener has not begun with.              *)
Waiting(i) == notes[i].type = "delete" /\ (i > 1 \/ thread["listener"].step = "idle")

(* A creation or a deletion leaves work.                                   *)
LEMMA WorkAfterUsers ==
    ASSUME TypesInv, VersionsInv, Users, up
    PROVE  Work'
<1>0. rv \in [Distributors -> Nat] /\ lastRv \in [Distributors -> Nat] /\ watch \in Seq(Change)
  BY DEF TypesInv, StateType
<1>1. ASSUME NEW d \in Distributors, CreateDistributor(d) PROVE Work'
  <2>1. /\ rv[d] = 0 /\ rv'[d] # 0 /\ store' = store
        /\ [name |-> d, rv |-> lastRv[d] + 1] \in Change
        /\ watch' = Append(watch, [name |-> d, rv |-> lastRv[d] + 1])
    BY <1>0, <1>1 DEF CreateDistributor, Write, Change
  <2>2. ToSet(watch) \subseteq ToSet(watch')
    BY <1>0, <2>1, AppendElements
  <2>3. store[d] = 0 \/ Gone(d)
    BY <2>1, FreeName
  <2>. QED
    BY <2>1, <2>2, <2>3 DEF Work, Gone
<1>2. ASSUME NEW d \in Distributors, DeleteDistributor(d) PROVE Work'
  <2>1. /\ [name |-> d, rv |-> 0] \in Change
        /\ watch' = Append(watch, [name |-> d, rv |-> 0])
    BY <1>2 DEF DeleteDistributor, Change
  <2>2. [name |-> d, rv |-> 0] \in ToSet(watch')
    BY <1>0, <2>1, AppendElements
  <2>. QED
    BY <2>2 DEF Work
<1>. QED
  BY <1>1, <1>2 DEF Users

(* The informer, the handlers and the worker pass work on, and a rebalance *)
(* that has begun leaves it where it is.                                   *)
LEMMA WorkKept ==
    ASSUME TypesInv, TypesInv', VersionsInv, Work,
           \/ Receive \/ DistributorAddFunc \/ deleteDistributor
           \/ processNextItem \/ StartProcess \/ (\E d \in Distributors : Retry(d))
           \/ (\E t \in Threads : SetRange(t) \/ Update(t))
    PROVE  Work'
<1> DEFINE Queued(d) == Added(d) \/ d \in ToSet(queue) \/ d \in again
<1>0. \/ \E d \in Distributors : Gone(d)
      \/ \E d \in Distributors : store[d] = 0 /\ rv[d] # 0
      \/ \E i \in 1..Len(notes) : Waiting(i)
      \/ \E t \in Threads : thread[t].step = "list"
      \/ \E d \in Distributors : rv[d] # 0 /\ Queued(d)
  BY DEF Work, Gone, Waiting
<1>W. /\ \A d \in Distributors : Gone(d)' => Work'
      /\ \A d \in Distributors : store'[d] = 0 /\ rv'[d] # 0 => Work'
      /\ \A i \in 1..Len(notes') : Waiting(i)' => Work'
      /\ \A t \in Threads : thread'[t].step = "list" => Work'
      /\ \A d \in Distributors : rv'[d] # 0 /\ Queued(d)' => Work'
  BY DEF Work, Gone, Waiting
<1>1. ASSUME Receive PROVE Work'
  <2> DEFINE e == Head(watch)
  <2>1. /\ up /\ e.name \in Distributors /\ e.rv \in Nat
        /\ ToSet(watch) = {e} \cup ToSet(watch')
        /\ \A d \in Distributors : store'[d] = IF d = e.name THEN e.rv ELSE store[d]
        /\ \A d \in Distributors : Added(d) => Added(d)'
        /\ \A d \in Distributors : d = e.name /\ e.rv # 0 /\ store[d] = 0 => Added(d)'
        /\ Len(notes) \in Nat /\ Len(notes') >= Len(notes) /\ Len(notes') \in Nat
        /\ \A i \in 1..Len(notes) : notes'[i] = notes[i]
        /\ e.rv = 0 => /\ Len(notes') = Len(notes) + 1
                       /\ notes'[Len(notes) + 1].type = "delete"
        /\ UNCHANGED <<api, workqueue, thread>>
    BY <1>1, ReceiveFacts
  <2> HIDE DEF e
  <2>2. rv' = rv /\ queue' = queue /\ again' = again /\ thread' = thread
    BY <2>1 DEF api, workqueue
  <2>3. ASSUME NEW d \in Distributors, Gone(d) PROVE Work'
    <3>1. CASE [name |-> d, rv |-> 0] = e
      <4>1. e.rv = 0
        BY <3>1
      <4>2. Len(notes) + 1 > 1 \/ thread["listener"].step = "idle"
        <5>1. CASE Len(notes) = 0
          <6>1. notes = <<>>
            BY <5>1 DEF TypesInv, StateType
          <6>. QED
            BY <6>1 DEF TypesInv, ThreadsInv
        <5>2. CASE Len(notes) # 0
          BY <2>1, <5>2
        <5>. QED
          BY <5>1, <5>2
      <4>3. Len(notes) + 1 \in 1..Len(notes')
        BY <2>1, <4>1
      <4>4. PICK n : n = Len(notes) + 1
        OBVIOUS
      <4>5. Waiting(n)' /\ n \in 1..Len(notes')
        BY <2>1, <2>2, <4>1, <4>2, <4>3, <4>4 DEF Waiting
      <4>. QED
        BY <1>W, <4>5
    <3>2. CASE [name |-> d, rv |-> 0] # e
      BY <1>W, <2>1, <2>3, <3>2 DEF Gone
    <3>. QED
      BY <3>1, <3>2
  <2>4. ASSUME NEW d \in Distributors, store[d] = 0, rv[d] # 0 PROVE Work'
    <3>1. CASE d = e.name /\ e.rv # 0
      BY <1>W, <2>1, <2>2, <2>4, <3>1
    <3>2. CASE ~(d = e.name /\ e.rv # 0)
      <4>1. store'[d] = 0
        BY <2>1, <2>4, <3>2
      <4>. QED
        BY <1>W, <2>2, <2>4, <4>1
    <3>. QED
      BY <3>1, <3>2
  <2>5. ASSUME NEW i \in 1..Len(notes), Waiting(i) PROVE Work'
    <3>1. i \in 1..Len(notes') /\ notes'[i] = notes[i]
      BY <2>1
    <3>2. Waiting(i)'
      BY <2>2, <2>5, <3>1 DEF Waiting
    <3>. QED
      BY <1>W, <3>1, <3>2
  <2>. QED
    BY <1>0, <1>W, <2>1, <2>2, <2>3, <2>4, <2>5
<1>2. ASSUME DistributorAddFunc PROVE Work'
  <2>1. /\ up /\ thread["listener"].step = "idle"
        /\ ToSet(queue) \subseteq ToSet(queue') /\ again \subseteq again'
        /\ \A d \in Distributors : Added(d) => Added(d)' \/ d \in ToSet(queue') \/ d \in again'
        /\ \A i \in 1..Len(notes) : notes[i].type = "delete" =>
                  i - 1 \in 1..Len(notes') /\ notes'[i - 1] = notes[i]
        /\ UNCHANGED <<api, watch, store, thread>>
    BY <1>2, AddFacts
  <2>2. rv' = rv /\ store' = store /\ thread' = thread /\ watch' = watch
    BY <2>1 DEF api
  <2>3. ASSUME NEW i \in 1..Len(notes), Waiting(i) PROVE Work'
    <3>1. PICK n : n = i - 1
      OBVIOUS
    <3>2. Waiting(n)' /\ n \in 1..Len(notes')
      BY <2>1, <2>2, <2>3, <3>1 DEF Waiting
    <3>. QED
      BY <1>W, <3>2
  <2>. QED
    BY <1>0, <1>W, <2>1, <2>2, <2>3 DEF Gone
<1>3. ASSUME deleteDistributor PROVE Work'
  <2>1. thread'["listener"].step = "list"
    BY <1>3 DEF deleteDistributor, TypesInv, ThreadsInv, Threads, ThreadType
  <2>. QED
    BY <1>W, <2>1 DEF Threads
<1>4. ASSUME processNextItem PROVE Work'
  <2>1. /\ Head(queue) \in Distributors
        /\ ToSet(queue) = {Head(queue)} \cup ToSet(queue')
        /\ store[Head(queue)] = 0 => thread' = thread
        /\ store[Head(queue)] # 0 => thread'["worker"].step = "list"
        /\ UNCHANGED <<api, informer, again>>
    BY <1>4, TakeFacts
  <2>2. CASE store[Head(queue)] # 0
    BY <1>W, <2>1, <2>2 DEF Threads
  <2>3. CASE store[Head(queue)] = 0
    <3>1. /\ thread' = thread /\ rv' = rv /\ store' = store /\ watch' = watch
          /\ notes' = notes /\ again' = again
      BY <2>1, <2>3 DEF api, informer
    <3>2. ASSUME NEW d \in Distributors, rv[d] # 0, Queued(d) PROVE Work'
      <4>1. CASE d = Head(queue)
        BY <1>W, <2>3, <3>1, <3>2, <4>1
      <4>2. CASE d # Head(queue)
        <5>1. Queued(d)'
          BY <2>1, <3>1, <3>2, <4>2 DEF Added
        <5>. QED
          BY <1>W, <3>1, <3>2, <5>1
      <4>. QED
        BY <4>1, <4>2
    <3>. QED
      BY <1>0, <1>W, <3>1, <3>2 DEF Gone, Waiting
  <2>. QED
    BY <2>2, <2>3
<1>5. ASSUME StartProcess PROVE Work'
  <2>1. /\ ToSet(queue') = ToSet(queue) \cup again
        /\ thread'["listener"] = thread["listener"]
        /\ thread["worker"].step = "start"
        /\ UNCHANGED <<api, informer>>
    BY <1>5, StartFacts
  <2>2. rv' = rv /\ store' = store /\ watch' = watch /\ notes' = notes
    BY <2>1 DEF api, informer
  <2>3. ASSUME NEW t \in Threads, thread[t].step = "list" PROVE Work'
    BY <1>W, <2>1, <2>3 DEF Threads
  <2>4. ASSUME NEW d \in Distributors, rv[d] # 0, Queued(d) PROVE Work'
    <3>1. Queued(d)'
      BY <2>1, <2>2, <2>4 DEF Added
    <3>. QED
      BY <1>W, <2>2, <2>4, <3>1
  <2>. QED
    BY <1>0, <1>W, <2>1, <2>2, <2>3, <2>4 DEF Gone, Waiting
<1>6. ASSUME NEW c \in Distributors, Retry(c) PROVE Work'
  <2>1. /\ UNCHANGED <<api, informer, thread>>
        /\ ToSet(queue) \subseteq ToSet(queue') /\ again \subseteq again'
    BY <1>6, EnqueueTyped DEF Retry
  <2>2. rv' = rv /\ store' = store /\ watch' = watch /\ notes' = notes /\ thread' = thread
    BY <2>1 DEF api, informer
  <2>. QED
    BY <1>0, <1>W, <2>1, <2>2 DEF Gone, Waiting, Added
<1>7. ASSUME NEW t \in Threads, SetRange(t) PROVE Work'
  <2>1. UNCHANGED <<api, informer, workqueue>> /\ thread[t].step = "set"
    BY <1>7 DEF SetRange
  <2>2. /\ rv' = rv /\ store' = store /\ watch' = watch /\ notes' = notes
        /\ queue' = queue /\ again' = again
    BY <2>1 DEF api, informer, workqueue
  <2>3. \A u \in Threads : u # t => thread'[u].step = thread[u].step
    BY <1>7, SetRangeFacts
  <2>. QED
    BY <1>0, <1>W, <2>1, <2>2, <2>3 DEF Gone, Waiting, Added, Threads
<1>8. ASSUME NEW t \in Threads, Update(t) PROVE Work'
  <2> DEFINE c == Head(thread[t].list)[1]
  <2>0. /\ rv \in [Distributors -> Nat] /\ lastRv \in [Distributors -> Nat]
        /\ watch \in Seq(Change)
    BY DEF TypesInv, StateType
  <2>1. /\ c \in Distributors /\ up /\ rv[c] = Head(thread[t].list)[2]
        /\ \/ UNCHANGED <<rv, watch>>
           \/ \E a, b \in thread[t].value : Write(c, <<a[1], b[2]>>)
        /\ thread[t].step = "update"
        /\ \A u \in Threads : u # t => thread'[u] = thread[u]
        /\ Return(t) \/ (notes' = notes /\ thread'[t].step = "set")
        /\ UNCHANGED <<store, workqueue>>
        /\ Head(thread[t].list) \in Pointers(t)
    BY <1>8, UpdateFacts, PointersAfter DEF Sent
  <2>2. rv[c] # 0
    BY <2>1 DEF VersionsInv
  <2> HIDE DEF c
  <2>3. /\ watch' = watch \/ watch' = Append(watch, [name |-> c, rv |-> lastRv[c] + 1])
        /\ [name |-> c, rv |-> lastRv[c] + 1] \in Change
        /\ \A e \in Distributors : e # c => rv'[e] = rv[e]
        /\ rv'[c] # 0
    BY <2>0, <2>1, <2>2 DEF Write, Change
  <2>4. ToSet(watch) \subseteq ToSet(watch')
    <3>1. CASE watch' = watch
      BY <3>1
    <3>2. CASE watch' = Append(watch, [name |-> c, rv |-> lastRv[c] + 1])
      BY <2>0, <2>3, <3>2, AppendElements
    <3>. QED
      BY <2>3, <3>1, <3>2
  <2>5. /\ \A d \in Distributors : rv[d] # 0 => rv'[d] # 0
        /\ store' = store /\ queue' = queue /\ again' = again
    BY <2>1, <2>3 DEF workqueue
  <2>6. /\ \A d \in Distributors : Added(d) => Added(d)'
        /\ \A i \in 1..Len(notes) : Waiting(i) => Work'
    <3>1. CASE Return(t)
      <4>1. /\ t = "worker" => notes' = notes
            /\ t = "listener" => /\ notes' = Tail(notes) /\ notes # <<>>
                                 /\ thread'["listener"].step = "idle"
        BY <2>1, <3>1, ReturnFacts
      <4>2. CASE t = "worker"
        <5>1. notes' = notes /\ thread'["listener"] = thread["listener"]
          BY <2>1, <4>1, <4>2 DEF Threads
        <5>. QED
          BY <1>W, <5>1 DEF Added, Waiting
      <4>3. CASE t = "listener"
        <5>1. /\ \A d \in Distributors : Added(d) => Added(d)'
              /\ notes' # notes =>
                    \A i \in 1..Len(notes) : i > 1 =>
                        i - 1 \in 1..Len(notes') /\ notes'[i - 1] = notes[i]
          BY <2>1, <4>1, <4>3, ListenerNote
        <5>2. notes \in Seq(Note)
          BY DEF TypesInv, StateType
        <5>3. notes' # notes
          BY <4>1, <4>3, <5>2, TailElements
        <5>4. ASSUME NEW i \in 1..Len(notes), Waiting(i) PROVE Work'
          <6>1. i > 1
            BY <2>1, <4>3, <5>4 DEF Waiting
          <6>2. PICK n : n = i - 1
            OBVIOUS
          <6>3. n \in 1..Len(notes') /\ notes'[n] = notes[i]
            BY <5>1, <5>3, <6>1, <6>2
          <6>4. Waiting(n)'
            BY <4>1, <4>3, <5>4, <6>3 DEF Waiting
          <6>. QED
            BY <1>W, <6>3, <6>4
        <5>. QED
          BY <5>1, <5>4
      <4>. QED
        BY <4>2, <4>3 DEF Threads
    <3>2. CASE notes' = notes /\ thread'[t].step = "set"
      <4>1. thread'["listener"].step = "idle" <=> thread["listener"].step = "idle"
        BY <2>1, <3>2 DEF Threads
      <4>. QED
        BY <1>W, <3>2, <4>1 DEF Added, Waiting
    <3>. QED
      BY <2>1, <3>1, <3>2
  <2>7. ASSUME NEW u \in Threads, thread[u].step = "list" PROVE Work'
    BY <1>W, <2>1, <2>7
  <2>8. ASSUME NEW d \in Distributors, rv[d] # 0, Queued(d) PROVE Work'
    BY <1>W, <2>5, <2>6, <2>8
  <2>. QED
    BY <1>0, <1>W, <2>4, <2>5, <2>6, <2>7, <2>8 DEF Gone
<1>. QED
  BY <1>1, <1>2, <1>3, <1>4, <1>5, <1>6, <1>7, <1>8
-----------------------------------------------------------------------------
(* Rebalances that run at the same time.                                   *)

(* A new version of an object makes no pointer current.                    *)
LEMMA DoomedStays ==
    ASSUME TypesInv, VersionsInv, NEW d \in Distributors, NEW v \in Nat,
           v = lastRv[d] + 1 \/ v = 0, rv' = [rv EXCEPT ![d] = v],
           NEW t \in Threads, NEW p \in Pointers(t), ~IsCurrent(p) \/ p[1] = d
    PROVE  ~IsCurrent(p)'
<1>1. p[1] \in Distributors /\ p[2] \in Nat /\ rv \in [Distributors -> Nat]
      /\ lastRv[d] \in Nat
  BY PointersTyped DEF TypesInv, StateType
<1>2. p[2] # 0 /\ p[2] <= lastRv[p[1]]
  BY DEF VersionsInv
<1>. QED
  BY <1>1, <1>2 DEF IsCurrent

(* After a successful Update of t, a rebalance that will fail still will,  *)
(* and of two that share a pointer the other one will fail now, or they    *)
(* share it still, or the Update changed nothing and went unnoticed.       *)
LEMMA UpdateRaces ==
    ASSUME TypesInv, TypesInv', VersionsInv, NEW t \in Threads, Update(t)
    PROVE  /\ \A u \in Threads : Doomed(u) => Doomed(u)'
           /\ Shared => Shared' \/ unnoticed' \/ \E u \in Threads : u # t /\ Doomed(u)'
           /\ unnoticed => unnoticed'
<1> DEFINE p == Head(thread[t].list)
<1>1. p[1] \in Distributors /\ rv[p[1]] = p[2] /\ \E r : Sent(t, p, r)
  BY UpdateFacts
<1>2. /\ Pointers(t) = {p} \cup Pointers(t)'
      /\ \A u \in Threads : u # t => Pointers(u)' = Pointers(u)
  BY PointersAfter
<1> HIDE DEF p
<1>3. /\ lastRv[p[1]] + 1 \in Nat /\ (unnoticed => unnoticed')
      /\ \/ rv' = [rv EXCEPT ![p[1]] = lastRv[p[1]] + 1]
         \/ rv' = rv /\ ((\E u \in Threads : u # t /\ p \in Pointers(u)) => unnoticed')
  <2>1. PICK r : Sent(t, p, r)
    BY <1>1
  <2>0. lastRv \in [Distributors -> Nat]
    BY DEF TypesInv, StateType
  <2>2. lastRv[p[1]] + 1 \in Nat
    BY <1>1, <2>0
  <2>3. CASE Write(p[1], r)
    BY <2>1, <2>2, <2>3 DEF Sent, Write
  <2>4. CASE ~Write(p[1], r)
    <3>1. /\ unnoticed => unnoticed'
          /\ UNCHANGED <<rv, range, lastRv, watch>>
          /\ (\E u \in Threads : u # t /\ p \in Pointers(u)) => unnoticed'
      BY <2>1, <2>4 DEF Sent
    <3>. QED
      BY <2>2, <3>1
  <2>. QED
    BY <2>3, <2>4
<1>C. ASSUME rv' = [rv EXCEPT ![p[1]] = lastRv[p[1]] + 1],
             NEW u \in Threads, NEW q \in Pointers(u), ~IsCurrent(q) \/ q[1] = p[1]
      PROVE  ~IsCurrent(q)'
  BY <1>1, <1>3, <1>C, DoomedStays
<1>D. ASSUME NEW u \in Threads, NEW q \in Pointers(u), ~IsCurrent(q)
      PROVE  ~IsCurrent(q)'
  <2>1. CASE rv' = rv
    BY <1>D, <2>1 DEF IsCurrent
  <2>. QED
    BY <1>3, <1>C, <1>D, <2>1
<1>4. ASSUME NEW u \in Threads, Doomed(u) PROVE Doomed(u)'
  <2>1. PICK q \in Pointers(u) : ~IsCurrent(q)
    BY <1>4 DEF Doomed
  <2>2. q # p
    BY <1>1, <2>1 DEF IsCurrent
  <2>3. q \in Pointers(u)'
    BY <1>2, <2>1, <2>2
  <2>4. ~IsCurrent(q)'
    BY <1>D, <2>1
  <2>. QED
    BY <2>3, <2>4 DEF Doomed
<1>5. ASSUME Shared
      PROVE  Shared' \/ unnoticed' \/ \E u \in Threads : u # t /\ Doomed(u)'
  <2>1. PICK q : q \in Pointers("worker") /\ q \in Pointers("listener")
    BY <1>5 DEF Shared
  <2>2. CASE q = p
    <3>1. PICK u \in Threads : u # t
      BY DEF Threads
    <3>2. q \in Pointers(u) /\ q \in Pointers(u)'
      BY <1>2, <2>1, <3>1 DEF Threads
    <3>3. ASSUME ~unnoticed' PROVE ~IsCurrent(q)'
      BY <1>3, <1>C, <2>2, <3>1, <3>2, <3>3
    <3>. QED
      BY <3>1, <3>2, <3>3 DEF Doomed
  <2>3. CASE q # p
    <3>1. \A u \in Threads : q \in Pointers(u)'
      BY <1>2, <2>1, <2>3 DEF Threads
    <3>. QED
      BY <3>1 DEF Shared, Threads
  <2>. QED
    BY <2>2, <2>3
<1>. QED
  BY <1>3, <1>4, <1>5

(* A rebalance that begins while another one runs: it lists the pointers   *)
(* of the other one that are still current.                                *)
LEMMA ListRaces ==
    ASSUME TypesInv, TypesInv', VersionsInv, NEW t \in Threads, List(t),
           NEW u \in Threads, u # t, Busy(u)
    PROVE  Doomed(u)' \/ Shared'
<1>0. /\ Pointers(u)' = Pointers(u) /\ Pointers(u) # {}
      /\ Pointers(t)' = {<<d, store[d]>> : d \in {e \in Distributors : store[e] # 0}}
  BY PointersListed, PointersTyped
<1>1. PICK p \in Pointers(u) : TRUE
  BY <1>0
<1>2. rv' = rv
  BY DEF List, api
<1>3. CASE ~IsCurrent(p)
  BY <1>0, <1>1, <1>2, <1>3 DEF Doomed, IsCurrent
<1>4. CASE IsCurrent(p)
  <2>1. p \in Distributors \X Nat /\ store[p[1]] = p[2] /\ p[2] # 0
    BY <1>1, <1>4, PointersTyped DEF VersionsInv
  <2>2. p = <<p[1], store[p[1]]>> /\ p[1] \in Distributors /\ store[p[1]] # 0
    BY <2>1
  <2>3. p \in Pointers(t)' /\ p \in Pointers(u)'
    BY <1>0, <1>1, <2>2
  <2>. QED
    BY <2>3 DEF Shared, Threads
<1>. QED
  BY <1>3, <1>4

LEMMA PointersTypedNext ==
    ASSUME TypesInv', NEW t \in Threads
    PROVE  Busy(t)' <=> Pointers(t)' # {}
<1>1. /\ thread'[t].list \in Seq(Distributors \X Nat)
      /\ Busy(t)' <=> thread'[t].list # <<>>
  BY DEF TypesInv, ThreadsInv, ThreadType
<1>2. thread'[t].list = <<>> <=> ToSet(thread'[t].list) = {}
  <2> DEFINE q == thread'[t].list
             S == Distributors \X Nat
  <2>1. q \in Seq(S)
    BY <1>1
  <2> HIDE DEF q, S
  <2>2. q = <<>> <=> ToSet(q) = {}
    BY <2>1, ElementsAt
  <2>. QED
    BY <2>2 DEF q
<1>. QED
  BY <1>1, <1>2 DEF Pointers

(* Steps that leave the pointers and the versions alone.                   *)
LEMMA SamePointers ==
    ASSUME TypesInv, TypesInv', \A t \in Threads : Pointers(t)' = Pointers(t), rv' = rv
    PROVE  /\ \A t \in Threads : (Doomed(t)' <=> Doomed(t)) /\ (Busy(t)' <=> Busy(t))
           /\ Shared' <=> Shared
<1>1. \A t \in Threads : (Busy(t) <=> Pointers(t) # {}) /\ (Busy(t)' <=> Pointers(t)' # {})
  BY PointersTyped, PointersTypedNext
<1>2. \A t \in Threads : Doomed(t)' <=> Doomed(t)
  BY DEF Doomed, IsCurrent
<1>3. Shared' <=> Shared
  <2>1. Pointers("worker")' = Pointers("worker") /\ Pointers("listener")' = Pointers("listener")
    BY DEF Threads
  <2>. QED
    BY <2>1 DEF Shared
<1>4. \A t \in Threads : Busy(t)' <=> Busy(t)
  BY <1>1
<1>. QED
  BY <1>2, <1>3, <1>4

(* Which steps these are.                                                  *)
LEMMA QuietStep ==
    ASSUME TypesInv, TypesInv',
           \/ Receive \/ DistributorAddFunc \/ deleteDistributor
           \/ processNextItem \/ StartProcess \/ (\E d \in Distributors : Retry(d))
           \/ (\E t \in Threads : SetRange(t))
    PROVE  /\ \A t \in Threads : Pointers(t)' = Pointers(t)
           /\ UNCHANGED <<rv, range, up, unbalanced, unnoticed>>
<1>1. \A t \in Threads : thread'[t].list = thread[t].list
  <2>1. CASE Receive \/ DistributorAddFunc \/ (\E d \in Distributors : Retry(d))
    BY <2>1 DEF Receive, DistributorAddFunc, Retry
  <2>2. CASE deleteDistributor \/ processNextItem \/ StartProcess
    BY <2>2, TypesHandlers
  <2>3. CASE \E t \in Threads : SetRange(t)
    BY <2>3, SetRangeFacts
  <2>. QED
    BY <2>1, <2>2, <2>3
<1>2. UNCHANGED <<rv, range, up, unbalanced, unnoticed>>
  BY DEF Receive, DistributorAddFunc, deleteDistributor, processNextItem, StartProcess, Retry,
         SetRange, api, process, flaws
<1>. QED
  BY <1>1, <1>2 DEF Pointers

(* Of two rebalances at once one fails, whatever happens in between, but   *)
(* for an Update that went unnoticed.                                      *)
LEMMA RacesStep ==
    ASSUME TypesInv, TypesInv', VersionsInv, RacesInv, ControllerNext
    PROVE  RacesInv'
<1>B. \A t \in Threads : (Busy(t) <=> Pointers(t) # {}) /\ (Busy(t)' <=> Pointers(t)' # {})
  BY PointersTyped, PointersTypedNext
<1>1. ASSUME Users PROVE RacesInv'
  <2>1. PICK d \in Distributors : CreateDistributor(d) \/ DeleteDistributor(d)
    BY <1>1 DEF Users
  <2>2. thread' = thread /\ unnoticed' = unnoticed
    BY <2>1 DEF CreateDistributor, DeleteDistributor, flaws
  <2>3. \A t \in Threads : Pointers(t)' = Pointers(t)
    BY <2>2 DEF Pointers
  <2>4. PICK v \in Nat : (v = lastRv[d] + 1 \/ v = 0) /\ rv' = [rv EXCEPT ![d] = v]
    <3>0. lastRv \in [Distributors -> Nat]
      BY DEF TypesInv, StateType
    <3>1. lastRv[d] + 1 \in Nat
      BY <3>0
    <3>2. CASE CreateDistributor(d)
      BY <3>1, <3>2 DEF CreateDistributor, Write
    <3>3. CASE DeleteDistributor(d)
      BY <3>3 DEF DeleteDistributor
    <3>. QED
      BY <2>1, <3>2, <3>3
  <2>5. ASSUME NEW t \in Threads, Doomed(t) PROVE Doomed(t)'
    <3>1. PICK p \in Pointers(t) : ~IsCurrent(p)
      BY <2>5 DEF Doomed
    <3>2. ~IsCurrent(p)'
      BY <2>4, <3>1, DoomedStays
    <3>. QED
      BY <2>3, <3>1, <3>2 DEF Doomed
  <2>6. Shared => Shared'
    BY <2>3 DEF Shared, Threads
  <2>. QED
    BY <1>B, <2>2, <2>3, <2>5, <2>6 DEF RacesInv, Threads
<1>2. ASSUME \/ Receive \/ DistributorAddFunc \/ deleteDistributor
             \/ processNextItem \/ StartProcess \/ (\E d \in Distributors : Retry(d))
             \/ (\E t \in Threads : SetRange(t))
      PROVE  RacesInv'
  <2>1. (\A t \in Threads : Pointers(t)' = Pointers(t)) /\ UNCHANGED <<rv, unnoticed>>
    BY <1>2, QuietStep
  <2>2. /\ \A t \in Threads : (Doomed(t)' <=> Doomed(t)) /\ (Busy(t)' <=> Busy(t))
        /\ Shared' <=> Shared
    BY <2>1, SamePointers
  <2>. QED
    BY <2>1, <2>2 DEF RacesInv, Threads
<1>3. ASSUME NEW t \in Threads, List(t) PROVE RacesInv'
  <2>1. \A u \in Threads : u # t => (Busy(u)' <=> Busy(u))
    BY <1>3, <1>B, PointersListed
  <2>2. \A u \in Threads : u # t /\ Busy(u) => Doomed(u)' \/ Shared'
    BY <1>3, ListRaces
  <2>. QED
    BY <2>1, <2>2 DEF RacesInv, Threads
<1>4. ASSUME NEW t \in Threads, Update(t) PROVE RacesInv'
  <2>1. /\ \A u \in Threads : Doomed(u) => Doomed(u)'
        /\ Shared => Shared' \/ unnoticed' \/ \E u \in Threads : u # t /\ Doomed(u)'
        /\ unnoticed => unnoticed'
    BY <1>4, UpdateRaces
  <2>2. \A u \in Threads : Busy(u)' => Busy(u)
    BY <1>4, <1>B, PointersAfter
  <2>. QED
    BY <2>1, <2>2 DEF RacesInv, Threads
<1>5. ASSUME NEW t \in Threads, UpdateFails(t) PROVE RacesInv'
  <2>1. CASE t = "worker"
    <3>1. thread' = [u \in Threads |-> Rest]
      BY <1>5, <2>1 DEF UpdateFails, Die
    <3>2. ~Busy("worker")'
      BY <3>1, RestTyped DEF Busy, Threads
    <3>. QED
      BY <3>2 DEF RacesInv
  <2>2. CASE t # "worker"
    <3>1. t = "listener" /\ thread[t].step = "update" /\ Return(t)
      BY <1>5, <2>2 DEF UpdateFails, Threads
    <3>2. thread'["listener"].step = "idle"
      BY <3>1, ReturnFacts
    <3>. QED
      BY <3>2 DEF RacesInv, Busy
  <2>. QED
    BY <2>1, <2>2
<1>6. ASSUME Restart PROVE RacesInv'
  <2>1. thread' = thread /\ thread["worker"] = Rest
    BY <1>6 DEF Restart, TypesInv, ThreadsInv, Threads
  <2>. QED
    BY <2>1, RestTyped DEF RacesInv, Busy
<1>. QED
  BY <1>1, <1>2, <1>3, <1>4, <1>5, <1>6 DEF ControllerNext, Controller, rebalance
-----------------------------------------------------------------------------
(* Balance.                                                                *)

(* The ranges of a division, given to the distributors in some order,      *)
(* partition the hash keys.                                                *)
LEMMA DividedKeys ==
    ASSUME NEW n \in 1..(MaxKey + 1), NEW order \in [1..n -> Distributors],
           \A d \in Distributors : rv'[d] # 0 <=> \E i \in 1..n : order[i] = d,
           \A i \in 1..n : range'[order[i]] = EvenlyDivide(n, MaxKey)[i],
           NEW k \in Keys
    PROVE  \E d \in Distributors : Handlers(k)' = {d}
<1> DEFINE r == EvenlyDivide(n, MaxKey)
           In(e) == rv'[e] # 0 /\ range'[e][1] <= k /\ k <= range'[e][2]
<1>1. /\ \E j \in 1..n : r[j][1] <= k /\ k <= r[j][2]
      /\ \A i1, i2 \in 1..n :
             /\ r[i1][1] <= k /\ k <= r[i1][2]
             /\ r[i2][1] <= k /\ k <= r[i2][2]
             => i1 = i2
  BY RangesOfKeys
<1> HIDE DEF r
<1>2. PICK j \in 1..n : r[j][1] <= k /\ k <= r[j][2]
  BY <1>1
<1>3. order[j] \in Distributors /\ In(order[j])
  BY <1>2 DEF r
<1>4. ASSUME NEW e \in Distributors, In(e) PROVE e = order[j]
  <2>1. PICK i \in 1..n : order[i] = e
    BY <1>4
  <2>2. r[i][1] <= k /\ k <= r[i][2]
    BY <1>4, <2>1 DEF r
  <2>3. i = j
    BY <1>1, <1>2, <2>2
  <2>. QED
    BY <2>1, <2>3
<1>5. Handlers(k)' = {e \in Distributors : In(e)}
  BY DEF Handlers
<1> HIDE DEF In
<1>6. Handlers(k)' = {order[j]}
  BY <1>3, <1>4, <1>5
<1>. QED
  BY <1>3, <1>6

(* A rebalance that begins when the store is up to date is on track.       *)
LEMMA ListBalances ==
    ASSUME TypesInv, TypesInv', NEW t \in Threads, List(t), ~Work', ~Doomed(t)'
    PROVE  /\ Busy(t)' => OnTrack(t)'
           /\ ~Busy(t)' => Partitioned'
<1> DEFINE names == {d \in Distributors : store[d] # 0}
<1>0. /\ rv' = rv /\ store' = store /\ range' = range
      /\ store \in [Distributors -> Nat]
  BY DEF List, api, TypesInv, StateType
<1>1. \A d \in Distributors : store[d] = 0 => rv[d] = 0
  BY <1>0 DEF Work
<1>2. \A d \in Distributors : store[d] # 0 => rv[d] = store[d]
  <2> SUFFICES ASSUME NEW d \in Distributors, store[d] # 0 PROVE rv[d] = store[d]
    OBVIOUS
  <2>1. PICK p : p = <<d, store[d]>>
    OBVIOUS
  <2>2. p \in {<<e, store[e]>> : e \in {f \in Distributors : store[f] # 0}}
    BY <2>1
  <2>3. p \in Pointers(t)'
    BY <2>2, PointersListed
  <2>4. IsCurrent(p)'
    BY <2>3 DEF Doomed
  <2>5. rv[p[1]] = p[2]
    BY <1>0, <2>4 DEF IsCurrent
  <2>. QED
    BY <2>1, <2>5
<1>3. CASE names = {}
  <2>1. ~Exists'
    BY <1>0, <1>1, <1>3 DEF Exists
  <2>2. {<<d, store[d]>> : d \in names} = {}
    BY <1>3
  <2>3. Pointers(t)' = {}
    BY <2>2, PointersListed
  <2>. QED
    BY <2>1, <2>3, PointersTypedNext DEF Partitioned
<1>4. CASE names # {}
  <2>1. PICK order \in SetToSeqs(names) :
           /\ thread'[t].step = "set"
           /\ Len(thread'[t].list) = Len(order)
           /\ \A i \in 1..Len(order) : thread'[t].list[i] = <<order[i], store[order[i]]>>
           /\ thread'[t].ranges = EvenlyDivide(Len(order), MaxKey)
    BY <1>4, ListFacts
  <2>2. names \in SUBSET Distributors
    OBVIOUS
  <2>3. \A d \in Distributors : rv[d] # 0 <=> d \in names
    BY <1>1, <1>2
  <2> HIDE DEF names
  <2>4. /\ Len(order) \in 1..(MaxKey + 1)
        /\ order \in [1..Len(order) -> Distributors]
        /\ IsInjective(order)
        /\ \A d \in Distributors : d \in names <=> \E i \in 1..Len(order) : order[i] = d
    BY <1>4, <2>1, <2>2, ListedOrder
  <2>5. PICK n \in 1..(MaxKey + 1) : n = Len(order)
    BY <2>4
  <2>6. n \in Nat /\ 1 \in 1..n /\ n - 1 + 1 = n /\ (\A i \in 1..n : i + 1 - 1 = i /\ ~(i < 1))
    BY <2>5, ControllerAssumption
  <2>7. \A d \in Distributors : rv'[d] # 0 <=> \E i \in 1..n : order[i] = d
    BY <1>0, <2>3, <2>4, <2>5
  <2>8. \A i \in 1..n : /\ thread'[t].list[i][1] = order[i + 1 - 1]
                        /\ thread'[t].ranges[i] = EvenlyDivide(n, MaxKey)[i + 1 - 1]
    BY <2>1, <2>5, <2>6
  <2>9. Track(t, n, order, 1)'
    BY <2>1, <2>4, <2>5, <2>6, <2>7, <2>8 DEF Track
  <2>10. Pointers(t)' # {}
    <3>1. {<<d, store[d]>> : d \in names} # {}
      BY <1>4
    <3>. QED
      BY <3>1, PointersListed DEF names
  <2>11. OnTrack(t)'
    BY <2>4, <2>5, <2>6, <2>9 DEF OnTrack
  <2>. QED
    BY <2>10, <2>11, PointersTypedNext
<1>. QED
  BY <1>3, <1>4

(* A rebalance that is on track stays on it, and partitions the hash keys  *)
(* with its last Update.                                                   *)
LEMMA UpdateBalances ==
    ASSUME TypesInv, TypesInv', VersionsInv, NEW t \in Threads, Update(t), OnTrack(t)
    PROVE  /\ Busy(t)' => OnTrack(t)'
           /\ ~Busy(t)' => Partitioned'
<1> DEFINE p == Head(thread[t].list)
<1>1. PICK n \in 1..(MaxKey + 1) : \E o \in [1..n -> Distributors], i \in 1..n :
          Track(t, n, o, i)
  BY DEF OnTrack
<1>2. PICK order \in [1..n -> Distributors], j \in 1..n : Track(t, n, order, j)
  BY <1>1
<1>3. n \in Nat /\ j \in Nat /\ 1 <= j /\ j <= n /\ n - j + 1 \in Nat /\ 1 \in 1..(n - j + 1)
  BY <1>1, <1>2, ControllerAssumption
<1>4. /\ p[1] \in Distributors /\ thread[t].step = "update" /\ up
      /\ thread[t].list # <<>> /\ thread[t].ranges # <<>>
      /\ \E a, b \in thread[t].value : Sent(t, p, <<a[1], b[2]>>)
      /\ rv[p[1]] = p[2] /\ p \in Pointers(t)
      /\ \/ Len(thread[t].list) = 1 /\ Return(t)
         \/ /\ Len(thread[t].list) > 1 /\ thread'[t].step = "set"
            /\ thread'[t].list = Tail(thread[t].list)
            /\ thread'[t].ranges = Tail(thread[t].ranges)
  BY UpdateFacts, PointersAfter
<1>5. /\ thread[t].list \in Seq(Distributors \X Nat) /\ thread[t].ranges \in Seq(Ranges)
      /\ Len(thread[t].ranges) = Len(thread[t].list)
  BY ThreadFields
<1>6. p = thread[t].list[1] /\ Head(thread[t].ranges) = thread[t].ranges[1]
      /\ Head(thread[t].ranges) \in Ranges
  BY <1>4, <1>5, TailElements
<1> HIDE DEF p
<1>7. p[1] = order[j] /\ thread[t].ranges[1] = EvenlyDivide(n, MaxKey)[j]
  <2>1. 1 + j - 1 = j
    BY <1>3
  <2>. QED
    BY <1>2, <1>3, <1>6, <2>1 DEF Track
<1>8. Sent(t, p, EvenlyDivide(n, MaxKey)[j])
  <2> DEFINE r == EvenlyDivide(n, MaxKey)[j]
  <2>1. thread[t].value = {r} /\ r \in Ranges
    BY <1>2, <1>4, <1>6, <1>7 DEF Track
  <2>2. PICK a \in thread[t].value, b \in thread[t].value : Sent(t, p, <<a[1], b[2]>>)
    BY <1>4
  <2> HIDE DEF r
  <2>3. a = r /\ b = r
    BY <2>1, <2>2
  <2>4. <<r[1], r[2]>> = r
    BY <2>1 DEF Ranges
  <2>. QED
    BY <2>2, <2>3, <2>4 DEF r
<1>9. /\ range'[p[1]] = EvenlyDivide(n, MaxKey)[j]
      /\ \A d \in Distributors : d # p[1] => range'[d] = range[d] /\ rv'[d] = rv[d]
      /\ rv'[p[1]] = rv[p[1]] \/ rv'[p[1]] = lastRv[p[1]] + 1
      /\ range \in [Distributors -> Ranges] /\ rv \in [Distributors -> Nat]
      /\ lastRv \in [Distributors -> Nat]
  BY <1>4, <1>8 DEF Sent, Write, TypesInv, StateType
<1>10. rv[p[1]] # 0
  BY <1>4 DEF VersionsInv
<1>11. \A d \in Distributors : rv'[d] # 0 <=> rv[d] # 0
  BY <1>4, <1>9, <1>10
<1>12. \A d \in Distributors : rv'[d] # 0 <=> \E i \in 1..n : order[i] = d
  BY <1>2, <1>11 DEF Track
<1>13. \A i \in 1..n : order[i] \in Distributors /\ (i # j => order[i] # order[j])
  BY <1>2 DEF Track, IsInjective
<1>14. \A i \in 1..n : i < j + 1 => range'[order[i]] = EvenlyDivide(n, MaxKey)[i]
  <2> SUFFICES ASSUME NEW i \in 1..n, i < j + 1
               PROVE  range'[order[i]] = EvenlyDivide(n, MaxKey)[i]
    OBVIOUS
  <2>1. CASE i = j
    BY <1>7, <1>9, <1>13, <2>1
  <2>2. CASE i # j
    <3>1. i < j
      BY <1>3, <2>2
    <3>2. range[order[i]] = EvenlyDivide(n, MaxKey)[i]
      BY <1>2, <3>1 DEF Track
    <3>. QED
      BY <1>7, <1>9, <1>13, <2>2, <3>2
  <2>. QED
    BY <2>1, <2>2
<1>15. Len(thread[t].list) = n - j + 1
  BY <1>2 DEF Track
<1>16. CASE Len(thread[t].list) = 1 /\ Return(t)
  <2>0. n - j + 1 = 1 => j = n /\ \A i \in 1..n : i < j + 1
    BY <1>3
  <2>1. j = n /\ \A i \in 1..n : i < j + 1
    BY <1>15, <1>16, <2>0
  <2>2. \A i \in 1..n : range'[order[i]] = EvenlyDivide(n, MaxKey)[i]
    BY <1>14, <2>1
  <2>3. ASSUME NEW k \in Keys
        PROVE  \E d \in Distributors : Handlers(k)' = {d}
    BY <1>12, <2>2, <2>3, DividedKeys
  <2>4. Pointers(t)' = {}
    BY <1>4, <1>16, PointersAfter
  <2>. QED
    BY <2>3, <2>4, PointersTypedNext DEF Partitioned
<1>17. CASE /\ Len(thread[t].list) > 1 /\ thread'[t].step = "set"
            /\ thread'[t].list = Tail(thread[t].list)
            /\ thread'[t].ranges = Tail(thread[t].ranges)
  <2>1. PICK m : m = j + 1
    OBVIOUS
  <2>2. m \in 1..n /\ n - m + 1 = n - j /\ m \in Nat
    BY <1>3, <1>15, <1>17, <2>1
  <2>3. /\ Len(Tail(thread[t].list)) = n - j
        /\ \A i \in 1..(n - j) : Tail(thread[t].list)[i] = thread[t].list[i + 1]
    <3>1. Len(Tail(thread[t].list)) = n - j
      BY <1>3, <1>4, <1>5, <1>15, TailElements
    <3>. QED
      BY <1>4, <1>5, <3>1, TailElements
  <2>4. \A i \in 1..(n - j) : Tail(thread[t].ranges)[i] = thread[t].ranges[i + 1]
    <3>1. Len(Tail(thread[t].ranges)) = n - j
      BY <1>3, <1>4, <1>5, <1>15, TailElements
    <3>. QED
      BY <1>4, <1>5, <3>1, TailElements
  <2>5. \A i \in 1..(n - j) : i + 1 \in 1..(n - j + 1) /\ (i + 1) + j - 1 = i + m - 1
    BY <1>3, <2>1, <2>2
  <2>6. \A i \in 1..(n - m + 1) :
           /\ thread'[t].list[i][1] = order[i + m - 1]
           /\ thread'[t].ranges[i] = EvenlyDivide(n, MaxKey)[i + m - 1]
    <3> SUFFICES ASSUME NEW i \in 1..(n - j)
                 PROVE  /\ thread'[t].list[i][1] = order[i + m - 1]
                        /\ thread'[t].ranges[i] = EvenlyDivide(n, MaxKey)[i + m - 1]
      BY <2>2
    <3>1. /\ thread'[t].list[i] = thread[t].list[i + 1]
          /\ thread'[t].ranges[i] = thread[t].ranges[i + 1]
      BY <1>17, <2>3, <2>4
    <3>2. PICK l \in 1..(n - j + 1) : l = i + 1 /\ l + j - 1 = i + m - 1
      BY <2>5
    <3>3. /\ thread[t].list[l][1] = order[l + j - 1]
          /\ thread[t].ranges[l] = EvenlyDivide(n, MaxKey)[l + j - 1]
      BY <1>2, <3>2 DEF Track
    <3>. QED
      BY <3>1, <3>2, <3>3
  <2>7. \A i \in 1..n : i < m => range'[order[i]] = EvenlyDivide(n, MaxKey)[i]
    BY <1>14, <2>1
  <2>8. IsInjective(order) /\ Len(thread'[t].list) = n - m + 1
    BY <1>2, <1>17, <2>2, <2>3 DEF Track
  <2>9. Track(t, n, order, m)'
    BY <1>12, <1>17, <2>6, <2>7, <2>8 DEF Track
  <2>10. OnTrack(t)'
    BY <1>1, <1>2, <2>2, <2>9 DEF OnTrack
  <2>11. Busy(t)'
    BY <1>17 DEF Busy
  <2>. QED
    BY <2>10, <2>11
<1>. QED
  BY <1>4, <1>16, <1>17

(* A thread that rebalances alone goes on with its list: the steps of the  *)
(* others leave it alone, and it sets the range it computed.               *)
LEMMA QuietThread ==
    ASSUME TypesInv, NEW t \in Threads, OnlyBusy(t),
           \/ Receive \/ DistributorAddFunc \/ deleteDistributor
           \/ processNextItem \/ StartProcess \/ (\E d \in Distributors : Retry(d))
           \/ (\E u \in Threads : SetRange(u))
    PROVE  /\ thread'[t].list = thread[t].list /\ thread'[t].ranges = thread[t].ranges
           /\ thread'[t].step = "update" =>
                  \/ thread[t].step = "update" /\ thread'[t].value = thread[t].value
                  \/ thread'[t].value = {Head(thread[t].ranges)}
<1>0. thread[t].step \in {"set", "update"} /\ (t = "worker" \/ t = "listener")
  BY DEF OnlyBusy, Busy, Threads
<1>1. ASSUME Receive \/ DistributorAddFunc \/ (\E d \in Distributors : Retry(d))
      PROVE  thread'[t] = thread[t]
  BY <1>1 DEF Receive, DistributorAddFunc, Retry
<1>2. ASSUME deleteDistributor PROVE thread'[t] = thread[t]
  <2>1. /\ thread["listener"].step = "idle"
        /\ thread' = [thread EXCEPT !["listener"].step = "list"]
        /\ thread \in [Threads -> ThreadType]
    BY <1>2 DEF deleteDistributor, TypesInv, ThreadsInv
  <2>. QED
    BY <1>0, <2>1
<1>3. ASSUME processNextItem \/ StartProcess PROVE thread'[t] = thread[t]
  <2>1. /\ thread["worker"].step \in {"idle", "start"}
        /\ thread'["listener"] = thread["listener"]
    BY <1>3, TakeFacts, StartFacts
  <2>. QED
    BY <1>0, <2>1
<1>4. ASSUME NEW u \in Threads, SetRange(u)
      PROVE  /\ thread'[t].list = thread[t].list /\ thread'[t].ranges = thread[t].ranges
             /\ thread'[t].value = {Head(thread[t].ranges)}
  <2>1. u = t
    BY <1>4 DEF SetRange, OnlyBusy, Busy
  <2>. QED
    BY <1>4, <2>1, SetRangeFacts
<1>5. CASE thread'[t] = thread[t]
  BY <1>5
<1>. QED
  BY <1>1, <1>2, <1>3, <1>4, <1>5

LEMMA QuietBalance ==
    ASSUME TypesInv, TypesInv', VersionsInv, BalanceInv,
           \/ Receive \/ DistributorAddFunc \/ deleteDistributor
           \/ processNextItem \/ StartProcess \/ (\E d \in Distributors : Retry(d))
           \/ (\E u \in Threads : SetRange(u))
    PROVE  BalanceInv'
<1>1. /\ \A t \in Threads : Pointers(t)' = Pointers(t)
      /\ UNCHANGED <<rv, range, up, unbalanced, unnoticed>>
  BY QuietStep
<1>2. \A t \in Threads : (Doomed(t)' <=> Doomed(t)) /\ (Busy(t)' <=> Busy(t))
  BY <1>1, SamePointers
<1> SUFFICES ASSUME Calm'
             PROVE  /\ (\A t \in Threads : ~Busy(t)') => Partitioned'
                    /\ \A t \in Threads : OnlyBusy(t)' => OnTrack(t)'
  BY DEF BalanceInv
<1>3. ~Work
  BY WorkKept DEF Calm
<1>4. Calm
  BY <1>1, <1>2, <1>3 DEF Calm
<1>5. ASSUME \A t \in Threads : ~Busy(t)' PROVE Partitioned'
  <2>1. Partitioned
    BY <1>2, <1>4, <1>5 DEF BalanceInv
  <2>. QED
    BY <1>1, <2>1 DEF Partitioned, Exists, Handlers
<1>6. ASSUME NEW t \in Threads, OnlyBusy(t)' PROVE OnTrack(t)'
  <2>1. OnlyBusy(t)
    BY <1>2, <1>6 DEF OnlyBusy
  <2>2. OnTrack(t)
    BY <1>4, <2>1 DEF BalanceInv
  <2>3. /\ thread'[t].list = thread[t].list /\ thread'[t].ranges = thread[t].ranges
        /\ thread'[t].step = "update" =>
               \/ thread[t].step = "update" /\ thread'[t].value = thread[t].value
               \/ thread'[t].value = {Head(thread[t].ranges)}
    BY <2>1, QuietThread
  <2>4. ASSUME NEW n, NEW order, NEW j, Track(t, n, order, j)
        PROVE  Track(t, n, order, j)'
    BY <1>1, <2>3, <2>4 DEF Track
  <2>. QED
    BY <2>2, <2>4 DEF OnTrack
<1>. QED
  BY <1>5, <1>6

(* With both threads rebalancing the invariant says nothing.               *)
LEMMA SharedBalance ==
    ASSUME TypesInv', Shared' PROVE BalanceInv'
<1>1. Pointers("worker")' # {} /\ Pointers("listener")' # {}
  BY DEF Shared
<1>2. Busy("worker")' /\ Busy("listener")'
  BY <1>1, PointersTypedNext DEF Threads
<1>. QED
  BY <1>2 DEF BalanceInv, OnlyBusy, Threads

LEMMA ListBalance ==
    ASSUME TypesInv, TypesInv', VersionsInv, NEW t \in Threads, List(t)
    PROVE  BalanceInv'
<1>1. CASE \E u \in Threads : u # t /\ Busy(u)
  <2>1. PICK u \in Threads : u # t /\ Busy(u)
    BY <1>1
  <2>2. Doomed(u)' \/ Shared'
    BY <2>1, ListRaces
  <2>. QED
    BY <2>1, <2>2, SharedBalance DEF BalanceInv, Calm
<1>2. CASE \A u \in Threads : u # t => ~Busy(u)
  <2>1. \A u \in Threads : u # t => ~Busy(u)'
    BY <1>2, PointersListed, PointersTyped, PointersTypedNext
  <2> SUFFICES ASSUME Calm'
               PROVE  /\ (\A u \in Threads : ~Busy(u)') => Partitioned'
                      /\ \A u \in Threads : OnlyBusy(u)' => OnTrack(u)'
    BY DEF BalanceInv
  <2>2. /\ Busy(t)' => OnTrack(t)'
        /\ ~Busy(t)' => Partitioned'
    BY ListBalances DEF Calm
  <2>. QED
    BY <2>1, <2>2 DEF OnlyBusy
<1>. QED
  BY <1>1, <1>2

LEMMA UpdateBalance ==
    ASSUME TypesInv, TypesInv', VersionsInv, RacesInv, BalanceInv,
           NEW t \in Threads, Update(t)
    PROVE  BalanceInv'
<1> SUFFICES ASSUME Calm' PROVE BalanceInv'
  BY DEF BalanceInv
<1>1. \A u \in Threads : ~Doomed(u)
  BY UpdateRaces DEF Calm
<1>2. ~Work
  BY WorkKept DEF Calm
<1>3. Calm
  BY <1>1, <1>2, UpdateRaces DEF Calm, Update, process
<1>4. Busy(t)
  BY DEF Update, Busy
<1>5. CASE \E u \in Threads : u # t /\ Busy(u)
  <2>1. Shared
    BY <1>1, <1>3, <1>4, <1>5 DEF RacesInv, Threads, Calm
  <2>2. Shared'
    BY <2>1, UpdateRaces DEF Calm
  <2>. QED
    BY <2>2, SharedBalance
<1>6. CASE \A u \in Threads : u # t => ~Busy(u)
  <2>1. OnTrack(t)
    BY <1>3, <1>4, <1>6 DEF BalanceInv, OnlyBusy
  <2>2. \A u \in Threads : u # t => ~Busy(u)'
    BY <1>6, PointersAfter, PointersTyped, PointersTypedNext
  <2>3. /\ Busy(t)' => OnTrack(t)'
        /\ ~Busy(t)' => Partitioned'
    BY <2>1, UpdateBalances
  <2>. QED
    BY <2>2, <2>3 DEF BalanceInv, OnlyBusy
<1>. QED
  BY <1>5, <1>6

(* A step that leaves the controller down, an error ignored or a rebalance *)
(* to come keeps the invariant, and a new controller has everything to do. *)
LEMMA BalanceStep ==
    ASSUME TypesInv, TypesInv', VersionsInv, RacesInv, BalanceInv, ControllerNext
    PROVE  BalanceInv'
<1>1. ASSUME Users PROVE BalanceInv'
  <2>1. up' = up
    BY <1>1 DEF Users, CreateDistributor, DeleteDistributor, process
  <2>2. up => Work'
    BY <1>1, WorkAfterUsers
  <2>. QED
    BY <2>1, <2>2 DEF BalanceInv, Calm
<1>2. ASSUME NEW t \in Threads, UpdateFails(t) PROVE BalanceInv'
  <2>1. ~up' \/ unbalanced'
    BY <1>2 DEF UpdateFails, Die
  <2>. QED
    BY <2>1 DEF BalanceInv, Calm
<1>3. ASSUME Restart PROVE BalanceInv'
  <2>1. ~up /\ thread' = thread /\ rv' = rv
    BY <1>3 DEF Restart, api
  <2>2. \A t \in Threads : thread'[t].step = "idle"
    BY <2>1 DEF TypesInv, ThreadsInv, Rest
  <2>3. ASSUME ~Work' PROVE ~Exists'
    <3>1. \A d \in Distributors : rv[d] # 0 => Added(d)'
      BY <1>3, RestartNotes
    <3>. QED
      BY <2>1, <2>3, <3>1 DEF Work, Exists
  <2>. QED
    BY <2>2, <2>3 DEF BalanceInv, Calm, OnlyBusy, Busy, Partitioned
<1>4. ASSUME NEW t \in Threads, rebalance(t) PROVE BalanceInv'
  BY <1>2, <1>4, ListBalance, UpdateBalance, QuietBalance DEF rebalance
<1>. QED
  BY <1>1, <1>3, <1>4, QuietBalance DEF ControllerNext, Controller
-----------------------------------------------------------------------------
DivisionInv == TypesInv /\ VersionsInv /\ StartedInv /\ RacesInv /\ BalanceInv

LEMMA DivisionInit == ControllerInit => DivisionInv
<1> SUFFICES ASSUME ControllerInit PROVE DivisionInv
  OBVIOUS
<1>1. TypesInv /\ VersionsInv
  BY TypesInit, VersionsInit
<1>2. /\ \A d \in Distributors : rv[d] = 0
      /\ \A t \in Threads : thread[t].step = "idle"
  BY DEF ControllerInit, Rest
<1>3. StartedInv
  BY <1>2 DEF StartedInv
<1>4. RacesInv
  BY <1>2 DEF RacesInv, Busy, Threads
<1>5. BalanceInv
  BY <1>2 DEF BalanceInv, OnlyBusy, Busy, Partitioned, Exists
<1>. QED
  BY <1>1, <1>3, <1>4, <1>5 DEF DivisionInv

LEMMA DivisionStutters ==
    ASSUME DivisionInv, UNCHANGED controllerVars PROVE DivisionInv'
<1>0. /\ UNCHANGED <<rv, range, lastRv, creates, deletions>>
      /\ UNCHANGED <<watch, store, notes, queue, again, delayed>>
      /\ UNCHANGED <<thread, procs, up, restarts, unbalanced, unnoticed>>
  BY DEF controllerVars, api, informer, workqueue, process, flaws
<1>1. TypesInv'
  BY <1>0 DEF DivisionInv, TypesInv, StateType, ThreadsInv, Busy
<1>2. VersionsInv'
  BY <1>0, SameVersions DEF DivisionInv, Pointers
<1>3. StartedInv'
  BY <1>0 DEF DivisionInv, StartedInv, Added
<1>4. \A t \in Threads : Pointers(t)' = Pointers(t)
  BY <1>0 DEF Pointers
<1>5. /\ \A t \in Threads : (Doomed(t)' <=> Doomed(t)) /\ (Busy(t)' <=> Busy(t))
      /\ Shared' <=> Shared
  BY <1>0, <1>1, <1>4, SamePointers DEF DivisionInv
<1>6. RacesInv'
  BY <1>0, <1>5 DEF DivisionInv, RacesInv, Threads
<1>7. BalanceInv'
  <2>1. Work' <=> Work
    BY <1>0 DEF Work, Added
  <2>2. Partitioned' <=> Partitioned
    BY <1>0 DEF Partitioned, Exists, Handlers
  <2>3. \A t \in Threads : OnTrack(t) => OnTrack(t)'
    <3>1. ASSUME NEW t \in Threads, NEW n, NEW order, NEW j, Track(t, n, order, j)
          PROVE  Track(t, n, order, j)'
      BY <1>0, <3>1 DEF Track
    <3>. QED
      BY <3>1 DEF OnTrack
  <2>4. Calm' <=> Calm
    BY <1>0, <1>5, <2>1 DEF Calm
  <2>. QED
    BY <1>5, <2>2, <2>3, <2>4 DEF DivisionInv, BalanceInv, OnlyBusy
<1>. QED
  BY <1>1, <1>2, <1>3, <1>6, <1>7 DEF DivisionInv

LEMMA DivisionInvariance == ControllerSpec => []DivisionInv
<1>1. DivisionInv /\ [ControllerNext]_controllerVars => DivisionInv'
  <2>1. ASSUME DivisionInv, ControllerNext PROVE DivisionInv'
    BY <2>1, TypesStep, VersionsStep, StartedStep, RacesStep, BalanceStep DEF DivisionInv
  <2>. QED
    BY <2>1, DivisionStutters
<1>. QED
  BY <1>1, DivisionInit, PTL DEF ControllerSpec

(* When the controller has handled every change, nothing is left to do and *)
(* no thread has a list.                                                   *)
LEMMA SettledIsCalm ==
    ASSUME DivisionInv, Settled
    PROVE  /\ ~Work /\ again = {} /\ \A t \in Threads : ~Busy(t) /\ ~Doomed(t)
           /\ ToSet(watch) = {} /\ ToSet(queue) = {} /\ ToSet(notes) = {}
           /\ \A d \in Distributors : store[d] = rv[d]
<1>1. /\ up /\ watch = <<>> /\ notes = <<>> /\ queue = <<>>
      /\ \A t \in Threads : thread[t].step = "idle"
      /\ thread["worker"].key = "none"
  BY DEF Settled, Rest, Threads
<1>2. again = {}
  BY <1>1, ControllerAssumption DEF DivisionInv, TypesInv, StateType, ThreadsInv
<1>3. \A t \in Threads : ~Busy(t) /\ Pointers(t) = {}
  BY <1>1, PointersTyped DEF Busy, DivisionInv
<1>4. \A t \in Threads : ~Doomed(t)
  BY <1>3 DEF Doomed
<1>5. ToSet(watch) = {} /\ ToSet(queue) = {} /\ ToSet(notes) = {}
  BY <1>1, EmptyElements
<1>6. 1..Len(watch) = {} /\ 1..Len(notes) = {}
  BY <1>1
<1>7. \A d \in Distributors : store[d] = rv[d]
  BY <1>1, <1>6 DEF DivisionInv, VersionsInv
<1>8. ~Work
  BY <1>1, <1>2, <1>5, <1>6, <1>7 DEF Work, Added
<1>. QED
  BY <1>2, <1>3, <1>4, <1>5, <1>7, <1>8

(* rebalance(): whatever the order in which worker and listener list and   *)
(* write the objects, and wherever they die, once every change is handled  *)
(* each hash key has exactly one distributor, for any set of distributors  *)
(* and any largest key that is not smaller than their number.              *)
THEOREM HashKeysArePartitioned == ControllerSpec => []HashKeysPartitioned
<1>1. DivisionInv => HashKeysPartitioned
  <2> SUFFICES ASSUME DivisionInv, Settled, Exists, ~unbalanced, ~unnoticed
               PROVE  \A k \in Keys : \E d \in Distributors : Handlers(k) = {d}
    BY DEF HashKeysPartitioned
  <2>1. Calm
    BY SettledIsCalm DEF Calm, Settled
  <2>2. Partitioned
    BY <2>1, SettledIsCalm DEF DivisionInv, BalanceInv
  <2>. QED
    BY <2>2 DEF Partitioned
<1>. QED
  BY <1>1, DivisionInvariance, PTL

(* The worker and its queue: keys are queued once, and when everything is  *)
(* handled every distributor has a process, also after the worker died     *)
(* before it started it.                                                   *)
THEOREM DistributorsAreStarted == ControllerSpec => []ControllerInv
<1>1. DivisionInv => ControllerInv
  <2> SUFFICES ASSUME DivisionInv PROVE ControllerInv
    OBVIOUS
  <2>1. ControllerTypeOK
    BY TypesGiveTypeOK DEF DivisionInv
  <2>2. ASSUME Settled, NEW d \in Distributors, rv[d] # 0 PROVE procs[d] > 0
    <3>1. /\ again = {} /\ ToSet(watch) = {} /\ ToSet(queue) = {} /\ ToSet(notes) = {}
          /\ store[d] = rv[d]
      BY <2>2, SettledIsCalm
    <3>2. up /\ thread["worker"].key # d
      BY <2>2, ControllerAssumption DEF Settled, Rest, Threads
    <3>. QED
      BY <2>2, <3>1, <3>2 DEF DivisionInv, StartedInv, Added
  <2>. QED
    BY <2>1, <2>2 DEF ControllerInv, EveryDistributorStarted
<1>. QED
  BY <1>1, DivisionInvariance, PTL
=============================================================================
