------------------------ MODULE DispatcherController ------------------------
(***************************************************************************)
(* The dispatcher controller (controllers/dispatcher/                      *)
(* dispatcher_controller.go).  It watches the Dispatcher and the Cluster   *)
(* objects of the API server with one informer each; every notification    *)
(* runs, under dc.mu, a handler that changes the controller's lists and    *)
(* then balances the cluster names among the dispatchers, writing one      *)
(* Dispatcher object after the other.  A write that fails ends the process *)
(* (klog.Fatalf); a new process starts from empty lists.                   *)
(*                                                                         *)
(* An object is identified by its name; uid tells a dispatcher from a      *)
(* later one with the same name.  An informer is modelled by what it has   *)
(* already notified: it notifies the addition of an object it has not      *)
(* seen, and the deletion of one it has seen and that is gone or replaced. *)
(***************************************************************************)
EXTENDS EvenlyDivide, Integers, FiniteSets

CONSTANTS Dispatchers,    \* names of dispatchers
          Clusters,       \* names of clusters; the numbers give their order
          MaxUid,         \* bound: dispatchers created
          MaxClusterChange,   \* bound: clusters created or deleted
          MaxRestart      \* bound: restarts of the controller

ASSUME ConstantsAssumption ==
    /\ Clusters \subseteq Nat
    /\ MaxUid \in Nat /\ MaxClusterChange \in Nat /\ MaxRestart \in Nat

VARIABLES
    apiClusters,    \* the Cluster objects of the API server
    apiUid,         \* uid of each Dispatcher object, 0 when there is none
    apiRange,       \* Spec.ClusterRange of each Dispatcher object, if there is one
    lastUid,        \* the last uid given out
    changes,        \* changes of clusters so far
    up, restarts,   \* whether the controller runs, how often it restarted
    seenClusters,   \* what the cluster informer has notified
    seenUid,        \* what the dispatcher informer has notified
    clusters,       \* dc.clusters, sorted
    dispatchers,    \* dc.dispatchers: names with the uid of the object held
    next,           \* under dc.mu: index of the next dispatcher balance()
                    \* writes; 0 when no handler runs
    adding,         \* under dc.mu: the dispatcher addDispatcher runs for
    started         \* uids a dispatcher_process was started for

apiVars == <<apiClusters, apiUid, apiRange, lastUid, changes>>
vars == <<apiVars, up, restarts, seenClusters, seenUid, clusters,
          dispatchers, next, adding, started>>

\* A cluster range; the zero DispatcherRange{} selects no cluster.
NoRange == <<>>
ClusterRanges == (Clusters \X Clusters) \cup {NoRange}

InRange(c, r) == r # NoRange /\ r[1] <= c /\ c <= r[2]

Nobody == [name |-> "", uid |-> 0]
Held == [name : Dispatchers, uid : 1..MaxUid]

TypeOK ==
    /\ apiClusters \subseteq Clusters /\ seenClusters \subseteq Clusters
    /\ apiUid \in [Dispatchers -> 0..MaxUid]
    /\ seenUid \in [Dispatchers -> 0..MaxUid]
    /\ apiRange \in [Dispatchers -> ClusterRanges]
    /\ lastUid \in 0..MaxUid /\ changes \in 0..MaxClusterChange
    /\ up \in BOOLEAN /\ restarts \in 0..MaxRestart
    /\ clusters \in Seq(Clusters)
    /\ dispatchers \in Seq(Held)
    /\ next \in 0..Len(dispatchers)
    /\ adding \in Held \cup {Nobody}
    /\ started \subseteq 1..MaxUid

Init ==
    /\ apiClusters = {} /\ lastUid = 0 /\ changes = 0
    /\ apiUid = [d \in Dispatchers |-> 0]
    /\ apiRange = [d \in Dispatchers |-> NoRange]
    /\ up = TRUE /\ restarts = 0
    /\ seenClusters = {} /\ seenUid = [d \in Dispatchers |-> 0]
    /\ clusters = <<>> /\ dispatchers = <<>>
    /\ next = 0 /\ adding = Nobody /\ started = {}
-----------------------------------------------------------------------------
(* The users of the API server (external).                                 *)

CreateDispatcher(d) ==
    /\ apiUid[d] = 0 /\ lastUid < MaxUid
    /\ lastUid' = lastUid + 1
    /\ apiUid' = [apiUid EXCEPT ![d] = lastUid + 1]
    /\ apiRange' = [apiRange EXCEPT ![d] = NoRange]
    /\ UNCHANGED <<apiClusters, changes, up, restarts, seenClusters, seenUid, clusters,
                   dispatchers, next, adding, started>>

RemoveDispatcher(d) ==
    /\ apiUid[d] # 0
    /\ apiUid' = [apiUid EXCEPT ![d] = 0]
    /\ apiRange' = [apiRange EXCEPT ![d] = NoRange]
    /\ UNCHANGED <<apiClusters, lastUid, changes, up, restarts, seenClusters, seenUid,
                   clusters, dispatchers, next, adding, started>>

ChangeCluster(c) ==
    /\ changes < MaxClusterChange /\ changes' = changes + 1
    /\ apiClusters' = IF c \in apiClusters THEN apiClusters \ {c}
                      ELSE apiClusters \cup {c}
    /\ UNCHANGED <<apiUid, apiRange, lastUid, up, restarts, seenClusters,
                   seenUid, clusters, dispatchers, next, adding, started>>
-----------------------------------------------------------------------------
(* The sorted array of cluster names (util.InsertIntoSortedArray,          *)
(* util.RemoveFromSortedArray).                                            *)

\* sort.SearchStrings: the number of entries that are smaller than s.
SearchStrings(ss, s) == Cardinality({k \in 1..Len(ss) : ss[k] < s})

InsertIntoSortedArray(ss, s) ==
    LET i == SearchStrings(ss, s)
    IN  [k \in 1..Len(ss) + 1 |-> IF k <= i THEN ss[k]
                                  ELSE IF k = i + 1 THEN s ELSE ss[k - 1]]

RemoveFromSortedArray(ss, s) ==
    LET i == SearchStrings(ss, s)
    IN  IF i < Len(ss) /\ ss[i + 1] = s
        THEN [k \in 1..Len(ss) - 1 |-> IF k <= i THEN ss[k] ELSE ss[k + 1]]
        ELSE ss
-----------------------------------------------------------------------------
(* balance().  It does nothing without dispatchers or without clusters;    *)
(* otherwise it writes every dispatcher of the list, in order.             *)

BalanceFrom(ds, cs) == IF Len(ds) = 0 \/ Len(cs) = 0 THEN 0 ELSE 1

\* The range balance() gives to the j-th dispatcher.
RangeFor(j) ==
    LET ranges == EvenlyDivide(Len(dispatchers), Len(clusters) - 1)
    IN  IF j <= Len(ranges)
        THEN <<clusters[ranges[j][1] + 1], clusters[ranges[j][2] + 1]>>
        ELSE NoRange

\* The handler returns and dc.mu is released; addDispatcher first starts
\* the dispatcher's process.
Finish ==
    /\ next' = 0 /\ adding' = Nobody
    /\ started' = started \cup ({adding.uid} \ {0})

\* One successful Update of balance().
UpdateDispatcher ==
    /\ up /\ next > 0
    /\ LET d == dispatchers[next] IN
        /\ apiUid[d.name] = d.uid
        /\ apiRange' = [apiRange EXCEPT ![d.name] = RangeFor(next)]
    /\ IF next < Len(dispatchers)
       THEN next' = next + 1 /\ UNCHANGED <<adding, started>>
       ELSE Finish
    /\ UNCHANGED <<apiClusters, apiUid, lastUid, changes, up, restarts, seenClusters,
                   seenUid, clusters, dispatchers>>

\* klog.Fatalf: the object is gone or replaced, or the API server fails.
\* What the process held is gone with it.
Fatal ==
    /\ up /\ next > 0
    /\ up' = FALSE
    /\ seenClusters' = {} /\ seenUid' = [d \in Dispatchers |-> 0]
    /\ clusters' = <<>> /\ dispatchers' = <<>>
    /\ next' = 0 /\ adding' = Nobody
    /\ UNCHANGED <<apiVars, restarts, started>>

\* A new controller process, whose informers notify every object again.
Restart ==
    /\ ~up /\ restarts < MaxRestart
    /\ up' = TRUE /\ restarts' = restarts + 1
    /\ UNCHANGED <<apiVars, seenClusters, seenUid, clusters, dispatchers, next,
                   adding, started>>
-----------------------------------------------------------------------------
(* The handlers.  Each takes dc.mu, changes a list and starts balance().   *)

Idle == up /\ next = 0

addDispatcher(d) ==
    /\ Idle /\ seenUid[d] = 0 /\ apiUid[d] # 0
    /\ LET h == [name |-> d, uid |-> apiUid[d]] IN
        /\ dispatchers' = Append(dispatchers, h)
        /\ next' = BalanceFrom(dispatchers', clusters)
        /\ IF next' = 0
           THEN adding' = Nobody /\ started' = started \cup {h.uid}
           ELSE adding' = h /\ UNCHANGED started
    /\ seenUid' = [seenUid EXCEPT ![d] = apiUid[d]]
    /\ UNCHANGED <<apiVars, up, restarts, seenClusters, clusters>>

\* The entry takes the place of the removed one: the last entry of the list.
RemoveFromList(ds, d) ==
    LET idx == CHOOSE k \in 1..Len(ds) :
                   ds[k].name = d /\ \A l \in 1..(k - 1) : ds[l].name # d
    IN  IF \E k \in 1..Len(ds) : ds[k].name = d
        THEN [k \in 1..Len(ds) - 1 |-> IF k = idx THEN ds[Len(ds)] ELSE ds[k]]
        ELSE ds

\* Mutant of deleteDispatcher: the clusters are not balanced again.
deleteDispatcherUnbalanced(d) ==
    /\ Idle /\ seenUid[d] # 0 /\ apiUid[d] # seenUid[d]
    /\ dispatchers' = RemoveFromList(dispatchers, d)
    /\ seenUid' = [seenUid EXCEPT ![d] = 0]
    /\ UNCHANGED <<apiVars, up, restarts, seenClusters, clusters, next, adding,
                   started>>

deleteDispatcher(d) ==
    /\ Idle /\ seenUid[d] # 0 /\ apiUid[d] # seenUid[d]
    /\ dispatchers' = RemoveFromList(dispatchers, d)
    /\ next' = BalanceFrom(dispatchers', clusters)
    /\ seenUid' = [seenUid EXCEPT ![d] = 0]
    /\ UNCHANGED <<apiVars, up, restarts, seenClusters, clusters, adding,
                   started>>

addCluster(c) ==
    /\ Idle /\ c \in apiClusters \ seenClusters
    /\ clusters' = InsertIntoSortedArray(clusters, c)
    /\ next' = BalanceFrom(dispatchers, clusters')
    /\ seenClusters' = seenClusters \cup {c}
    /\ UNCHANGED <<apiVars, up, restarts, seenUid, dispatchers, adding,
                   started>>

deleteCluster(c) ==
    /\ Idle /\ c \in seenClusters \ apiClusters
    /\ clusters' = RemoveFromSortedArray(clusters, c)
    /\ next' = BalanceFrom(dispatchers, clusters')
    /\ seenClusters' = seenClusters \ {c}
    /\ UNCHANGED <<apiVars, up, restarts, seenUid, dispatchers, adding,
                   started>>

Handlers ==
    \/ \E d \in Dispatchers : deleteDispatcher(d)
    \/ \E c \in Clusters : addCluster(c) \/ deleteCluster(c)
-----------------------------------------------------------------------------
\* Nothing is left to do: every notification has been handled.
Synced ==
    /\ Idle
    /\ seenClusters = apiClusters
    /\ seenUid = apiUid

Existing == {d \in Dispatchers : apiUid[d] # 0}

\* The purpose of the controller: once it has handled every notification,
\* each cluster is in the range of exactly one dispatcher, so that the work
\* bound to it is picked up, and picked up once -- whatever the interleaving
\* of the two informers, and however often the controller died while it was
\* writing the ranges one after the other.
ClustersPartitioned ==
    Synced /\ Existing # {} =>
        \A c \in apiClusters :
            /\ \E d \in Existing : InRange(c, apiRange[d])
            /\ \A d1, d2 \in Existing :
                    InRange(c, apiRange[d1]) /\ InRange(c, apiRange[d2])
                        => d1 = d2

\* Once every notification is handled, each dispatcher object has had a
\* dispatcher_process started for it.
EveryDispatcherStarted ==
    Synced => \A d \in Existing : apiUid[d] \in started
=============================================================================
