------------------------- MODULE SchedulerController -------------------------
(***************************************************************************)
(* The scheduler controller (controllers/scheduler/                        *)
(* scheduler_controller.go).  It watches the Scheduler and the Cluster     *)
(* objects with one informer each.  Every notification runs, under sc.mu,  *)
(* a handler that changes the controller's list or tree and then balances  *)
(* the clusters among the schedulers, writing one Scheduler object after   *)
(* the other; a call that fails ends the balance.  A scheduler whose       *)
(* balance succeeded is queued, and a worker starts its process.           *)
(*                                                                         *)
(* As in DispatcherController an informer is modelled by what it has       *)
(* notified, and uid tells a scheduler from a later one with its name.     *)
(* The lister the worker uses is not behind the API server.                *)
(***************************************************************************)
EXTENDS ClusterInfoTree, EvenlyDivide, SequencesExt

CONSTANTS Schedulers, Clusters,   \* names
          Geo(_),                 \* the path of a cluster: country, area,
                                  \* province, city and its name
          Attributes,             \* what a cluster has besides: flavors, storage,
                                  \* operator... stand for one attribute
          MaxUid,                 \* bound: schedulers created
          MaxClusterChange,       \* bound: clusters created or deleted
          MaxClusterUpdate,       \* bound: clusters updated
          MaxTrouble              \* bound: calls that fail and restarts, together

ASSUME SchedulersAssumption ==
    /\ MaxUid \in Nat /\ MaxClusterChange \in Nat
    /\ MaxClusterUpdate \in Nat /\ MaxTrouble \in Nat

\* The geolocations are complete.  The code takes others too, but a path that
\* an empty level cuts short does not end with the name of the cluster:
\* DelCluster leaves the cluster in the last node of such a path, and balance
\* loses it when it goes below that node.  The properties are not for those.
ASSUME GeoAssumption ==
    /\ \A c \in Clusters : Geo(c) \in Seq(STRING) /\ Len(Geo(c)) = GeoLevels
    /\ \A c, d \in Clusters : Geo(c) = Geo(d) => c = d

VARIABLES
    apiClusters,        \* the Cluster objects
    apiAttr,            \* the attribute of each, of a deleted one the last
    apiUid,             \* uid of each Scheduler object, 0 when there is none
    apiCluster,         \* its Spec.Cluster
    apiUnion,           \* its Spec.Union
    lastUid,            \* the last uid given out
    changes, clusterUpdates,    \* clusters created or deleted, and updated
    seenUid, seenClusters,      \* what the informers have notified
    addedAttr,          \* the attribute with which a cluster was last added
    schedulers,         \* sc.schedulers, by name
    countryNode,        \* sc.countryNode
    task,               \* the balance that runs under sc.mu
    queue,              \* the work queue: keys, each in an item of its own
    started,            \* uids a scheduler process was started for
    faults,             \* calls that failed
    unqueued,           \* history: schedulers whose balance failed
    strayed,            \* history: attributes that a deletion counted wrongly
    running, restarts   \* whether the controller runs; its restarts

api == <<apiClusters, apiAttr, apiUid, apiCluster, apiUnion, lastUid, changes, clusterUpdates>>
clusterNews == <<seenClusters, addedAttr>>
controller == <<seenUid, clusterNews, schedulers, countryNode, task, queue>>
history == <<unqueued, strayed>>
schedulersVars == <<api, controller, started, faults, history, running, restarts>>

NoTask == [adding |-> {}, parts |-> <<>>, next |-> 0]

SchedulersTypeOK ==
    /\ apiClusters \subseteq Clusters /\ seenClusters \subseteq Clusters
    /\ apiUid \in [Schedulers -> 0..MaxUid] /\ seenUid \in [Schedulers -> 0..MaxUid]
    /\ apiCluster \in [Schedulers -> SUBSET Clusters]
    /\ apiUnion \in [Schedulers -> SUBSET Attributes]
    /\ apiAttr \in [Clusters -> Attributes] /\ addedAttr \in [Clusters -> Attributes]
    /\ lastUid \in 0..MaxUid
    /\ changes \in 0..MaxClusterChange /\ clusterUpdates \in 0..MaxClusterUpdate
    /\ schedulers \in Seq(Schedulers)
    /\ \A p \in DOMAIN countryNode :
           /\ BagToSet(countryNode[p].clusterMap) \subseteq Clusters
           /\ BagToSet(countryNode[p].unionMap) \subseteq Attributes
    /\ task.adding \subseteq Schedulers
    /\ task.next \in 0..Len(task.parts) /\ Len(task.parts) <= Len(schedulers)
    /\ IsABag(queue) /\ BagToSet(queue) \subseteq Schedulers
    /\ started \subseteq 1..MaxUid
    /\ unqueued \subseteq Schedulers /\ strayed \subseteq Attributes
    /\ faults \in 0..MaxTrouble /\ restarts \in 0..MaxTrouble /\ running \in BOOLEAN

NothingHeld ==
    /\ seenUid = [s \in Schedulers |-> 0] /\ seenClusters = {}
    /\ schedulers = <<>> /\ countryNode = NewTree
    /\ task = NoTask /\ queue = EmptyBag

SchedulersInit ==
    /\ apiClusters = {} /\ lastUid = 0 /\ changes = 0 /\ clusterUpdates = 0
    /\ apiUid = [s \in Schedulers |-> 0]
    /\ apiCluster = [s \in Schedulers |-> {}] /\ apiUnion = apiCluster
    /\ apiAttr \in {[c \in Clusters |-> a] : a \in Attributes} /\ addedAttr = apiAttr
    /\ NothingHeld
    /\ started = {} /\ faults = 0 /\ unqueued = {} /\ strayed = {}
    /\ running = TRUE /\ restarts = 0
-----------------------------------------------------------------------------
(* The users of the API server (external).                                 *)

CreateScheduler(s) ==
    /\ apiUid[s] = 0 /\ lastUid < MaxUid
    /\ apiUid' = [apiUid EXCEPT ![s] = lastUid + 1] /\ lastUid' = lastUid + 1
    /\ apiCluster' = [apiCluster EXCEPT ![s] = {}]
    /\ apiUnion' = [apiUnion EXCEPT ![s] = {}]
    /\ UNCHANGED <<apiClusters, apiAttr, changes, clusterUpdates,
                   controller, started, faults, history, running, restarts>>

RemoveScheduler(s) ==
    /\ apiUid[s] # 0
    /\ apiUid' = [apiUid EXCEPT ![s] = 0]
    /\ UNCHANGED <<apiClusters, apiAttr, apiCluster, apiUnion, lastUid, changes, clusterUpdates,
                   controller, started, faults, history, running, restarts>>

ChangeCluster(c) ==
    /\ changes < MaxClusterChange /\ changes' = changes + 1
    /\ \/ c \in apiClusters /\ apiClusters' = apiClusters \ {c} /\ UNCHANGED apiAttr
       \/ /\ c \notin apiClusters /\ apiClusters' = apiClusters \cup {c}
          /\ \E a \in Attributes : apiAttr' = [apiAttr EXCEPT ![c] = a]
    /\ UNCHANGED <<apiUid, apiCluster, apiUnion, lastUid, clusterUpdates,
                   controller, started, faults, history, running, restarts>>

\* There is no UpdateFunc: an update leaves the controller alone.
UpdateCluster(c) ==
    /\ c \in apiClusters
    /\ clusterUpdates < MaxClusterUpdate /\ clusterUpdates' = clusterUpdates + 1
    /\ \E a \in Attributes : apiAttr' = [apiAttr EXCEPT ![c] = a]
    /\ UNCHANGED <<apiClusters, apiUid, apiCluster, apiUnion, lastUid, changes,
                   controller, started, faults, history, running, restarts>>
-----------------------------------------------------------------------------
(* balance.                                                                *)

\* There are nodes for all schedulers at this depth, or none below it.
EnoughNodes(tree, n, depth) ==
    n <= Cardinality(Level(tree, depth)) \/ Level(tree, depth + 1) = {}

\* balance goes down to the first such depth.
BalanceDepth(tree, n) ==
    CHOOSE d \in 0..GeoLevels :
        EnoughNodes(tree, n, d) /\ \A e \in 0..(d - 1) : ~EnoughNodes(tree, n, e)

\* The orders in which the maps of a level may be iterated: the children of a
\* node follow one another.
Orders(nodes) ==
    {f \in SetToSeqs(nodes) :
        \A i, j, k \in DOMAIN f : i < j /\ j < k =>
            \A m \in 1..Len(f[i]) :
                SubSeq(f[i], 1, m) = SubSeq(f[k], 1, m) => SubSeq(f[i], 1, m) = SubSeq(f[j], 1, m)}

\* What the schedulers of the list get: the clusters and the attributes of a
\* part of the nodes each.
Parts(tree, order, n) ==
    LET bounds == EvenlyDivide(n, Len(order) - 1)
        Nodes(k) == {tree[order[i]] : i \in (bounds[k][1] + 1)..(bounds[k][2] + 1)}
    IN  [k \in DOMAIN bounds |->
            [cluster |-> UNION {BagToSet(node.clusterMap) : node \in Nodes(k)},
             union   |-> UNION {BagToSet(node.unionMap) : node \in Nodes(k)}]]

\* The handlers below call this last, with their changes of the list and of
\* the tree made.
StartBalance(adding) ==
    IF schedulers' = <<>> THEN task' = NoTask
    ELSE LET n == Len(schedulers') IN
         \E order \in Orders(Level(countryNode', BalanceDepth(countryNode', n))) :
             task' = [adding |-> adding, parts |-> Parts(countryNode', order, n), next |-> 1]

Handler == running /\ task = NoTask /\ UNCHANGED <<api, started, faults, running, restarts>>

addScheduler(s) ==
    /\ Handler /\ seenUid[s] = 0 /\ apiUid[s] # 0
    /\ seenUid' = [seenUid EXCEPT ![s] = apiUid[s]]
    /\ schedulers' = Append(schedulers, s)
    /\ UNCHANGED <<clusterNews, countryNode, queue, history>>
    /\ StartBalance({s})

\* The last scheduler of the list takes the place of the deleted one.
deleteScheduler(s) ==
    /\ Handler /\ seenUid[s] # 0 /\ apiUid[s] # seenUid[s]
    /\ seenUid' = [seenUid EXCEPT ![s] = 0]
    /\ schedulers' =
           LET n == Len(schedulers) IN
           IF \E i \in 1..n : schedulers[i] = s
           THEN LET i == CHOOSE i \in 1..n :
                            schedulers[i] = s /\ \A j \in 1..(i - 1) : schedulers[j] # s
                IN  SubSeq([schedulers EXCEPT ![i] = schedulers[n]], 1, n - 1)
           ELSE schedulers
    /\ UNCHANGED <<clusterNews, countryNode, queue, history>>
    /\ StartBalance({})

addCluster(c) ==
    /\ Handler /\ c \in apiClusters \ seenClusters
    /\ seenClusters' = seenClusters \cup {c}
    /\ countryNode' = AddCluster(countryNode, c, Geo(c), apiAttr[c])
    /\ addedAttr' = [addedAttr EXCEPT ![c] = apiAttr[c]]
    /\ UNCHANGED <<seenUid, schedulers, queue, history>>
    /\ StartBalance({})

\* DeleteFunc gets the last state of the object: after an update, an attribute
\* that AddCluster did not count, while the one it counted stays counted.
deleteCluster(c) ==
    /\ Handler /\ c \in seenClusters \ apiClusters
    /\ seenClusters' = seenClusters \ {c}
    /\ countryNode' = DelCluster(countryNode, c, Geo(c), apiAttr[c])
    /\ strayed' = IF apiAttr[c] = addedAttr[c] THEN strayed
                  ELSE strayed \cup {apiAttr[c], addedAttr[c]}
    /\ UNCHANGED <<seenUid, addedAttr, schedulers, queue, unqueued>>
    /\ StartBalance({})

-----------------------------------------------------------------------------
(* One turn of the loop of balance: Get and Update of a scheduler.  It     *)
(* fails when the scheduler is gone, or when a call fails.                 *)

Written == schedulers[task.next]

\* Mutant of EndBalance: the scheduler is not queued.
EndBalanceForgets(ok) ==
    /\ task' = NoTask
    /\ UNCHANGED <<queue, unqueued>>

EndBalance(ok) ==
    /\ task' = NoTask
    /\ queue' = IF ok THEN queue (+) SetToBag(task.adding) ELSE queue
    /\ unqueued' = IF ok THEN unqueued ELSE unqueued \cup task.adding

UpdateScheduler ==
    /\ running /\ task # NoTask /\ apiUid[Written] # 0
    /\ apiCluster' = [apiCluster EXCEPT ![Written] = task.parts[task.next].cluster]
    /\ apiUnion' = [apiUnion EXCEPT ![Written] = task.parts[task.next].union]
    /\ IF task.next = Len(task.parts) THEN EndBalance(TRUE)
       ELSE /\ task' = [task EXCEPT !.next = @ + 1]
            /\ UNCHANGED <<queue, unqueued>>
    /\ UNCHANGED <<apiClusters, apiAttr, apiUid, lastUid, changes, clusterUpdates, seenUid,
                   clusterNews, schedulers, countryNode, started, faults, strayed, running, restarts>>

UpdateFails ==
    /\ running /\ task # NoTask
    /\ \/ apiUid[Written] = 0 /\ UNCHANGED faults
       \/ apiUid[Written] # 0 /\ faults + restarts < MaxTrouble /\ faults' = faults + 1
    /\ EndBalance(FALSE)
    /\ UNCHANGED <<api, seenUid, clusterNews, schedulers, countryNode, started, strayed,
                   running, restarts>>
-----------------------------------------------------------------------------
(* The worker; syncHandler holds sc.mu.                                    *)

\* A scheduler that is gone makes getScheduler return nil without an error.
\* Otherwise its process is started and announced to the resource collector;
\* an item whose start fails is not put back.
syncHandler(s) ==
    /\ running /\ task = NoTask /\ s \in BagToSet(queue)
    /\ queue' = queue (-) SetToBag({s})
    /\ \/ apiUid[s] = 0 /\ running' = FALSE /\ UNCHANGED <<started, faults>>
       \/ apiUid[s] # 0 /\ started' = started \cup {apiUid[s]} /\ UNCHANGED <<faults, running>>
       \/ /\ apiUid[s] # 0 /\ faults + restarts < MaxTrouble /\ faults' = faults + 1
          /\ UNCHANGED <<started, running>>
    /\ UNCHANGED <<api, seenUid, clusterNews, schedulers, countryNode, task, history, restarts>>

\* Mutant of Restart: the clusters are not notified again.
RestartKeepsClusters ==
    /\ faults + restarts < MaxTrouble /\ restarts' = restarts + 1 /\ running' = TRUE
    /\ seenUid' = [s \in Schedulers |-> 0] /\ UNCHANGED clusterNews
    /\ schedulers' = <<>> /\ countryNode' = NewTree
    /\ task' = NoTask /\ queue' = EmptyBag /\ unqueued' = {} /\ strayed' = {}
    /\ UNCHANGED <<api, started, faults>>

\* The process ends, in the middle of a balance or after the panic, and is
\* started again: the informers notify every object again.
Restart ==
    /\ faults + restarts < MaxTrouble /\ restarts' = restarts + 1 /\ running' = TRUE
    /\ seenUid' = [s \in Schedulers |-> 0] /\ seenClusters' = {}
    /\ addedAttr' = apiAttr
    /\ schedulers' = <<>> /\ countryNode' = NewTree
    /\ task' = NoTask /\ queue' = EmptyBag /\ unqueued' = {} /\ strayed' = {}
    /\ UNCHANGED <<api, started, faults>>
-----------------------------------------------------------------------------
Users == \/ \E s \in Schedulers : CreateScheduler(s) \/ RemoveScheduler(s)
         \/ \E c \in Clusters : ChangeCluster(c) \/ UpdateCluster(c)

Handlers == \/ \E s \in Schedulers : addScheduler(s) \/ deleteScheduler(s)
            \/ \E c \in Clusters : addCluster(c) \/ deleteCluster(c)

Balance == UpdateScheduler \/ UpdateFails

Work == \E s \in Schedulers : syncHandler(s)

SchedulersNext == Users \/ Handlers \/ Balance \/ Work \/ Restart

SchedulersSpec == SchedulersInit /\ [][SchedulersNext]_schedulersVars
-----------------------------------------------------------------------------
(* Properties.                                                             *)

\* Every notification has been handled.
Quiet == running /\ task = NoTask /\ seenUid = apiUid /\ seenClusters = apiClusters

Existing == {s \in Schedulers : apiUid[s] # 0}

\* The clusters below a node of the tree.
Below(p) == {c \in seenClusters : Geo(c) = p \/ Extends(Geo(c), p)}

\* The tree has a node for every prefix of the path of a cluster that was
\* notified, which counts the clusters below it, each once; whatever the
\* order of additions and deletions was.
TreeMatchesClusters ==
    /\ \A c \in seenClusters : PathPrefixes(Geo(c), 0..Len(Geo(c))) \subseteq DOMAIN countryNode
    /\ \A p \in DOMAIN countryNode :
           /\ p = Root \/ Below(p) # {}
           /\ countryNode[p].clusterMap = SetToBag(Below(p))

\* When every notification was handled and the worker has emptied its queue,
\* each scheduler object there is has a process, a later one with the name of
\* a deleted one included: it was started before a restart, or the restart had
\* it queued again.  Only the scheduler whose own balance failed is left
\* without one (another scheduler was deleted under the balance, which then
\* returns before the item is queued), and one whose start failed.
QueuedSchedulersStarted ==
    Quiet /\ queue = EmptyBag /\ faults = 0 =>
        \A s \in Existing : apiUid[s] \in started \/ s \in unqueued

\* However deletions interleave with the writes of a balance that they make
\* fail, and whenever the controller is restarted in the middle of one: once
\* it has handled every notification, and unless another call failed, each
\* cluster belongs to a scheduler.  If there is a cluster for each scheduler,
\* none belongs to two, no deleted one is left, and Spec.Union has exactly the
\* attributes with which the scheduler's clusters were added: none that is
\* still shared was removed with a deleted cluster.  Only the attributes on
\* both sides of an update are excepted, once the updated cluster is deleted
\* and until a restart.
ClustersDivided ==
    Quiet /\ faults = 0 /\ Existing # {} =>
        /\ apiClusters \subseteq UNION {apiCluster[s] : s \in Existing}
        /\ Cardinality(apiClusters) >= Cardinality(Existing) =>
               \A s \in Existing :
                   /\ apiCluster[s] \subseteq apiClusters
                   /\ apiUnion[s] \ strayed = {addedAttr[c] : c \in apiCluster[s]} \ strayed
                   /\ \A t \in Existing \ {s} : apiCluster[s] \cap apiCluster[t] = {}

\* What the handlers keep in memory: the tree is right also between a handler
\* and the writes of its balance.
TreeInv == SchedulersTypeOK /\ TreeMatchesClusters
=============================================================================
