# Verification of the global resource scheduler

This directory holds a TLA+ model of the core of the global resource scheduler
(`src/globalscheduler`), the TLC configurations that check it on small
instances, and proofs, checked by TLAPS, of its central theorems. Everything is
translated from the Go source; `PROJECT.json` maps each definition to the lines
it stands for. Paths below are relative to `src/globalscheduler`.

## The system

The global scheduler places VMs (as Pods or as multi-VM Allocations) on many
OpenStack clouds ("clusters", "sites"). It is a set of processes that share
nothing but the objects of a Kubernetes (Arktos) API server:

```
 user -> Pod (Pending) or Allocation object (phase "")
           | watched by hash key range
   distributor_process  -- Update phase Assigned + scheduler -->
           | watched by scheduler name
   scheduler_process    -- Update phase Bound + clusters, or NotScheduled -->
           | watched by cluster name range
   dispatcher_process   -- creates VMs; Update phase Scheduled + ids, or Failed
           | and deletes the VMs when a Scheduled object is deleted
```

A pod takes the same way with other means: the distributor and the scheduler hand
it on with a `Binding`, which checks no version, and a refusal is a patch of the
status. The cluster controller tells an external resource collector which clusters
exist; the collector reports each site's free capacity to the schedulers.

Controllers (`cmd/gs-controllers`) divide the work: the distributor controller
divides the hash keys among the distributors, the dispatcher controller the
cluster names among the dispatchers, the scheduler controller the clusters among
the schedulers. Each starts one process per object; a process that is told a new
range replaces itself (`syscall.Exec`).

### Inventory

| Component | State | Operations | Hard behaviour | What makes it correct |
|---|---|---|---|---|
| Work division (`controllers/util/common.go`) | none | `EvenlyDivide`, sorted array | int64 wrap-around, more workers than work | the chunks partition the interval, evenly |
| Dispatcher controller (`controllers/dispatcher/dispatcher_controller.go`) | lists of clusters and dispatchers under a mutex | four informer handlers, `balance` | two informers, writes one by one, `klog.Fatalf` in the middle, restart | clusters are partitioned when it is in sync; each dispatcher has a process |
| Distributor controller (`controllers/distributor/distributor_controller.go`) | informer store, work queue | worker, `deleteDistributor`, `rebalance` | two goroutines rebalance without a lock, stale resource versions, ignored errors | hash keys are partitioned when it is in sync |
| Scheduler controller (`controllers/scheduler`) | tree of geolocations, list of schedulers, work queue | handlers for schedulers and clusters, `balance`, worker | writes one by one, a write that fails, more schedulers than geolocations, restart | each cluster has one scheduler, whose union matches its clusters; each scheduler has a process |
| Cluster controller (`controllers/cluster`) | work queue of typed events, map of deleted clusters | handlers, workers, gRPC calls | `Done` with the wrong key, enqueue before the map is written, lost calls | the collector knows the clusters that exist |
| Distributor process (`controllers/distributor/distributor_process.go`) | list of schedulers, range | `ScheduleAllocation`, `ScheduleOne`, exec | concurrent handlers, retry with an old copy, lost answers | an allocation is handed on once |
| Scheduler (`pkg/scheduler/scheduler.go`, `eventhandlers.go`) | stack queue, site snapshot, caches | pod worker, allocation informer, cluster worker | concurrent use of the snapshot, partial failure | each request is decided; resources are not given away twice |
| Scheduling queue (`pkg/scheduler/internal/queue`) | three sub-queues, backoff timers, nominations | 12 methods, two flush goroutines | blocking `Pop`, races of move requests and attempts, outdated versions brought back | no stack lost, doubled or starved; no lost wakeup |
| Scheduler cache (`pkg/scheduler/internal/cache`, `sitecacheinfo`) | sites, stacks, resources | add, assume, deduct | filter, plan and deduction without a lock, reports and updates in between | what is placed and what is offered never exceed the capacity |
| Dispatcher process (`controllers/dispatcher/dispatcher_process.go`) | range, token and host maps, counters | `SendAllocationToCluster`, `SendPodToCluster`, exec | VMs exist before they are recorded, overlapping ranges, restarts, panics | a Scheduled allocation has its VMs; VMs are not leaked; Bound work is dispatched |
| API proxy, gRPC servers, OpenStack client, CRDs | none or external | translation, HTTP | timeouts | not modelled (see the end) |

## Modules

| Module | Models |
|---|---|
| `EvenlyDivide` | what `EvenlyDivide` returns, as a closed form |
| `EvenlyDivideLoop`, `EvenlyDivideProofs` | its loop on wrapping machine integers, and the proofs about it |
| `DispatcherController` | the handlers of the dispatcher controller with the API server's objects |
| `DispatcherProcesses`, `MCDispatcherProcesses`, `DispatcherProcessesProofs` | the specification: those handlers composed with the processes the controller starts |
| `DistributorController`, `MCDistributorController`, `DistributorProofs` | the distributor controller with the API server's objects, the informer's store and the work queue |
| `DistributorProcess`, `MCDistributorProcess`, `DistributorProofs` | a distributor's list of schedulers and its choice for a request |
| `ClusterInfoTree`, `SchedulerController`, `MCSchedulerController`, `SchedulerProofs` | the tree of geolocations, and the scheduler controller that balances by it |
| `WorkQueue` | client-go's work queue, as operators |
| `ClusterEvents` | how an event about a cluster becomes a work item; shared by the next two |
| `ClusterController`, `ClusterProofs` | the cluster controller and the collector it calls |
| `SiteCacheSync`, `MCSiteCacheSync`, `ClusterProofs` | the scheduler's cluster worker and its map of sites |
| `SchedulingQueue`, `MCSchedulingQueue`, `SchedulingQueueProofs` | the scheduler's queue with its callers |
| `SiteResources`, `MCSiteResources`, `SchedulerProofs` | `Schedule`: filter, score, strategy, bind, and the accounts of the sites |
| `CapacityLedger` | abstract: capacity is given away once, a request decided once |
| `AllocationLifecycle` | abstract: the phases a request may go through |
| `AllocationPipeline`, `AllocationPipelineProofs` | distributors, scheduler and dispatchers around the Allocation objects |
| `PodPipeline`, `PodPipelineProofs` | the same around the Pods |

`AllocationPipeline` implements `AllocationLifecycle` (`Lifecycle == INSTANCE ...
WITH`). `PodPipeline` does as long as no user changes a pod (`PodsFollowLifecycle`);
the phases of a pod are mapped to its stages by `Stage`. `SiteResources` implements `CapacityLedger` when one thread schedules.
`DispatcherProcesses` extends `DispatcherController`; `SiteCacheSync` and
`ClusterController` extend `ClusterEvents`. `DistributorProofs`, `ClusterProofs` and
`SchedulerProofs` hold the proofs about two modules each; so one of the two has names of its
own for the specification (`ControllerSpec`, `SitesSpec`, `SchedulersSpec`).

Definitions named in comments as *mutants* are not part of any specification.
Each is the form a definition would have with a plausible bug; `PROJECT.json`
lists which property finds it.

### How state and actions correspond to the code

**DispatcherController.** `apiClusters`, `apiUid`, `apiRange` are the objects in
the API server. An informer is modelled by what it has notified (`seenClusters`,
`seenUid`), which leaves open when it notifies. Each handler runs under `dc.mu`:
the action of the handler changes the list, and while `next > 0` the mutex is
held and `UpdateDispatcher` writes the objects one by one. `uid` tells a
dispatcher from a later one of the same name: a write of the old one fails and
`Fatal` ends the controller, as `klog.Fatalf` does, and with it what it had in
memory; `Restart` starts over, and the informers notify every object again.

**DispatcherProcesses.** `procs` lists the running processes of each dispatcher in the
order they were started; `syscall.Exec` leaves a process its place, an exit removes it.
Each process is a record: the range it read with the `Get`
of `NewProcess`, whether its informer has listed the object, and what the informer
has still to deliver (`event`, `deleted`). A write that comes between the `Get` and
the list is in the list, for which there is no `AddFunc`; `missed` observes that.
Processes know their dispatcher by name, so one may adopt a dispatcher created again.
A process whose `Get` or `Exec` fails for another reason than a missing object is
left out.

**DistributorController.** `rv` and `range` are the objects; `watch` holds the
changes the reflector has not received, `store` is what the lister sees, `notes`
what the listener has still to handle. The worker and the listener are the two
members of `thread`; each step of `rebalance` is an action: `List` (any order,
as the store is a map), then `SetRange` and `Update` for each object. A listed
object is a pointer into the store, identified by name and resource version;
`SetRange` of one thread shows in what the other is about to send, and start and
end may come from different writes (a data race in the code). `UpdateFails` is
`klog.Fatalf` in the worker and is ignored in the listener; `unbalanced`
observes the latter. `Put` is what the API server does with an `Update`: an object that
stays as it was keeps its resource version, and no watcher is told
(`src/staging/src/k8s.io/apiserver/pkg/storage/etcd3/store.go:408`); `unnoticed` observes
that such a write hid one rebalance from the other. `queue`, `again` and `delayed` are the work queue. One
namespace is modelled, as every rebalance stays in one; an `Update` fails by
conflict or because the object is gone.

**SchedulingQueue.** Every method of `PriorityQueue` holds `p.lock`, so each is
one action; `Pop` is `PopWait` (`cond.Wait`), `Pop` and `PopClosed`. A sub-queue
is a map from stacks to the version stored there (0: none). Timestamps are
abstracted to their order (`older`), timers to none/running/over. `moved` and
`passed` are observations used in properties only. The heaps' array layout is
not modelled; the comment at `flushBackoffQCompleted` says why the order of
expiry does not matter. In the program only `Add`, `Update`, `Delete`, `Pop` and
`Close` have callers; the others are modelled with the use their comments
describe.

**DistributorProcess.** `object` is the API server, `informed` what the scheduler
informer has reported, `schedulers` the slice `p.schedulers`. `AddFunc`, `UpdateFunc`
and `DeleteFunc` are translated with their comparisons: `DeleteFunc` compares values
of different types and removes nothing. Geolocations are functions on the four
fields; `matchGeoLocation` compares them field by field. The random choice among
fitting schedulers is nondeterministic. Appends and reads of the slice by different
goroutines are one step each (they race in the code).

**SchedulerController and ClusterInfoTree.** The tree is a function from paths
(country, area, province, city, cluster) to the bags `clusterMap` and `unionMap`. A level
whose key is empty would end the path; `GeoAssumption` leaves such geolocations out (see
the exceptions below). `BalanceDepth` is the recursion of `balance` that goes down
level by level until there are enough nodes (`EnoughNodes`) or none below; the order in which Go ranges over a
map is any order (`Orders`). A handler holds `sc.mu`, and `task` is its balance;
`UpdateScheduler` is one write, `UpdateFails` ends the balance. `syncHandler` takes
an item, starts the process, or dereferences the missing scheduler (`running' = FALSE`).
A cluster's attributes (one value of `Attributes` stands for them) are part of its object,
`apiAttr`. There is no `UpdateFunc`, so `UpdateCluster` leaves the controller alone:
`addedAttr` are the attributes a cluster was added with, and its deletion takes away those
it has then. `strayed` observes the attributes that were counted wrongly by that.

**ClusterEvents, SiteCacheSync, ClusterController.** The two programs have the same
code for handlers and queue; the map names the scheduler's lines. `Enqueue`, then
`SaveDeleted` are two steps of `deleteCluster`. `FinishItem` calls `Done` with the
key, which is not what `Get` returned. `CheckAgain` is the read after the handler
that panics when the cluster is gone. The version of a spec stands for its content;
`SiteOf` says which site a version names, so an update may move a cluster. A site is a
region and a zone, and clusters may share it: the map has one entry for it, which each
of them overwrites or deletes (`TakenOver`).

**SiteResources.** `entry`, `allocatable`, `requested` and `total` are the fields of
`SiteCacheInfo`. Each thread is in a `Schedule` call: `FilterSite`, `ScoreSite`,
`PlanSite` and `Bind` look at one site per step, as the code reads the shared map one
entry at a time without a lock. `Deduct` is `DeductSiteResInfo` with the recomputation
of `AllocatableFlavor` from the reported total. `UpdateSiteDynamicResource` is the
collector's report, any value, whatever the cluster declares (up to the bound `MaxTotal`);
`room` observes the most a site was said to have. `UpdateStaticSiteResourceInfo` is the
cluster worker. `Drop` is the end of a pod for which `Schedule` returned no error and no
stacks: nothing is written for it. One flavor stands for all, one unit per stack; the filters other than
Flavor are the constant `Eligible`; the scores give any order of sites.

**PodPipeline.** An object is the phase, the scheduler, the instance id and the
resource version. `bindings` are the goroutines of the distributors, `known`, `queue`
and `hand` a scheduler's informer, `StackQueue` and worker, `jobs` the goroutines of
the dispatcher. `Put` is a write with what the watches report: the dispatcher's two
informers select by phase, so a pod that *leaves* the phase Scheduled is reported as
deleted (`Left`). `setPodScheduleErr` is `getPod` and `PatchPodStatus`: the patch
removes each status field that the copy had and the new status has not. A worker
finds a site or none (`scheduleOne`), or comes back without an error and without stacks
(`scheduleNothing`, observed by `dropped`). `alive` are the schedulers that have a process,
`serving` says whether the dispatcher has one. `ExitScheduler` and `ExitDispatcher` are a
deleted object or a panic, possible at any time; `StartScheduler` and `StartDispatcher` are
the controllers, which start a process for every object they are notified of, also when
they are restarted themselves. `ListBound` is what the informers of a new dispatcher
process report.

**AllocationPipeline.** An object is `phase`, `rv` (resource version) and `ids`
(instance ids of its VMs). A handler is a `pc` per process and allocation with
the resource version of the copy it was notified with. `Applied`, `Succeeds` and
`Fails` are the API server: an `Update` is applied when the copy is current; an
error may also be reported after it was applied. The scheduler's informer runs
its handler synchronously, so there is one `spc`; `alive`, `ExitScheduler` and
`StartScheduler` are as in `PodPipeline`. `Kill` is what `syscall.Exec`,
`os.Exit` and a panic have in common. `covers` is the set of dispatchers whose
range holds the clusters; it is changed one process at a time, so ranges may
overlap or leave a gap, as while `balance` is writing. A second process started
for the same dispatcher is another member of `Dispatchers`.

## Runs

Each run asks one question of one part of the system; all pass.

| Run | Instance | What it shows |
|---|---|---|
| `evenly_divide` | machine integers up to 15, every size and bound | `Partition`: the chunks partition the interval, also when the last step wraps; `ReturnsClosedForm`; `Terminates` |
| `dispatchers` | 2 dispatchers, 2 clusters, 2 uids, 2 changes of clusters, 1 restart | `ClustersPartitioned`: clusters partitioned by the ranges once in sync; `ProcessesInv`: once in sync each dispatcher has a live process, and once settled each cluster is served by the processes of one dispatcher |
| `distributor_controller` | 2 distributors, 3 creations, 2 deletions, 1 restart, 5 hash keys | `HashKeysPartitioned` however worker and listener interleave; `ControllerInv`: each distributor has a process |
| `distributor_schedulers` | 2 schedulers, 3 changes, 1 deletion, 1 restart | `ListInv`: the list is what was reported; `RightChoice`: a request goes to a scheduler that fits, and is given up only if none fits |
| `scheduler_controller` | 2 schedulers, 2 clusters of one country, 2 attributes, 2 uids, 3 changes and 1 update of clusters, 1 fault or restart | `ClustersDivided`: a half-written balance is repaired, also by the next process, and an attribute that clusters share goes with the last of them; `TreeInv`; `QueuedSchedulersStarted` |
| `site_cache_sync` | 2 clusters that share 2 sites, one of them without an address, each created twice, updated once and deleted once | `SyncInv`: the first update is applied or another cluster has the entry; `EveryClusterGetsASite` |
| `cluster_controller` | 1 cluster created and deleted 3 times and updated, 2 workers, 1 lost call | `CollectorInv`: an existing version is never reported as deleted; `EveryClusterRegistered` |
| `queue` | 2 stacks, 2 versions, 5 cycles, 1 site, the one worker the scheduler starts | `QueueInv`: one sub-queue per stack, nominations consistent; `QueuesAreCurrent`, `NoLostWakeup`, `NoMissedMove`, `NoStackLost`, `OvertakenOnce` |
| `site_resources` | 1 thread, 3 sites of 2 units, a pod, 4 replicas, 2 VMs, 2 reports of up to 3 units | `CapacityAccounted`, `WholeReplicas`, `RefusedOnlyWhenFull`, and `LedgerSpec`: it implements `CapacityLedger` |
| `site_resources_threads` | 2 threads, 2 sites, 3 requests, 1 report of up to 3 units, 1 update | `OvercommitBounded`: each thread and each update adds at most what the site was said to have; `EveryRequestDecided` |
| `allocations` | 1 allocation with 2 VMs, 2 distributors, 2 dispatchers, 1 start of a process, any deaths of the scheduler, 1 failed call, deletable | `LifecycleSpec`, `ScheduledIsBacked`, `NoLeak`, `AssignedIsScheduled`, `BoundIsDispatched` |
| `pods` | 1 pod, 1 distributor, 2 schedulers, 1 user's update, 2 starts of processes, any deaths, 1 failed call | `RecordedExists`, `PodIsBacked`, `HandledOnce`, `NoLeak`, `PodsFollowLifecycle`, `AssignedIsDecided`, `BoundIsDispatched` |

*Bounds.* Two of a kind suffice for the races, which are pairwise. With two
dispatchers and clusters that come and go there are more dispatchers than clusters,
as many, and fewer; two uids allow a dispatcher to be deleted and created again, and
two changes of clusters to have one come or go under the writes of a balance. Two clusters
of one country have one node at the first level of the tree and two at the last, so the
balance of two schedulers goes down; with one cluster there is one for two schedulers. An
update of the attributes and three changes are what it takes to delete a cluster with
attributes it was not added with, next to one that has them. Five hash keys stand for the
2^63 of the code; two distributors divide them unevenly. A report of three units is above the capacity
of every site, and hides a placement. Two versions and five cycles
let the worker bring back an outdated version and pop it again. One failed call is
enough to have an update applied and reported as failed; the next one with the same
copy follows by itself. Three sites with two units each and four replicas make the
rounding of shares lose one; three creations of one cluster name let a work item
outlive two versions of it; one user's update and one deletion are what it takes to
have two writers of a pod. The limits are named constants (`MaxUid`,
`MaxClusterChange`, `MaxClusterUpdate`, `MaxChange`, `MaxCreate`, `MaxUpdate`, `MaxDelete`,
`MaxDeletions`, `MaxRestart`, `MaxTrouble`, `MaxLost`, `MaxVersion`, `MaxCycle`, `MaxTotal`,
`MaxReports`, `MaxUpdates`, `MaxTouch`, `MaxExec`, `MaxError`). Symmetry is used for the names in the runs of the
controllers and of the queue, which check no liveness. The view of `dispatchers` counts
the processes of a dispatcher by their state: no step and no property depends on their
order.

*Deadlock* is checked for `SiteResources`, where `Done` is the end. Elsewhere the users
and the bounded events may run out, and the system then rests.

*Fairness.* The fair specifications (`SitesLiveSpec` of `SiteCacheSync`,
`LiveSpec` of `ClusterController`, `FairSpec` of `SiteResources`, `AllocationPipeline` and
`PodPipeline`) assume weak fairness of each handler, worker and informer: each is a
goroutine, which the Go scheduler runs when it can run. The handlers of the pipelines
have it for each request, as each request has a goroutine of its own or an entry in a
queue that is served in order. A delayed item of a work queue is added when its time
comes. There is no fairness for users, failures, deaths, starts or reports: a process
that died may stay dead. The loop of `EvenlyDivide` is sequential code.

### What the exceptions in the properties stand for

Some properties except a case that the code really has. It is modelled, and without
the exception TLC shows it.

* `HashKeysPartitioned`, `~unbalanced`: the worker lists two distributors and writes
  one; that one is deleted; the listener lists the other, the worker writes it with
  half of the keys, and the listener's write is refused. `deleteDistributor` ignores
  the error (`distributor_controller.go:333`), so half of the keys belongs to nobody.
* `HashKeysPartitioned`, `~unnoticed`: the first distributor has all keys when the worker
  lists it with a second one, which gets its half and is deleted. The listener gives the
  first one all keys, which it has, so the API server writes nothing and its version stays.
  Then the worker writes it with its half: no write is refused, and the other half belongs
  to nobody (`distributor_controller.go:310`). With three distributors two rebalances of
  the same two can hide from each other in this way.
* `ProcessesInv`, `~missed`: a process reads its range (`dispatcher_process.go:112`);
  the controller writes a new one; the process's informer lists the object and,
  without an `AddFunc`, compares it with nothing. It keeps the old range until the
  object is written again.
* `ListInv`, `RightChoice`, `deletes = 0`: `DeleteFunc` compares a value with a pointer
  and removes nothing (`distributor_process.go:180`), so a request may go to a
  scheduler that was deleted. A request is tried once, when it is notified (`:358`).
* `ClustersDivided`, as many clusters as schedulers: schedulers beyond the number of
  nodes are not written and keep clusters that others have now
  (`scheduler_controller.go:415`).
* `ClustersDivided`, `strayed`: a cluster's update is not handled
  (`scheduler_controller.go:117`), and its deletion counts down the attributes it has then
  (`scheduler_cluster_union.go:98`). Those it was added with stay in `Spec.Union`; those it
  has now may be taken from clusters that share them. A restart repairs both.
* `GeoAssumption`, of `ClustersDivided` and `TreeInv`: a cluster with an empty level in its
  geolocation (`newCluster` of `scheduler_controller_test.go` has no level at all) ends at
  an inner node. `DelCluster` returns there before it counts down
  (`scheduler_cluster_union.go:89`), so a deleted cluster is given to a scheduler later,
  and `balance` loses the cluster when it goes on to the next level
  (`scheduler_controller.go:400`). With a third cluster without geolocation TLC shows both.
* `QueuedSchedulersStarted`, `unqueued`: a scheduler whose own balance failed is not
  queued, ever (`:328`). A start that failed is not repeated; a scheduler deleted before
  its item is taken is dereferenced (`:302`), and the restart repairs what is left.
* `SyncInv`, at most one update: `Done` is called with the key and not with the item
  (`scheduler.go:770`), so each `{key, event}` is delivered once. A deletion is looked
  up in a lister that has lost the cluster (`:889`), and the check after an event
  panics when the cluster is gone (`:806`): `EveryClusterGetsASite` excepts the deleted
  and the panic.
* `SyncInv`, `TakenOver`: the map has one entry per region and zone (`scheduler.go:863`).
  Clusters that share them, as those of `test/yaml/sample_1000_clusters.yaml` do,
  show the one handled last, and the deletion of one removes the entry of the others.
  `EveryClusterGetsASite` says that each is shown at some time.
* `EveryClusterRegistered`, `lost` and deletions: the collector's answer is not looked at
  (`cluster_controller.go:330`), and a retry is stuck by the same `Done` (`:186`, `:238`).
* `CapacityAccounted`, `LedgerSpec` and `OvercommitBounded`, `room` and not the capacity: a
  report is not compared with what the cluster declares (`scheduler.go:918`), and after one
  above it `updateSiteFlavor` deducts nothing until the difference is used up
  (`sitecache_info.go:631`). A site may be given what was reported, not what was declared.
* `OvercommitBounded` in place of the ledger: `Schedule` takes no snapshot
  (`scheduler.go:513`), so two threads plan with the same units, and an update of a
  cluster forgets the deductions (`:879`).
* `WholeReplicas`, all *or none*: an allocation the strategy refuses comes back without an
  error (`:580`) and becomes Bound with nothing placed. `RefusedOnlyWhenFull` is about
  centralized requests: the shares of a discrete one are rounded one by one
  (`locationandoperator.go:163`). A refused allocation keeps what its first VM took
  (`:970`), which stays within the account.
* `EveryRequestDecided` and `AssignedIsDecided`, `dropped`: for a pod the strategy refuses
  `bindStacks` gets an empty list and writes nothing (`scheduler.go:580`,
  `eventhandlers.go:379`). The pod stays Assigned and is not queued again. It takes another
  thread that fills the sites between filter and strategy.
* `EveryRequestDecided`, `~up`: a report before the cluster makes an entry without a
  site, on which `Schedule` panics (`scheduler.go:914`). The filter does not see what a
  report changed (`:918`) until something is deducted.
* `BoundIsDispatched` of allocations, while a dispatcher that covers them is up: the
  average deletion latency of allocations is divided by the number of deleted *pods*
  (`dispatcher_process.go:374`); a dispatcher that has deleted no pod panics.
* `AssignedIsScheduled`, `~alive`, `AssignedIsDecided`, a scheduler without a process, and
  `BoundIsDispatched` of pods, `~serving`: a scheduler exits when its object is deleted
  (`scheduler.go:724`) and panics at `:806` and `:914`; a dispatcher panics as above. No one
  watches the processes, and distributors go on to assign work to a scheduler that is gone.
  A controller starts processes again only when it is restarted itself or the object is
  created again; then the informers list what was left, and it is decided.
* `touches = 0` of the pods: a `Binding` checks no version
  (`src/pkg/registry/core/pod/storage/storage.go:192`), so a second writer can take a
  pod from its scheduler, and an update queues a stack the worker has in hand
  (`eventhandlers.go:313`). `RecordedExists` holds regardless.
* `NoLeak`: the VM of a request that is deleted while it is created stays
  (`dispatcher_process.go:283`, `:397`), and so does that of a process that was replaced.

Not stated as a property: after `Close` the pod worker spins, as `scheduleOne` returns
true when it got no stack, before it looks at the error of the closed queue
(`scheduler.go:267`).

## Proofs

`EvenlyDivideProofs` proves `Spec => []Partition` and `Spec => []ReturnsClosedForm`
for every `MaxInt`. The inductive invariant `LoopInv` says that after i iterations
the chunks are the first i of the closed form, and that `start` is the next free
element *after wrapping*; the wrap can only happen when everything is handed out,
and then the loop ends by its counter. `ChunksPartition` states the partition for the
closed form itself, for use by the controllers' proofs.

`DispatcherProcessesProofs` proves `ClustersArePartitioned`
(`ProcessesSpec => []ClustersPartitioned`), `DispatchersStarted` and `ProcessesServe`
(`ProcessesSpec => []ProcessesInv`) for any dispatchers, clusters, changes and restarts. `ClustersPartitioned` speaks of the moments when everything
is handled; `ControllerInv` says what holds between the writes of `balance()`:

* `ClustersListed`: `dc.clusters` is sorted and holds what the informer notified. It needs
  what `sort.SearchStrings` finds (`SearchFindsPlace`) and that an insertion and a removal
  at that place keep the order (`InsertSorts`, `RemoveSorts`);
* `DispatchersListed`, `UidsNumbered`: the entries are the objects notified, each name
  once, and an object created again has a uid that no entry has;
* `RangesWritten`: every entry before `next`, or every entry when no handler runs, whose
  object still exists has the range that the *present* lists give it;
* `ProcessesStarted`: an entry has its process, or is the one `addDispatcher` is busy with.

When all is handled the entries are the objects, so the ranges are the chunks of the
sorted names, and `ChunksPartition` gives the partition.

`ProcessesServe` carries this on to the processes, with `ServingInv`:

* `UidsOwned`: a uid belongs to one name, and `addDispatcher` is busy with a uid it has
  seen, so that the process it starts is one of the object whose uid it records;
* `ProcessesFollow`: a process that missed nothing and was not told of a deletion watches
  an object that exists, and has its range or an event that carries it. A dispatcher
  created again finds no such process of the old one, which is why the uid need not be
  compared;
* `ProcessesLive`: an object that a process was started for has a process that no deletion
  is going to end. Exits happen only after a deletion was told or when the object is
  missing, and an `Exec` replaces a process by a live one.

Once all is settled the ranges of the running processes are those of the existing objects,
and the partition of the ranges is a partition of the work.

`AllocationPipelineProofs` proves, for any sets of allocations and processes, any
number of VMs, restarts and failures:

* `PipelineTypeCorrect`: `Spec => []TypeOK`;
* `PipelineImplementsLifecycle`: `Spec => LifecycleSpec`. The invariant needed is
  `CopiesMatch`: a handler's copy is never newer than the object, and if it is
  current the object is still in the phase the handler was started for (or
  deleted). So a write that the API server accepts advances the phase by exactly
  one stage, and all others change nothing;
* `ScheduledAllocationsAreBacked`: `Spec => []ScheduledIsBacked`. The invariant is
  `InstanceInv`: instance ids are numbered below `lastVM`, an instance has one
  owner (an object, or one handler that has not written yet), and the instances
  of handlers that still create, and of Scheduled objects, exist. The deletions
  of a handler are then disjoint from what others rely on;
* `NothingLeaks`: `Spec => []NoLeak`. `NoLeak` is not inductive: it must be known that
  the handler that creates the VMs is the only one and that its final Update is
  accepted. `HandlerInv` says so for a run in which nothing was restarted, died,
  failed or was deleted too early (the scheduler may die and be started again): the handlers working on an allocation are on the
  one dispatcher whose range covers it, the allocation is still Bound in the version
  the handler read, and no allocation before that stage records instances. That
  nothing of the sort has happened *yet* is what `NoLeak` assumes; it never becomes
  true again once false (`DisturbanceStays`), so it held in every earlier state.

`SchedulerProofs` proves about `SiteResources`, for any sites, capacities, requests and number of reports:

* `TypeCorrect` and, for any number of threads, `CapacityIsAccounted`: as long as no
  cluster update replaces a site, what a site offers and what was placed on it do not
  exceed the most it was said to have (`room`), whatever is reported. The invariant is `TypeOK /\ CycleInv /\ ReadyInv /\ AccountInv`:
  a call's sites have a complete entry, deductions and placements agree, and a site's
  offer and placements stay within its room;
* with one thread and no such update, `NothingOvercommitted` and
  `SchedulerImplementsLedger`; a report above what a site was said to have is the ledger's
  step `Grow`. They need `PlanInv`: from the score to the bind what
  the plan takes from a site is still there, as reports do not change the counts and
  nobody else deducts;
* for any number of threads, reports and updates, `BoundIsWhole`:
  `Spec => []WholeReplicas`. `WholeInv` counts what a request has as whole VMs
  plus the stacks of the VM being bound, of which there are none outside the
  binding; a call that ends with such a remainder fails, and its request is not Bound;
* again for any number of threads, reports and updates, `OvercommitIsBounded`:
  `Spec => []OvercommitBounded`. The claim of a thread on a site is what it has in hand
  there, or what the deductions since the entry was made have left, whichever is more. A
  bind takes one from the thread's claim and adds one to `placed`; no other step of a
  thread raises a claim (`PendingMine`), and an update raises each to the room at most.
  So `placed` and the claims together stay within the bound (`ClaimInv`);
* for any number of threads, as long as no update replaces a site, `RefusalsAreJustified`:
  `Spec => RefusedOnlyWhenFull`. `AddingInv`: what a centralized request still needs is never
  more than the room found on the sites not yet planned, so its plan adds up to the replicas,
  and what is planned and not bound is on a site the loop still comes to. Hence the loop
  ends with all stacks bound, and a refusal comes from an empty filter. `RefusedInv`: a
  registered site that the filter refused is still full, as offers only fall
  (`OffersFall`).

Both add over threads or sites. The sum is not defined by recursion but by its laws
(`Adds`: it changes by what one summand changes, is monotone, and adds constants), and
`AddsExists` shows that a sum with these laws exists on every finite set: of the parts of the set
without one, a smallest would have an element that can be taken out and added again.

It proves about `SchedulerController`, for any schedulers, clusters, bounds and restarts,
`TreeCountsClusters` (`SchedulersSpec => []TreeInv`), `ClustersAreDivided` (`[]ClustersDivided`)
and `SchedulersAreStarted` (`[]QueuedSchedulersStarted`). The inductive invariant `SchedulersInv`
is, besides the types:

* `TreeFits`: a node for each prefix of the path of a notified cluster and no other, which
  counts the clusters below it and *the attributes they were added with*, those in
  `strayed` left aside. `TreeInv` does not speak of the
  attributes, but `Spec.Union` is made from them. `TreeAdd` and `TreeDel` prove that
  `AddCluster` and `DelCluster` keep it: on the way back `DelCluster` removes a child exactly
  when no other cluster is below it. They rest on facts about prefixes (`PrefixForm`,
  `PrefixUnique`) and about the counts (`NodeAdd`, `NodeDel`);
* `UidsInv`, `ListInv`: `sc.schedulers` lists each notified scheduler once, also after the
  last one took the place of a deleted one, and a scheduler created again has a uid that was
  not notified;
* `StartedInv`: a scheduler that was notified has its process, or is queued, or is the one
  whose balance runs, or its balance failed;
* `DividedInv`: what a balance has still to write divides the clusters (`PartsDivide`), and the
  schedulers it has passed have their parts, unless they were deleted since. When no balance
  runs and no scheduler of the list is gone, a first part of the list divides the clusters:
  all of it if there are clusters for all.

`PartsDivide` is where tree and division meet: a level of the tree partitions the clusters
(`LevelNodes`), the depth that `balance` stops at has enough nodes or is the last
(`DepthFound`), and `EvenlyDivide` partitions its nodes (`Chunks`, from `ChunksPartition`). It
needs `GeoAssumption`. The attempt to prove `DepthFound` showed that an earlier form of
`BalanceDepth` was satisfied by depths below the last level too, from which `CHOOSE` may take
any; it is now the first depth at which the recursion stops.

`PodPipelineProofs` proves, for any pods, schedulers, distributors, failures, deaths and
starts of processes (a step of these changes no pod and only takes hands off it, `Lifetimes`):

* `PodTypeCorrect`: `Spec => []TypeOK`;
* `InstancesRecordedExist`: `Spec => []RecordedExists`. The invariant adds `JobsBacked`:
  the instance in a copy that a dispatcher's goroutine holds exists unless the
  goroutine is about to delete it, and only copies of deleted pods are deleted. So a
  pod taken back and forth by two distributors may get several VMs, but never records
  one that is gone;
* with one distributor (`OneDistributor`), `PodsAreHandledOnce`, `ScheduledPodsAreBacked`,
  `PodsGoTheWayOfAllocations` and `NoPodLeaks`: `HandledOnce`, `PodIsBacked`,
  `PodsFollowLifecycle` and `NoLeak`. A Binding and a patch carry no version, so the API
  server refuses none of them; what orders the writes is that, until a user changes a pod,
  only one process at a time has it in hand. `HandsInv` states this hand-over for each
  process: the distributor binds a pod only while it is Pending, a scheduler has it in
  hand or queued (not both) only while it is Assigned to that scheduler, a dispatcher's
  goroutine works on it only while it is Bound (or deleted), and there is one
  such goroutine. `NoLeak` is about a dispatcher that has not died. The distributor controller gives each hash key to one distributor
  (`HashKeysArePartitioned`, below), which is what the hypothesis stands for.

`SchedulingQueueProofs` proves, for any number of stacks, versions, cycles, sites and workers:

* `QueueConsistent`, `WakeupsNotLost`, `StacksNotLost`: `QueueInv` (with the agreement of the
  two maps of nominations, `Agree`) is inductive; `NoLostWakeup` and the action property
  `NoStackLost` follow from it step by step;
* `NoStarvation`: `Spec => OvertakenOnce`. `PassedInv` relates the history of pops to the
  timestamps: a stack popped ahead of another one has, when it is queued again, the
  later timestamp;
* with one pod worker (`OneWorker`; `workerNumber` is 1, `scheduler.go:147`), `QueuedVersionsCurrent`
  and `MovesNotMissed`. `CurrentInv` adds the version the worker holds: it may be outdated
  only while a newer one is queued, and then it is not brought back. `MoveInv` says that a
  move request made while the worker holds a stack has the number of the current cycle.
  With two workers TLC finds both violated: one worker's pop advances `schedulingCycle`,
  and two workers can bring versions back out of order.

`DistributorProofs` proves `ListIsCurrent` (`Spec => []ListInv`) and
`HandlersChooseRight` (`Spec => RightChoice`) for any schedulers, geolocations and
requests. `ListStrong` splits what survives a deletion from what does not: what is reported is
always listed; names are unique and no entry is outdated only before the first deletion, as
the handler of a deletion leaves the entry. The first entry of a name exists because a
non-empty set of naturals has a least element (`WFMin`).

It proves about `DistributorController`, for any distributors, creations, deletions and
restarts, `HashKeysArePartitioned` (`ControllerSpec => []HashKeysPartitioned`) and
`DistributorsAreStarted` (`[]ControllerInv`). `HashKeysPartitioned` speaks of a controller
that has handled everything; `DivisionInv` says what leads there:

* `TypesInv`: types, and where a rebalance is tells what it holds;
* `VersionsInv`: resource versions grow on the way from the API server through the watch and
  the store to the pointers of a rebalance. So a pointer whose version is current is the
  object in the store, and an `Update` with an older one is refused;
* `StartedInv`: a distributor without a process is on its way to the worker;
* `RacesInv`: when worker and listener rebalance at once, one of them holds a version that is
  no longer current (`Doomed`), or both have still to write the same one (`Shared`), and
  the first `Update` that changes it dooms the other. One that changes nothing does not;
  this is what `unnoticed` is for, and the invariant ends with it;
* `BalanceInv`: with no creation or deletion left to handle and no rebalance doomed, the one that
  runs has listed the distributors there are and has written those it passed (`OnTrack`), and
  when none runs the keys are partitioned. A rebalance that is doomed ends the worker, or is
  the error that `unbalanced` observes.

`ControllerAssumption` has the distributors finite, fewer than hash keys (of which there
are 2^63), and none with the name of the value for no key.

`ClusterProofs` proves `OnlyDeletedReported` (`Spec => []CollectorInv`) for any
number of clusters, workers and lost calls. `Deleted` follows a deletion through every
place where it waits (the listener's notification, the map, a worker that read the map,
the collector): the version there is older than the one that exists and was
numbered before. `Shapes` are the types of the records in the queue and in the workers.
It proves about `SiteCacheSync` `FirstUpdateShown` (`SitesSpec => []SyncInv`) for any number of
clusters, workers, creations, updates and deletions. What makes the *first* update arrive is
that its item was never used (`Done` with the wrong key keeps a used item out of the queue):
`OnceInv` says that a change that was made once is still to be notified or has used its item,
not both. `ShownInv` says that until then the site shows the present version or the worker is going
to read it, or another cluster has taken the entry over, which it keeps or deletes, or the
worker is about to replace. `SitesAssumption` only says that a version names a site; sites
may be shared.

The assumptions are the `ConstantsAssumption`s of the modules (sets do not contain the
value that stands for "none", bounds are naturals), the three named above
(`ControllerAssumption`, `SitesAssumption`, `GeoAssumption`) and that sites and threads are
finitely many (`FinitenessAssumption`), evaluated by TLC in each run, and the named
hypotheses above (`NoUpdates`, `OneThreadOnly`, `OneDistributor`, `OneWorker`), which the
theorems state. The inductive invariants were checked with TLC on the instances
of the runs before they were proved.

Only model-checked: the liveness properties `Terminates`, `EveryClusterGetsASite`,
`EveryClusterRegistered`, `EveryRequestDecided`, `AssignedIsScheduled`, `AssignedIsDecided` and
`BoundIsDispatched` (fairness and ENABLED are outside what the prover handles).

## Plan

1. (done) Work division, dispatcher and distributor controllers, scheduling queue,
   allocation pipeline with its abstract lifecycle; proofs of the pipeline.
2. (done) Pod pipeline, distributor's list of schedulers, `Schedule` and the accounts of
   the sites, cluster events with their two users, scheduler controller, dispatcher
   controller composed with its processes; proofs about sites and pods.
3. (done) Proofs about the dispatcher controller, the queue, the distributor's list, the
   collector, leaks, and pods with one distributor.
4. (done) Proofs about the controllers of distributors and schedulers, about the map of
   sites, about the dispatchers' processes, and about threads that schedule at once.

## Not modelled

The Kubernetes/Arktos code under `src/` outside `globalscheduler`, vendored code and
generated clients; the API server is modelled from its use (objects, resource
versions, selectors). The OpenStack client is HTTP: it is a call that creates or
deletes an instance, or fails, before or after its effect. The API proxy, the gRPC
servers and the CRD registration keep no state. Logging, latencies (except the
division), configuration and tests are left out. Allocations are those of the
namespace `default`, the one the scheduler watches.

Within the modules that exist: tombstones (`DeletedFinalStateUnknown`) and the
compression of events by an informer that has to list again; the data races of Go
maps and slices that are shared without a lock (an access is one step); a process
that `syscall.Exec` replaces keeps no goroutine, but a call it has sent may still
arrive, which only `AllocationPipeline` has; changes of a cluster's geolocation in
`SchedulerController`, whose lister is never behind the API server; a pod created
again under its old name; namespaces other than the one watched. In `SiteResources`:
selectors that name a site ID, and `Cache().UpdateSiteWithResInfo`, which acts on
another cache than `Schedule` reads. The assumed stacks, snapshot and generations of
`internal/cache/cache.go` and the pods' cache handlers have no reader in the program;
the packages `union`, `consistenthashing` and `geoLocationDistribute` no caller.
