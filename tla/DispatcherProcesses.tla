------------------------ MODULE DispatcherProcesses -------------------------
(***************************************************************************)
(* The dispatcher controller together with the dispatcher_process's it     *)
(* starts (controllers/dispatcher/dispatcher_process.go).                  *)
(*                                                                         *)
(* A process knows its dispatcher by name only.  NewProcess gets the       *)
(* object and keeps its range; Run starts an informer for that one object. *)
(* The informer has no AddFunc: the object it lists first is compared with *)
(* nothing.  Later a write of the object makes the process replace itself  *)
(* (syscall.Exec) when the range is another one than the process keeps,    *)
(* and a deletion ends it.  A process that has not handled several writes  *)
(* yet is told the last one: an earlier one could only make it read the    *)
(* same object again.                                                      *)
(***************************************************************************)
EXTENDS DispatcherController

VARIABLE procs    \* the running processes of each dispatcher, oldest first

allVars == <<vars, procs>>

\* A process reads its dispatcher, then lists it, then watches it.
Process ==
    [stage : {"starting", "read", "watching"},
     range : ClusterRanges,           \* p.clusterRange
     event : SUBSET ClusterRanges,    \* the range of a write to be handled,
                                      \* if there is one
     deleted : BOOLEAN,               \* a deletion to be handled
     missed : BOOLEAN]                \* observation: the object changed
                                      \* between the Get and the list

\* A process before NewProcess has read the object.
Starting ==
    [stage |-> "starting", range |-> NoRange, event |-> {},
     deleted |-> FALSE, missed |-> FALSE]

ProcessesTypeOK == TypeOK /\ procs \in [Dispatchers -> Seq(Process)]

ProcessesInit == Init /\ procs = [d \in Dispatchers |-> <<>>]
-----------------------------------------------------------------------------
(* What a change of dispatcher d does to its processes.                    *)

\* A write is an event for a process that watches.
ToldWrite(p, r) ==
    CASE p.stage = "watching" /\ ~p.deleted -> [p EXCEPT !.event = {r}]
      [] p.stage = "read" -> [p EXCEPT !.missed = TRUE]
      [] OTHER -> p

ToldRemoval(p) ==
    CASE p.stage = "watching" -> [p EXCEPT !.deleted = TRUE]
      [] p.stage = "read" -> [p EXCEPT !.missed = TRUE]
      [] OTHER -> p

Written(d, r) ==
    [procs EXCEPT ![d] = [k \in 1..Len(procs[d]) |-> ToldWrite(procs[d][k], r)]]

Removed(d) ==
    [procs EXCEPT ![d] = [k \in 1..Len(procs[d]) |-> ToldRemoval(procs[d][k])]]

\* The go routine of addDispatcher: ps with a new process of d.
RunProcess(d, ps) == [ps EXCEPT ![d] = Append(ps[d], Starting)]
-----------------------------------------------------------------------------
(* The steps of the users and of the controller, with their effect on the  *)
(* processes.                                                              *)

Delete(d) ==
    /\ RemoveDispatcher(d)
    /\ procs' = Removed(d)

Add(d) ==
    /\ addDispatcher(d)
    /\ procs' = IF next' = 0 THEN RunProcess(d, procs) ELSE procs

Update ==
    /\ UpdateDispatcher
    /\ LET d == dispatchers[next].name
           told == Written(d, apiRange'[d])
       IN  procs' = IF next' = 0 /\ adding # Nobody
                    THEN RunProcess(adding.name, told) ELSE told

Controller ==
    \/ \E d \in Dispatchers : Delete(d) \/ Add(d)
    \/ Update
    \/ /\ \/ \E d \in Dispatchers : CreateDispatcher(d)
          \/ \E c \in Clusters : ChangeCluster(c)
          \/ Handlers \/ Fatal \/ Restart
       /\ UNCHANGED procs
-----------------------------------------------------------------------------
(* The k-th process of dispatcher d.                                       *)

Ends(d, k) ==
    procs' = [procs EXCEPT ![d] =
                 [j \in 1..(Len(procs[d]) - 1) |-> procs[d][IF j < k THEN j ELSE j + 1]]]
Becomes(d, k, p) == procs' = [procs EXCEPT ![d] = [procs[d] EXCEPT ![k] = p]]

\* NewProcess; klog.Fatal when the dispatcher does not exist.
NewProcess(d, k) ==
    /\ procs[d][k].stage = "starting"
    /\ IF apiUid[d] = 0 THEN Ends(d, k)
       ELSE Becomes(d, k, [procs[d][k] EXCEPT !.stage = "read", !.range = apiRange[d]])

\* The informer of Run lists the dispatcher and watches it from then on;
\* there is no AddFunc.
Run(d, k) ==
    /\ procs[d][k].stage = "read"
    /\ Becomes(d, k, [procs[d][k] EXCEPT !.stage = "watching"])

\* Mutant of UpdateFunc: the process keeps the new range and goes on with
\* the informers it has, which select the old one.
UpdateFuncKeeps(d, k) ==
    /\ procs[d][k].event # {}
    /\ Becomes(d, k, [procs[d][k] EXCEPT !.event = {}])

UpdateFunc(d, k) ==
    LET p == procs[d][k] IN
    /\ p.event # {}
    /\ Becomes(d, k, IF p.event = {p.range} THEN [p EXCEPT !.event = {}] ELSE Starting)

\* os.Exit(0).
DeleteFunc(d, k) == procs[d][k].deleted /\ procs[d][k].event = {} /\ Ends(d, k)

ProcessStep ==
    /\ \E d \in Dispatchers : \E k \in 1..Len(procs[d]) :
            NewProcess(d, k) \/ Run(d, k) \/ UpdateFunc(d, k) \/ DeleteFunc(d, k)
    /\ UNCHANGED vars

ProcessesNext == Controller \/ ProcessStep

ProcessesSpec == ProcessesInit /\ [][ProcessesNext]_allVars
-----------------------------------------------------------------------------
\* Every notification and every event has been handled, by the controller
\* and by the processes.
Settled ==
    /\ Synced
    /\ \A d \in Dispatchers : \A k \in 1..Len(procs[d]) :
            LET p == procs[d][k] IN p.stage = "watching" /\ p.event = {} /\ ~p.deleted

\* Dispatcher d has a process that picks up the work bound to cluster c.
Serves(d, c) == \E k \in 1..Len(procs[d]) : InRange(c, procs[d][k].range)

\* What the division of the clusters is for: once all is handled, the work
\* bound to a cluster is picked up by a running process, and only by
\* processes of one dispatcher -- although the ranges are written one by one,
\* processes are replaced in the middle, dispatchers are deleted and created
\* again under the same name and the controller dies and starts processes a
\* second time.  The one exception are changes that fall between the Get of
\* NewProcess and the first list of its informer.
ClustersServed ==
    /\ Settled /\ Existing # {}
    /\ \A d \in Dispatchers : \A k \in 1..Len(procs[d]) : ~procs[d][k].missed
    => \A c \in apiClusters :
          /\ \E d \in Dispatchers : Serves(d, c)
          /\ \A d1, d2 \in Dispatchers : Serves(d1, c) /\ Serves(d2, c) => d1 = d2

\* Every dispatcher that exists, one created again under an old name included,
\* has a process that no deletion it was told of is going to end.
EveryDispatcherRuns ==
    Synced => \A d \in Existing : \E k \in 1..Len(procs[d]) : ~procs[d][k].deleted

\* The processes and their controller together; the state is well formed at
\* every moment.
ProcessesInv ==
    /\ ProcessesTypeOK /\ EveryDispatcherStarted
    /\ EveryDispatcherRuns /\ ClustersServed
=============================================================================
