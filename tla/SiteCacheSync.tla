---------------------------- MODULE SiteCacheSync ----------------------------
(***************************************************************************)
(* The cluster worker of a scheduler (pkg/scheduler/scheduler.go): it      *)
(* keeps SiteCacheInfoMap, the sites the scheduler places VMs on, in step  *)
(* with the Cluster objects.  The scheduler runs one such worker.          *)
(***************************************************************************)
EXTENDS ClusterEvents

CONSTANTS Sites,
          SiteOf(_, _)    \* region and zone in a version of a cluster's spec

\* An update may move a cluster to another site, and clusters of one region and
\* zone have their site in common.
ASSUME SitesAssumption ==
    \A c \in Clusters : \A v \in 1..(MaxCreate + MaxUpdate) : SiteOf(c, v) \in Sites

VARIABLE siteMap          \* SiteCacheInfoMap: the cluster and version shown

siteVars == <<eventVars, siteMap>>

NoSite == [version |-> 0]

SitesTypeOK ==
    /\ EventsTypeOK
    /\ siteMap \in [Sites -> {NoSite} \cup [cluster : Clusters, version : Nat \ {0}]]

SitesInit ==
    /\ EventsInit
    /\ siteMap = [s \in Sites |-> NoSite]

\* The handler of the work item and what the worker does next: the cluster
\* is read again after a create or update event.
Handled(w, ok) ==
    LET item == worker[w].item IN
    /\ delayed' = IF ok THEN delayed ELSE delayed \cup {item}
    /\ IF item.event = "delete" THEN FinishItem(w)
       ELSE /\ worker' = [worker EXCEPT ![w].step = "check"]
            /\ UNCHANGED queue
    /\ UNCHANGED <<users, listener, up>>

\* updateStaticSiteResourceInfo, events create and update: a new SiteCacheInfo
\* replaces the one of the site.
updateStaticSite(w) ==
    LET c == worker[w].item.key IN
    /\ up /\ worker[w].step = "sync" /\ worker[w].item.event # "delete"
    /\ siteMap' = IF store[c] = 0 THEN siteMap
                  ELSE [siteMap EXCEPT ![SiteOf(c, store[c])] =
                                            [cluster |-> c, version |-> store[c]]]
    /\ Handled(w, store[c] # 0)
    /\ UNCHANGED deletedClusters

\* The same, event delete: the cluster is looked up before the site is removed,
\* and it is only found when it has been created again.
deleteStaticSite(w) ==
    LET c == worker[w].item.key
        v == deletedClusters[c]
    IN  /\ up /\ worker[w].step = "sync" /\ worker[w].item.event = "delete"
        /\ IF store[c] = 0 THEN UNCHANGED <<siteMap, deletedClusters>>
           ELSE /\ siteMap' = IF v = 0 THEN siteMap
                              ELSE [siteMap EXCEPT ![SiteOf(c, v)] = NoSite]
                /\ deletedClusters' = [deletedClusters EXCEPT ![c] = 0]
        /\ Handled(w, store[c] # 0)

ClusterWorker(w) ==
    \/ Take(w) /\ UNCHANGED siteMap
    \/ CheckAgain(w) /\ UNCHANGED siteMap
    \/ updateStaticSite(w)
    \/ deleteStaticSite(w)

SitesNext ==
    \/ (Users \/ Listener \/ Retry) /\ UNCHANGED siteMap
    \/ \E w \in Workers : ClusterWorker(w)

\* The listener, the workers and the timers of the queue do not stop.
SitesFairness ==
    /\ WF_siteVars(Listener /\ UNCHANGED siteMap)
    /\ WF_siteVars(Retry /\ UNCHANGED siteMap)
    /\ \A w \in Workers : WF_siteVars(ClusterWorker(w))

SitesSpec == SitesInit /\ [][SitesNext]_siteVars
SitesLiveSpec == SitesSpec /\ SitesFairness
-----------------------------------------------------------------------------
(* Properties.                                                             *)

Shown(c) == siteMap[SiteOf(c, store[c])] = [cluster |-> c, version |-> store[c]]

\* The map has one entry for a region and zone (scheduler.go:849-903): another
\* cluster that was there as well shows itself in it, or its deletion has
\* emptied it.
TakenOver(c) ==
    LET s == SiteOf(c, store[c]) IN
    \E d \in Clusters \ {c} :
        /\ \E v \in 1..lastVersion[d] : SiteOf(d, v) = s
        /\ IF siteMap[s] = NoSite THEN deletes[d] > 0 ELSE siteMap[s].cluster = d

\* A cluster that was created and updated at most once, and not deleted, is
\* shown with its current spec once everything is handled, however the
\* creation, the update and the worker's two reads interleave, unless a
\* cluster of the same region and zone took its entry over.  A second
\* update is not applied: Done is called with the key instead of the item, so
\* the queue takes the item of the first one to be in work for ever
\* (scheduler.go:770).
FirstUpdateApplied ==
    Settled => \A c \in Clusters :
        creates[c] = 1 /\ updates[c] <= 1 /\ deletes[c] = 0 => Shown(c) \/ TakenOver(c)

\* Every cluster that is created gets a site at some time, though another may
\* take it over later, unless it is deleted or the process crashes on a deleted
\* one.
EveryClusterGetsASite ==
    \A c \in Clusters :
        <>(store[c] # 0) => <>(\/ \E s \in Sites : siteMap[s] # NoSite /\ siteMap[s].cluster = c
                              \/ deletes[c] > 0 \/ ~up)

\* What the listener and the worker keep up at every moment: work items, and
\* sites that show a version of a cluster.
SyncInv == SitesTypeOK /\ FirstUpdateApplied
=============================================================================
