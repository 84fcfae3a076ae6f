--------------------------- MODULE ClusterInfoTree ---------------------------
(***************************************************************************)
(* The tree of geolocations the scheduler controller keeps                 *)
(* (controllers/scheduler/scheduler_cluster_union.go): countries, areas,   *)
(* provinces, cities and, as leaves, clusters.  A node counts the clusters *)
(* below it and the attributes they have.  A node is named by its path     *)
(* from the root; the tree is a function from the paths of its nodes.      *)
(***************************************************************************)
EXTENDS Naturals, Sequences, Bags

\* getGeoLocationKey has a key at five levels.
GeoLevels == 5

NewClusterInfoNode == [clusterMap |-> EmptyBag, unionMap |-> EmptyBag]

Root == <<>>
NewTree == [p \in {Root} |-> NewClusterInfoNode]

addMap(map, key) == map (+) SetToBag({key})
delMap(map, key) == map (-) SetToBag({key})

PathPrefixes(path, depths) == {SubSeq(path, 1, d) : d \in depths}
Extends(q, p) == Len(q) > Len(p) /\ SubSeq(q, 1, Len(p)) = p

\* AddCluster: every node on the path of the cluster, as far as its
\* geolocation goes, is made if need be and counts it.
AddCluster(tree, cluster, path, attribute) ==
    LET way == PathPrefixes(path, 0..Len(path))
        Node(p) == IF p \in DOMAIN tree THEN tree[p] ELSE NewClusterInfoNode
    IN  [p \in DOMAIN tree \cup way |->
            IF p \notin way THEN tree[p]
            ELSE [clusterMap |-> addMap(Node(p).clusterMap, cluster),
                  unionMap   |-> addMap(Node(p).unionMap, attribute)]]

\* Mutant of DelCluster: the child on the way is removed whether or not it has
\* children left.
DelClusterAlways(tree, cluster, path, attribute) ==
    LET gone == PathPrefixes(path, 1..Len(path)) IN
    [p \in DOMAIN tree \ gone |->
        IF p # Root THEN tree[p]
        ELSE [clusterMap |-> delMap(tree[p].clusterMap, cluster),
              unionMap   |-> delMap(tree[p].unionMap, attribute)]]

\* DelCluster: the way goes down while there is a child.  Its nodes except the
\* last no longer count the cluster; on the way back a child without children
\* is removed.
DelCluster(tree, cluster, path, attribute) ==
    LET way  == {p \in PathPrefixes(path, 0..Len(path)) :
                    \A q \in PathPrefixes(p, 0..Len(p)) : q \in DOMAIN tree}
        last == CHOOSE p \in way : \A q \in way : Len(q) <= Len(p)
        gone == {p \in way \ {Root} :
                    \A q \in DOMAIN tree : Extends(q, p) => q \in way}
    IN  [p \in DOMAIN tree \ gone |->
            IF p \notin way \ {last} THEN tree[p]
            ELSE [clusterMap |-> delMap(tree[p].clusterMap, cluster),
                  unionMap   |-> delMap(tree[p].unionMap, attribute)]]

Level(tree, depth) == {p \in DOMAIN tree : Len(p) = depth}
=============================================================================
