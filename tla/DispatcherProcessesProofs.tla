--------------------- MODULE DispatcherProcessesProofs ----------------------
(***************************************************************************)
(* Proofs about the dispatcher controller and its processes, for any       *)
(* number of dispatchers, clusters, changes and restarts.                  *)
(***************************************************************************)
EXTENDS DispatcherProcesses, WellFoundedInduction, FiniteSetTheorems, TLAPS

(* The lemmas about EvenlyDivide; those about its loop are not used here.  *)
Division == INSTANCE EvenlyDivideProofs
    WITH MaxInt <- 0, size <- 0, upper <- 0, i <- 0, start <- 0, res <- <<>>, pc <- ""

(* The ranges of balance() divide the indices of the cluster names.        *)
LEMMA RangesPartition ==
    ASSUME NEW s \in Nat \ {0}, NEW u \in Nat
    PROVE  \E n \in 1..s :
           /\ Len(EvenlyDivide(s, u)) = n
           /\ \A j \in 1..n : /\ EvenlyDivide(s, u)[j][1] \in 0..u
                              /\ EvenlyDivide(s, u)[j][2] \in 0..u
           /\ \A k \in 0..u : \E j \in 1..n :
                  EvenlyDivide(s, u)[j][1] <= k /\ k <= EvenlyDivide(s, u)[j][2]
           /\ \A k \in 0..u : \A i1, i2 \in 1..n :
                  /\ EvenlyDivide(s, u)[i1][1] <= k /\ k <= EvenlyDivide(s, u)[i1][2]
                  /\ EvenlyDivide(s, u)[i2][1] <= k /\ k <= EvenlyDivide(s, u)[i2][2]
                  => i1 = i2
<1>1. \A k : Division!ChunkStart(s, u, k) = ChunkStart(s, u, k)
  BY DEF Division!ChunkStart, Division!chunk, Division!mod, Division!Smaller,
         ChunkStart, chunk, mod, Smaller
<1>2. Division!ChunkCount(s, u) = ChunkCount(s, u)
  BY DEF Division!ChunkCount, Division!Smaller, ChunkCount, Smaller
<1>3. Division!EvenlyDivide(s, u) = EvenlyDivide(s, u)
  BY <1>1, <1>2 DEF Division!EvenlyDivide, EvenlyDivide
<1>. QED
  BY <1>2, <1>3, Division!ChunksPartition
-----------------------------------------------------------------------------
(* The sorted array of cluster names.                                      *)
SortedArray(ss) ==
    /\ ss \in Seq(Clusters)
    /\ \A k, l \in 1..Len(ss) : k < l => ss[k] < ss[l]

(* sort.SearchStrings finds the place of s: the entries before it are      *)
(* smaller, the others are not.                                            *)
LEMMA SearchFindsPlace ==
    ASSUME NEW ss, SortedArray(ss), NEW s \in Clusters
    PROVE  /\ SearchStrings(ss, s) \in 0..Len(ss)
           /\ \A k \in 1..Len(ss) : ss[k] \in Nat
           /\ \A k \in 1..Len(ss) : k <= SearchStrings(ss, s) <=> ss[k] < s
<1> DEFINE n == Len(ss)
           Beyond == {k \in 1..(n + 1) : k <= n => ~(ss[k] < s)}
<1>1. n \in Nat /\ s \in Nat /\ \A k \in 1..n : ss[k] \in Nat
  <2>1. n \in Nat /\ \A k \in 1..n : ss[k] \in Clusters
    BY DEF SortedArray
  <2>. QED
    BY <2>1, ConstantsAssumption
<1>2. \A k, l \in 1..n : k < l => ss[k] < ss[l]
  BY DEF SortedArray
<1> HIDE DEF n
<1>3. Beyond \subseteq Nat /\ Beyond # {}
  <2>1. n + 1 \in Beyond
    BY <1>1
  <2>. QED
    BY <1>1, <2>1
<1>4. PICK m \in Beyond : \A k \in Beyond : ~(<<k, m>> \in OpToRel(<, Nat))
  BY <1>3, NatLessThanWellFounded, WFMin
<1>5. \A k \in Beyond : ~(k < m)
  <2> HIDE DEF Beyond
  <2>. QED
    BY <1>3, <1>4 DEF OpToRel
<1>6. m \in 1..(n + 1) /\ \A k \in 1..n : k < m <=> ss[k] < s
  <2>1. ASSUME NEW k \in 1..n, k < m PROVE ss[k] < s
    BY <1>1, <1>5, <2>1
  <2>2. ASSUME NEW k \in 1..n, ~(k < m) PROVE ~(ss[k] < s)
    <3>1. m \in 1..n /\ ~(ss[m] < s) /\ (m = k \/ m < k)
      BY <1>1, <2>2
    <3>2. m < k => ss[m] < ss[k]
      BY <1>2, <3>1
    <3>. QED
      BY <1>1, <3>1, <3>2
  <2>. QED
    BY <2>1, <2>2
<1>7. {k \in 1..n : ss[k] < s} = 1..(m - 1)
  BY <1>1, <1>6
<1>8. Cardinality(1..(m - 1)) = m - 1
  <2>1. m - 1 \in Int /\ 1 \in Int /\ m - 1 \in Nat
    BY <1>1, <1>6
  <2>2. Cardinality(1..(m - 1)) = IF 1 > m - 1 THEN 0 ELSE (m - 1) - 1 + 1
    BY <2>1, FS_Interval
  <2>. QED
    BY <2>1, <2>2
<1>9. SearchStrings(ss, s) = m - 1
  BY <1>7, <1>8 DEF SearchStrings, n
<1>. QED
  BY <1>1, <1>6, <1>9 DEF n

(* An insertion keeps the array sorted and adds s.                         *)
LEMMA InsertSorts ==
    ASSUME NEW ss, SortedArray(ss), NEW s \in Clusters,
           \A k \in 1..Len(ss) : ss[k] # s
    PROVE  /\ SortedArray(InsertIntoSortedArray(ss, s))
           /\ InsertIntoSortedArray(ss, s) # <<>>
           /\ \A c : (\E k \in 1..Len(InsertIntoSortedArray(ss, s)) :
                          InsertIntoSortedArray(ss, s)[k] = c)
                     <=> c = s \/ \E k \in 1..Len(ss) : ss[k] = c
<1> DEFINE n == Len(ss)
           i == SearchStrings(ss, s)
           e(k) == IF k <= i THEN ss[k] ELSE IF k = i + 1 THEN s ELSE ss[k - 1]
           r == [k \in 1..(n + 1) |-> e(k)]
<1>1. /\ n \in Nat /\ s \in Nat /\ i \in 0..n /\ i \in Nat
      /\ \A k \in 1..n : ss[k] \in Clusters /\ ss[k] \in Nat
      /\ \A k \in 1..n : ss[k] # s
      /\ \A k \in 1..n : k <= i <=> ss[k] < s
  BY ConstantsAssumption, SearchFindsPlace DEF SortedArray
<1>2. \A k, l \in 1..n : k < l => ss[k] < ss[l]
  BY DEF SortedArray
<1>3. InsertIntoSortedArray(ss, s) = r
  BY DEF InsertIntoSortedArray
<1> HIDE DEF n, i
<1>4. \A k \in 1..(n + 1) : e(k) \in Clusters /\ r[k] = e(k)
  BY <1>1
<1>5. r \in Seq(Clusters) /\ Len(r) = n + 1
  BY <1>1, <1>4
<1>6. ASSUME NEW k \in 1..(n + 1), NEW l \in 1..(n + 1), k < l PROVE e(k) < e(l)
  <2>1. CASE l <= i
    BY <1>1, <1>2, <1>6, <2>1
  <2>2. CASE l = i + 1
    BY <1>1, <1>6, <2>2
  <2>3. CASE l > i + 1
    <3>1. l - 1 \in 1..n /\ e(l) = ss[l - 1] /\ ss[l - 1] \in Nat /\ s < ss[l - 1]
      BY <1>1, <2>3
    <3>2. CASE k <= i
      BY <1>1, <1>2, <3>1, <3>2, <2>3
    <3>3. CASE k = i + 1
      BY <1>1, <3>1, <3>3
    <3>4. CASE k > i + 1
      <4>1. k - 1 \in 1..n /\ e(k) = ss[k - 1] /\ k - 1 < l - 1
        BY <1>1, <1>6, <3>4
      <4>. QED
        BY <1>2, <3>1, <4>1
    <3>. QED
      BY <1>1, <3>2, <3>3, <3>4
  <2>. QED
    BY <1>1, <2>1, <2>2, <2>3
<1>7. SortedArray(r)
  BY <1>4, <1>5, <1>6 DEF SortedArray
<1>8. ASSUME NEW c
      PROVE  (\E k \in 1..(n + 1) : e(k) = c) <=> (c = s \/ \E k \in 1..n : ss[k] = c)
  <2>1. ASSUME NEW k \in 1..(n + 1) PROVE e(k) = s \/ \E l \in 1..n : ss[l] = e(k)
    BY <1>1
  <2>2. i + 1 \in 1..(n + 1) /\ e(i + 1) = s
    BY <1>1
  <2>3. ASSUME NEW k \in 1..n PROVE \E l \in 1..(n + 1) : e(l) = ss[k]
    <3>1. CASE k <= i
      BY <1>1, <3>1
    <3>2. CASE ~(k <= i)
      <4>1. k + 1 \in 1..(n + 1) /\ e(k + 1) = ss[k]
        BY <1>1, <3>2
      <4>. QED
        BY <4>1
    <3>. QED
      BY <3>1, <3>2
  <2> HIDE DEF e
  <2>. QED
    BY <2>1, <2>2, <2>3
<1>9. r # <<>>
  <2> HIDE DEF r
  <2>. QED
    BY <1>1, <1>5
<1>10. \A c : (\E k \in 1..Len(r) : r[k] = c) <=> (c = s \/ \E k \in 1..n : ss[k] = c)
  BY <1>4, <1>5, <1>8
<1>. QED
  BY <1>3, <1>7, <1>9, <1>10 DEF n

(* A removal keeps the array sorted and takes s out.                       *)
LEMMA RemoveSorts ==
    ASSUME NEW ss, SortedArray(ss), NEW s \in Clusters,
           \E k \in 1..Len(ss) : ss[k] = s
    PROVE  /\ SortedArray(RemoveFromSortedArray(ss, s))
           /\ \A c : (\E k \in 1..Len(RemoveFromSortedArray(ss, s)) :
                          RemoveFromSortedArray(ss, s)[k] = c)
                     <=> c # s /\ \E k \in 1..Len(ss) : ss[k] = c
<1> DEFINE n == Len(ss)
           i == SearchStrings(ss, s)
           e(k) == IF k <= i THEN ss[k] ELSE ss[k + 1]
           r == [k \in 1..(n - 1) |-> e(k)]
<1>1. /\ n \in Nat /\ s \in Nat /\ i \in 0..n /\ i \in Nat
      /\ \A k \in 1..n : ss[k] \in Clusters /\ ss[k] \in Nat
      /\ \A k \in 1..n : k <= i <=> ss[k] < s
  BY ConstantsAssumption, SearchFindsPlace DEF SortedArray
<1>2. \A k, l \in 1..n : k < l => ss[k] < ss[l]
  BY DEF SortedArray
<1>3. PICK p \in 1..n : ss[p] = s
  OBVIOUS
<1> HIDE DEF n, i
<1>4. p = i + 1
  <2>1. ~(p <= i)
    BY <1>1, <1>3
  <2>2. ~(i + 1 < p)
    <3> SUFFICES ASSUME i + 1 < p PROVE FALSE
      OBVIOUS
    <3>1. i + 1 \in 1..n /\ ss[i + 1] < s /\ ~(i + 1 <= i)
      BY <1>1, <1>2, <1>3
    <3>. QED
      BY <1>1, <3>1
  <2>. QED
    BY <1>1, <2>1, <2>2
<1>5. RemoveFromSortedArray(ss, s) = r
  BY <1>1, <1>3, <1>4 DEF RemoveFromSortedArray, n, i
<1>6. /\ \A k \in 1..(n - 1) : e(k) \in Clusters /\ r[k] = e(k)
      /\ n - 1 \in Nat
  BY <1>1, <1>3
<1>7. r \in Seq(Clusters) /\ Len(r) = n - 1
  BY <1>6
<1>8. ASSUME NEW k \in 1..(n - 1), NEW l \in 1..(n - 1), k < l PROVE e(k) < e(l)
  <2>1. /\ k \in 1..n /\ l \in 1..n /\ k + 1 \in 1..n /\ l + 1 \in 1..n
        /\ k < l + 1 /\ k + 1 < l + 1
    BY <1>1, <1>8
  <2>2. ss[k] < ss[l] /\ ss[k] < ss[l + 1] /\ ss[k + 1] < ss[l + 1]
    BY <1>2, <1>8, <2>1
  <2>. QED
    BY <1>1, <1>8, <2>2
<1>9. SortedArray(r)
  BY <1>6, <1>7, <1>8 DEF SortedArray
<1>10. ASSUME NEW c
       PROVE  (\E k \in 1..(n - 1) : e(k) = c) <=> (c # s /\ \E k \in 1..n : ss[k] = c)
  <2>1. ASSUME NEW k \in 1..(n - 1) PROVE e(k) # s /\ \E l \in 1..n : ss[l] = e(k)
    <3>1. CASE k <= i
      BY <1>1, <3>1
    <3>2. CASE ~(k <= i)
      <4>1. k + 1 \in 1..n /\ p < k + 1 /\ e(k) = ss[k + 1]
        BY <1>1, <1>4, <3>2
      <4>2. ss[p] < ss[k + 1]
        BY <1>2, <4>1
      <4>. QED
        BY <1>1, <1>3, <4>1, <4>2
    <3>. QED
      BY <3>1, <3>2
  <2>2. ASSUME NEW k \in 1..n, ss[k] # s PROVE \E l \in 1..(n - 1) : e(l) = ss[k]
    <3>1. k # p
      BY <1>3, <2>2
    <3>2. CASE k <= i
      <4>1. k \in 1..(n - 1) /\ e(k) = ss[k]
        BY <1>1, <1>4, <3>2
      <4>. QED
        BY <4>1
    <3>3. CASE ~(k <= i)
      <4>1. k - 1 \in 1..(n - 1) /\ e(k - 1) = ss[k]
        BY <1>1, <1>4, <3>1, <3>3
      <4>. QED
        BY <4>1
    <3>. QED
      BY <3>2, <3>3
  <2> HIDE DEF e
  <2>. QED
    BY <2>1, <2>2
<1>. QED
  BY <1>5, <1>6, <1>7, <1>9, <1>10 DEF n
-----------------------------------------------------------------------------
(* The list of dispatchers.  Names are listed once, as an informer does    *)
(* not notify the addition of what it has notified.                        *)
NamedOnce(ds) ==
    \A k, l \in 1..Len(ds) : ds[k].name = ds[l].name => k = l

(* The last entry takes the place of the one that is removed: the others   *)
(* stay, each once.                                                        *)
LEMMA ListLosesOne ==
    ASSUME NEW ds \in Seq(Held), NamedOnce(ds), NEW d,
           \E k \in 1..Len(ds) : ds[k].name = d
    PROVE  /\ RemoveFromList(ds, d) \in Seq(Held)
           /\ NamedOnce(RemoveFromList(ds, d))
           /\ \A h : (\E k \in 1..Len(RemoveFromList(ds, d)) :
                          RemoveFromList(ds, d)[k] = h)
                     <=> h.name # d /\ \E k \in 1..Len(ds) : ds[k] = h
<1> DEFINE n == Len(ds)
           Is(k) == ds[k].name = d /\ \A l \in 1..(k - 1) : ds[l].name # d
           p == CHOOSE k \in 1..n : Is(k)
           e(k) == IF k = p THEN ds[n] ELSE ds[k]
           r == [k \in 1..(n - 1) |-> e(k)]
<1>1. n \in Nat /\ \A k \in 1..n : ds[k] \in Held
  OBVIOUS
<1>2. \A k, l \in 1..n : ds[k].name = ds[l].name => k = l
  BY DEF NamedOnce
<1>3. RemoveFromList(ds, d) = r
  BY DEF RemoveFromList
<1>4. PICK q \in 1..n : ds[q].name = d
  OBVIOUS
<1> HIDE DEF n
<1>5. Is(q)
  <2>1. \A l \in 1..(q - 1) : l \in 1..n /\ l # q
    BY <1>1
  <2>. QED
    BY <1>2, <1>4, <2>1
<1>6. p \in 1..n /\ ds[p].name = d
  <2> HIDE DEF Is
  <2>1. p \in 1..n /\ Is(p)
    BY <1>5
  <2>. QED
    BY <2>1 DEF Is
<1> HIDE DEF p
<1>7. n - 1 \in Nat /\ \A k \in 1..(n - 1) : e(k) \in Held /\ r[k] = e(k)
  BY <1>1, <1>6
<1>8. r \in Seq(Held) /\ Len(r) = n - 1
  BY <1>7
<1>9. ASSUME NEW k \in 1..(n - 1), NEW l \in 1..(n - 1), e(k).name = e(l).name
      PROVE  k = l
  <2>1. k \in 1..n /\ l \in 1..n /\ n \in 1..n /\ k # n /\ l # n
    BY <1>1
  <2>. QED
    BY <1>2, <1>9, <2>1
<1>10. NamedOnce(r)
  BY <1>7, <1>8, <1>9 DEF NamedOnce
<1>11. ASSUME NEW h
       PROVE  (\E k \in 1..(n - 1) : e(k) = h) <=> (h.name # d /\ \E k \in 1..n : ds[k] = h)
  <2>1. ASSUME NEW k \in 1..(n - 1) PROVE e(k).name # d /\ \E l \in 1..n : ds[l] = e(k)
    <3>1. k \in 1..n /\ n \in 1..n /\ k # n
      BY <1>1
    <3>. QED
      BY <1>2, <1>6, <3>1
  <2>2. ASSUME NEW k \in 1..n, ds[k].name # d PROVE \E l \in 1..(n - 1) : e(l) = ds[k]
    <3>1. CASE k = n
      <4>1. p \in 1..(n - 1) /\ e(p) = ds[n]
        BY <1>1, <1>6, <2>2, <3>1
      <4>. QED
        BY <3>1, <4>1
    <3>2. CASE k # n
      <4>1. k \in 1..(n - 1) /\ e(k) = ds[k]
        BY <1>1, <1>6, <2>2, <3>2
      <4>. QED
        BY <4>1
    <3>. QED
      BY <3>1, <3>2
  <2> HIDE DEF e
  <2>. QED
    BY <2>1, <2>2
<1>12. \A h : (\E k \in 1..Len(r) : r[k] = h)
                <=> (h.name # d /\ \E k \in 1..n : ds[k] = h)
  BY <1>7, <1>8, <1>11
<1>. QED
  BY <1>3, <1>8, <1>10, <1>12 DEF n
-----------------------------------------------------------------------------
(* What the controller has in its lists is what its informers notified.    *)
ClustersListed ==
    /\ SortedArray(clusters)
    /\ \A c \in Clusters :
           c \in seenClusters <=> \E k \in 1..Len(clusters) : clusters[k] = c

DispatchersListed ==
    /\ NamedOnce(dispatchers)
    /\ \A k \in 1..Len(dispatchers) :
           seenUid[dispatchers[k].name] = dispatchers[k].uid
    /\ \A d \in Dispatchers : seenUid[d] # 0 =>
           \E k \in 1..Len(dispatchers) : dispatchers[k].name = d

(* An object created again differs from what the controller holds.         *)
UidsNumbered ==
    \A d \in Dispatchers : apiUid[d] <= lastUid /\ seenUid[d] <= lastUid

(* A process was started for each entry, or will be before dc.mu is        *)
(* released.                                                               *)
ProcessesStarted ==
    /\ next = 0 => adding = Nobody
    /\ \A k \in 1..Len(dispatchers) :
           dispatchers[k].uid \in started \/ dispatchers[k] = adding

(* Every object that the controller holds, and that balance() has written  *)
(* already, has the range that the present lists give it.                  *)
RangesWritten ==
    /\ next # 0 => clusters # <<>>
    /\ clusters # <<>> =>
          \A k \in 1..Len(dispatchers) :
             /\ next = 0 \/ k < next
             /\ apiUid[dispatchers[k].name] = dispatchers[k].uid
             => apiRange[dispatchers[k].name] = RangeFor(k)

ControllerInv ==
    /\ TypeOK
    /\ ClustersListed /\ DispatchersListed /\ UidsNumbered
    /\ ProcessesStarted /\ RangesWritten

(* What balance() gives is a pair of cluster names, or no range.           *)
LEMMA RangeForTyped ==
    ASSUME TypeOK, clusters # <<>>, NEW j \in 1..Len(dispatchers)
    PROVE  RangeFor(j) \in ClusterRanges
<1> DEFINE s == Len(dispatchers)
           u == Len(clusters) - 1
           R == EvenlyDivide(s, u)
<1>1. /\ s \in Nat \ {0} /\ u \in Nat
      /\ \A k \in 0..u : clusters[k + 1] \in Clusters
  BY DEF TypeOK
<1> HIDE DEF s, u
<1>2. PICK n \in 1..s : /\ Len(R) = n
                        /\ \A k \in 1..n : R[k][1] \in 0..u /\ R[k][2] \in 0..u
  BY <1>1, RangesPartition
<1>3. RangeFor(j) = IF j <= Len(R)
                    THEN <<clusters[R[j][1] + 1], clusters[R[j][2] + 1]>> ELSE NoRange
  BY DEF RangeFor, s, u
<1> HIDE DEF R
<1>4. j \in 1..s /\ n \in Nat
  BY <1>1, <1>2 DEF s
<1>5. CASE j <= n
  <2>1. j \in 1..n
    BY <1>1, <1>4, <1>5
  <2>2. R[j][1] \in 0..u /\ R[j][2] \in 0..u
    BY <1>2, <2>1
  <2>. QED
    BY <1>1, <1>2, <1>3, <1>5, <2>2 DEF ClusterRanges
<1>6. CASE ~(j <= n)
  BY <1>2, <1>3, <1>6 DEF ClusterRanges
<1>. QED
  BY <1>5, <1>6

(* The users of the API server: a dispatcher created again has a new uid,  *)
(* so the controller has not written it; nothing else they do concerns     *)
(* what the controller wrote.                                              *)
LEMMA UserStep ==
    ASSUME ControllerInv,
           \/ \E d \in Dispatchers : CreateDispatcher(d) \/ RemoveDispatcher(d)
           \/ \E c \in Clusters : ChangeCluster(c)
    PROVE  ControllerInv'
<1>1. UNCHANGED <<seenClusters, seenUid, clusters, dispatchers, next, adding, started,
                  up, restarts>>
  BY DEF CreateDispatcher, RemoveDispatcher, ChangeCluster
<1>2. ClustersListed' /\ DispatchersListed' /\ ProcessesStarted'
      /\ \A k : RangeFor(k)' = RangeFor(k)
  BY <1>1 DEF ControllerInv, ClustersListed, DispatchersListed, ProcessesStarted, RangeFor
<1>3. \A k \in 1..Len(dispatchers) :
          /\ dispatchers[k].name \in Dispatchers /\ dispatchers[k].uid \in 1..MaxUid
          /\ dispatchers[k].uid <= lastUid
  <2>1. \A k \in 1..Len(dispatchers) : dispatchers[k] \in Held
    BY DEF ControllerInv, TypeOK
  <2>. QED
    BY <2>1 DEF ControllerInv, DispatchersListed, UidsNumbered, Held
<1>4. ASSUME NEW d \in Dispatchers, CreateDispatcher(d) PROVE ControllerInv'
  <2>1. /\ apiUid \in [Dispatchers -> 0..MaxUid] /\ lastUid \in 0..MaxUid
        /\ apiRange \in [Dispatchers -> ClusterRanges] /\ lastUid < MaxUid
        /\ lastUid' = lastUid + 1
        /\ apiUid' = [apiUid EXCEPT ![d] = lastUid + 1]
        /\ apiRange' = [apiRange EXCEPT ![d] = NoRange]
        /\ UNCHANGED <<apiClusters, changes>> /\ MaxUid \in Nat
        /\ seenUid \in [Dispatchers -> 0..MaxUid]
    BY <1>4, ConstantsAssumption DEF ControllerInv, TypeOK, CreateDispatcher
  <2>2. TypeOK'
    BY <1>1, <2>1 DEF ControllerInv, TypeOK, ClusterRanges
  <2>3. UidsNumbered'
    BY <1>1, <2>1 DEF ControllerInv, UidsNumbered
  <2>4. ASSUME NEW k \in 1..Len(dispatchers),
               apiUid'[dispatchers[k].name] = dispatchers[k].uid
        PROVE  /\ apiUid[dispatchers[k].name] = dispatchers[k].uid
               /\ apiRange'[dispatchers[k].name] = apiRange[dispatchers[k].name]
    BY <1>3, <2>1, <2>4
  <2>5. RangesWritten'
    BY <1>1, <1>2, <2>4 DEF ControllerInv, RangesWritten
  <2>. QED
    BY <1>2, <2>2, <2>3, <2>5 DEF ControllerInv
<1>5. ASSUME NEW d \in Dispatchers, RemoveDispatcher(d) PROVE ControllerInv'
  <2>1. /\ apiUid \in [Dispatchers -> 0..MaxUid] /\ lastUid \in 0..MaxUid
        /\ apiRange \in [Dispatchers -> ClusterRanges]
        /\ apiUid' = [apiUid EXCEPT ![d] = 0]
        /\ apiRange' = [apiRange EXCEPT ![d] = NoRange]
        /\ UNCHANGED <<apiClusters, changes, lastUid>>
    BY <1>5 DEF ControllerInv, TypeOK, RemoveDispatcher
  <2>2. TypeOK'
    BY <1>1, <2>1, ConstantsAssumption DEF ControllerInv, TypeOK, ClusterRanges
  <2>3. UidsNumbered'
    BY <1>1, <2>1 DEF ControllerInv, UidsNumbered
  <2>4. ASSUME NEW k \in 1..Len(dispatchers),
               apiUid'[dispatchers[k].name] = dispatchers[k].uid
        PROVE  /\ apiUid[dispatchers[k].name] = dispatchers[k].uid
               /\ apiRange'[dispatchers[k].name] = apiRange[dispatchers[k].name]
    BY <1>3, <2>1, <2>4
  <2>5. RangesWritten'
    BY <1>1, <1>2, <2>4 DEF ControllerInv, RangesWritten
  <2>. QED
    BY <1>2, <2>2, <2>3, <2>5 DEF ControllerInv
<1>6. ASSUME NEW c \in Clusters, ChangeCluster(c) PROVE ControllerInv'
  <2>1. /\ UNCHANGED <<apiUid, apiRange, lastUid>>
        /\ apiClusters' \subseteq Clusters /\ changes' \in 0..MaxClusterChange
    BY <1>6, ConstantsAssumption DEF ControllerInv, TypeOK, ChangeCluster
  <2>2. TypeOK'
    BY <1>1, <2>1 DEF ControllerInv, TypeOK
  <2>3. UidsNumbered' /\ RangesWritten'
    BY <1>1, <1>2, <2>1 DEF ControllerInv, UidsNumbered, RangesWritten
  <2>. QED
    BY <1>2, <2>2, <2>3 DEF ControllerInv
<1>. QED
  BY <1>4, <1>5, <1>6

(* One write of balance(): the entries before next have their ranges, and  *)
(* the one that is written gets its own; after the last one all have.      *)
LEMMA WriteStep ==
    ASSUME ControllerInv, UpdateDispatcher
    PROVE  ControllerInv'
<1> DEFINE h == dispatchers[next]
<1>1. /\ next \in 1..Len(dispatchers) /\ Len(dispatchers) \in Nat
      /\ dispatchers \in Seq(Held) /\ h \in Held
      /\ apiRange \in [Dispatchers -> ClusterRanges]
      /\ \A k \in 1..Len(dispatchers) : /\ dispatchers[k].name \in Dispatchers
                                         /\ dispatchers[k].uid \in 1..MaxUid
      /\ clusters # <<>>
  <2>1. /\ next \in 0..Len(dispatchers) /\ next > 0 /\ dispatchers \in Seq(Held)
        /\ apiRange \in [Dispatchers -> ClusterRanges]
    BY DEF ControllerInv, TypeOK, UpdateDispatcher
  <2>2. Len(dispatchers) \in Nat /\ \A k \in 1..Len(dispatchers) : dispatchers[k] \in Held
    BY <2>1
  <2>3. next \in 1..Len(dispatchers) /\ h \in Held
    BY <2>1, <2>2
  <2>4. \A g \in Held : g.name \in Dispatchers /\ g.uid \in 1..MaxUid
    BY DEF Held
  <2>5. clusters # <<>>
    BY <2>3 DEF ControllerInv, RangesWritten
  <2>. QED
    BY <2>1, <2>2, <2>3, <2>4, <2>5
<1>2. UNCHANGED <<apiClusters, apiUid, lastUid, changes, up, restarts, seenClusters,
                  seenUid, clusters, dispatchers>>
  BY DEF UpdateDispatcher
<1>3. apiRange' = [apiRange EXCEPT ![h.name] = RangeFor(next)]
  BY DEF UpdateDispatcher
<1>4. /\ next < Len(dispatchers) => next' = next + 1 /\ UNCHANGED <<adding, started>>
      /\ next = Len(dispatchers) => Finish
  BY <1>1 DEF UpdateDispatcher
<1>5. next' \in 0..Len(dispatchers') /\ adding' \in Held \cup {Nobody}
      /\ started' \subseteq 1..MaxUid
  <2>1. CASE next < Len(dispatchers)
    <3>1. next + 1 \in 0..Len(dispatchers)
      BY <1>1, <2>1
    <3>. QED
      BY <1>2, <1>4, <2>1, <3>1 DEF ControllerInv, TypeOK
  <2>2. CASE next = Len(dispatchers)
    <3>1. adding.uid \in {0} \cup 1..MaxUid
      <4>1. adding \in Held \/ adding = Nobody
        BY DEF ControllerInv, TypeOK
      <4>2. Nobody.uid = 0 /\ \A g \in Held : g.uid \in 1..MaxUid
        BY DEF Nobody, Held
      <4>. QED
        BY <4>1, <4>2
    <3>2. started \subseteq 1..MaxUid
      BY DEF ControllerInv, TypeOK
    <3>3. next' = 0 /\ adding' = Nobody /\ started' = started \cup ({adding.uid} \ {0})
      BY <1>4, <2>2 DEF Finish
    <3>4. 0 \in 0..Len(dispatchers')
      BY <1>1, <1>2
    <3>. QED
      BY <3>1, <3>2, <3>3, <3>4
  <2>. QED
    BY <1>1, <2>1, <2>2
<1>6. TypeOK'
  <2>1. apiRange' \in [Dispatchers -> ClusterRanges]
    <3>1. RangeFor(next) \in ClusterRanges
      BY <1>1, RangeForTyped DEF ControllerInv
    <3>. QED
      BY <1>1, <1>3, <3>1
  <2>. QED
    BY <1>2, <1>5, <2>1 DEF ControllerInv, TypeOK
<1>7. ClustersListed' /\ DispatchersListed' /\ UidsNumbered'
      /\ \A k : RangeFor(k)' = RangeFor(k)
  BY <1>2 DEF ControllerInv, ClustersListed, DispatchersListed, UidsNumbered, RangeFor
<1>8. ProcessesStarted'
  <2>1. CASE next < Len(dispatchers)
    BY <1>1, <1>2, <1>4, <2>1 DEF ControllerInv, ProcessesStarted
  <2>2. CASE next = Len(dispatchers)
    <3>1. next' = 0 /\ adding' = Nobody /\ started' = started \cup ({adding.uid} \ {0})
      BY <1>4, <2>2 DEF Finish
    <3>2. ASSUME NEW k \in 1..Len(dispatchers) PROVE dispatchers[k].uid \in started'
      <4>1. dispatchers[k].uid # 0
        BY <1>1
      <4>2. dispatchers[k].uid \in started \/ dispatchers[k] = adding
        BY DEF ControllerInv, ProcessesStarted
      <4>. QED
        BY <3>1, <4>1, <4>2
    <3>. QED
      BY <1>2, <3>1, <3>2 DEF ProcessesStarted
  <2>. QED
    BY <1>1, <2>1, <2>2
<1>9. RangesWritten'
  <2>1. ASSUME NEW k \in 1..Len(dispatchers), next' = 0 \/ k < next',
               apiUid[dispatchers[k].name] = dispatchers[k].uid
        PROVE  apiRange'[dispatchers[k].name] = RangeFor(k)
    <3>1. k < next \/ k = next
      BY <1>1, <1>4, <2>1 DEF Finish
    <3>2. k # next => dispatchers[k].name # h.name
      BY <1>1 DEF ControllerInv, DispatchersListed, NamedOnce
    <3>3. k < next => apiRange[dispatchers[k].name] = RangeFor(k)
      BY <1>1, <2>1 DEF ControllerInv, RangesWritten
    <3>4. dispatchers[k].name \in Dispatchers
      BY <1>1
    <3>. QED
      BY <1>1, <1>3, <3>1, <3>2, <3>3, <3>4
  <2>. QED
    BY <1>1, <1>2, <1>7, <2>1 DEF RangesWritten
<1>. QED
  BY <1>6, <1>7, <1>8, <1>9 DEF ControllerInv

(* A handler that has changed a list writes from the first entry on, or    *)
(* has nothing to write.                                                   *)
LEMMA BalanceStarts ==
    ASSUME dispatchers' \in Seq(Held), clusters' \in Seq(Clusters),
           next' = BalanceFrom(dispatchers', clusters')
    PROVE  next' \in 0..Len(dispatchers') /\ RangesWritten'
<1>1. CASE Len(dispatchers') = 0 \/ Len(clusters') = 0
  <2>1. next' = 0
    BY <1>1 DEF BalanceFrom
  <2>2. Len(dispatchers') \in Nat
    OBVIOUS
  <2>3. clusters' # <<>> => Len(clusters') # 0
    OBVIOUS
  <2>4. Len(dispatchers') = 0 => 1..Len(dispatchers') = {}
    OBVIOUS
  <2>. QED
    BY <1>1, <2>1, <2>2, <2>3, <2>4 DEF RangesWritten
<1>2. CASE ~(Len(dispatchers') = 0 \/ Len(clusters') = 0)
  <2>1. next' = 1
    BY <1>2 DEF BalanceFrom
  <2>2. 1 \in 0..Len(dispatchers') /\ clusters' # <<>>
    BY <1>2
  <2>3. \A k \in 1..Len(dispatchers') : ~(k < 1)
    OBVIOUS
  <2>. QED
    BY <2>1, <2>2, <2>3 DEF RangesWritten
<1>. QED
  BY <1>1, <1>2

(* A dispatcher is added; its process is started at once or after          *)
(* balance().                                                              *)
LEMMA AddStep ==
    ASSUME ControllerInv, NEW d \in Dispatchers, addDispatcher(d)
    PROVE  ControllerInv'
<1> DEFINE h == [name |-> d, uid |-> apiUid[d]]
           n == Len(dispatchers)
<1>1. /\ apiUid \in [Dispatchers -> 0..MaxUid] /\ apiUid[d] # 0
      /\ seenUid \in [Dispatchers -> 0..MaxUid] /\ seenUid[d] = 0
      /\ dispatchers \in Seq(Held) /\ clusters \in Seq(Clusters)
      /\ started \subseteq 1..MaxUid /\ MaxUid \in Nat
  BY ConstantsAssumption DEF ControllerInv, TypeOK, addDispatcher
<1>2. h \in Held /\ h.name = d /\ h.uid = apiUid[d]
  <2>1. apiUid[d] \in 1..MaxUid
    BY <1>1
  <2>. QED
    BY <2>1 DEF Held
<1>3. /\ dispatchers' = Append(dispatchers, h)
      /\ next' = BalanceFrom(dispatchers', clusters)
      /\ next' = 0 => adding' = Nobody /\ started' = started \cup {h.uid}
      /\ next' # 0 => adding' = h /\ UNCHANGED started
      /\ seenUid' = [seenUid EXCEPT ![d] = apiUid[d]]
      /\ UNCHANGED <<apiVars, up, restarts, seenClusters, clusters>>
      /\ next = 0
  BY DEF addDispatcher, Idle
<1> HIDE DEF h
<1>4. /\ dispatchers' \in Seq(Held) /\ n \in Nat /\ Len(dispatchers') = n + 1
      /\ dispatchers'[n + 1] = h
      /\ \A k \in 1..n : dispatchers'[k] = dispatchers[k]
      /\ \A k \in 1..(n + 1) : k \in 1..n \/ k = n + 1
  BY <1>1, <1>2, <1>3
<1>5. next' \in 0..Len(dispatchers') /\ RangesWritten'
  BY <1>1, <1>3, <1>4, BalanceStarts
<1>6. \A k \in 1..n : /\ dispatchers[k].name \in Dispatchers
                      /\ dispatchers[k].uid \in 1..MaxUid
                      /\ dispatchers[k].name # d
  <2>1. \A k \in 1..n : dispatchers[k] \in Held
    BY <1>1
  <2>2. \A g \in Held : g.name \in Dispatchers /\ g.uid \in 1..MaxUid
    BY DEF Held
  <2>3. \A k \in 1..n : seenUid[dispatchers[k].name] = dispatchers[k].uid
    BY DEF ControllerInv, DispatchersListed
  <2>4. 0 \notin 1..MaxUid
    OBVIOUS
  <2>. QED
    BY <1>1, <2>1, <2>2, <2>3, <2>4
<1>7. TypeOK'
  <2>1. adding' \in Held \cup {Nobody} /\ started' \subseteq 1..MaxUid
    <3>1. h.uid \in 1..MaxUid
      BY <1>1, <1>2
    <3>. QED
      BY <1>1, <1>2, <1>3, <3>1
  <2>2. seenUid' \in [Dispatchers -> 0..MaxUid]
    BY <1>1, <1>3
  <2>. QED
    BY <1>3, <1>4, <1>5, <2>1, <2>2 DEF ControllerInv, TypeOK, apiVars
<1>8. ClustersListed'
  BY <1>3 DEF ControllerInv, ClustersListed
<1>9. UidsNumbered'
  BY <1>1, <1>3 DEF ControllerInv, UidsNumbered, apiVars
<1>10. DispatchersListed'
  <2>1. NamedOnce(dispatchers')
    <3>1. NamedOnce(dispatchers)
      BY DEF ControllerInv, DispatchersListed
    <3>. QED
      BY <1>2, <1>4, <1>6, <3>1 DEF NamedOnce
  <2>2. ASSUME NEW k \in 1..Len(dispatchers')
        PROVE  seenUid'[dispatchers'[k].name] = dispatchers'[k].uid
    <3>1. CASE k = n + 1
      BY <1>1, <1>2, <1>3, <1>4, <3>1
    <3>2. CASE k \in 1..n
      <4>1. seenUid[dispatchers[k].name] = dispatchers[k].uid
        BY <3>2 DEF ControllerInv, DispatchersListed
      <4>. QED
        BY <1>1, <1>3, <1>4, <1>6, <3>2, <4>1
    <3>. QED
      BY <1>4, <3>1, <3>2
  <2>3. ASSUME NEW e \in Dispatchers, seenUid'[e] # 0
        PROVE  \E k \in 1..Len(dispatchers') : dispatchers'[k].name = e
    <3>1. CASE e = d
      <4>1. n + 1 \in 1..Len(dispatchers')
        BY <1>4
      <4>. QED
        BY <1>2, <1>4, <3>1, <4>1
    <3>2. CASE e # d
      <4>1. PICK k \in 1..n : dispatchers[k].name = e
        BY <1>1, <1>3, <2>3, <3>2 DEF ControllerInv, DispatchersListed
      <4>2. k \in 1..Len(dispatchers')
        BY <1>4
      <4>. QED
        BY <1>4, <4>1, <4>2
    <3>. QED
      BY <3>1, <3>2
  <2>. QED
    BY <2>1, <2>2, <2>3 DEF DispatchersListed
<1>11. ProcessesStarted'
  <2>1. ASSUME NEW k \in 1..n PROVE dispatchers[k].uid \in started
    <3>1. dispatchers[k].uid \in started \/ dispatchers[k] = Nobody
      BY <1>3 DEF ControllerInv, ProcessesStarted
    <3>2. Nobody.uid = 0 /\ dispatchers[k].uid # 0
      BY <1>6 DEF Nobody
    <3>. QED
      BY <3>1, <3>2
  <2>2. started \subseteq started'
    BY <1>3
  <2>3. h.uid \in started' \/ h = adding'
    BY <1>3
  <2>4. next' = 0 => adding' = Nobody
    BY <1>3
  <2>. QED
    BY <1>4, <2>1, <2>2, <2>3, <2>4 DEF ProcessesStarted
<1>. QED
  BY <1>5, <1>7, <1>8, <1>9, <1>10, <1>11 DEF ControllerInv

(* A dispatcher is deleted from the list.                                  *)
LEMMA DeleteStep ==
    ASSUME ControllerInv, NEW d \in Dispatchers, deleteDispatcher(d)
    PROVE  ControllerInv'
<1> DEFINE n == Len(dispatchers)
<1>1. /\ seenUid \in [Dispatchers -> 0..MaxUid] /\ seenUid[d] # 0
      /\ dispatchers \in Seq(Held) /\ clusters \in Seq(Clusters) /\ MaxUid \in Nat
      /\ \A e \in Dispatchers : seenUid[e] <= lastUid /\ apiUid[e] <= lastUid
      /\ lastUid \in 0..MaxUid
  BY ConstantsAssumption DEF ControllerInv, TypeOK, UidsNumbered, deleteDispatcher
<1>2. /\ dispatchers' = RemoveFromList(dispatchers, d)
      /\ next' = BalanceFrom(dispatchers', clusters)
      /\ seenUid' = [seenUid EXCEPT ![d] = 0]
      /\ UNCHANGED <<apiVars, up, restarts, seenClusters, clusters, adding, started>>
      /\ next = 0
  BY DEF deleteDispatcher, Idle
<1>3. /\ dispatchers' \in Seq(Held) /\ NamedOnce(dispatchers')
      /\ \A h : (\E k \in 1..Len(dispatchers') : dispatchers'[k] = h)
                <=> h.name # d /\ \E k \in 1..n : dispatchers[k] = h
  <2>1. NamedOnce(dispatchers) /\ \E k \in 1..n : dispatchers[k].name = d
    BY <1>1 DEF ControllerInv, DispatchersListed
  <2> DEFINE r == RemoveFromList(dispatchers, d)
  <2>2. /\ r \in Seq(Held) /\ NamedOnce(r)
        /\ \A h : (\E k \in 1..Len(r) : r[k] = h)
                  <=> h.name # d /\ \E k \in 1..n : dispatchers[k] = h
    BY <1>1, <2>1, ListLosesOne
  <2> HIDE DEF r
  <2>3. dispatchers' = r
    BY <1>2 DEF r
  <2>. QED
    BY <2>2, <2>3
<1>4. next' \in 0..Len(dispatchers') /\ RangesWritten'
  BY <1>1, <1>2, <1>3, BalanceStarts
<1>5. \A k \in 1..Len(dispatchers') :
          /\ dispatchers'[k].name \in Dispatchers /\ dispatchers'[k].name # d
          /\ \E l \in 1..n : dispatchers[l] = dispatchers'[k]
  <2>1. \A k \in 1..Len(dispatchers') : dispatchers'[k] \in Held
    BY <1>3
  <2>2. \A g \in Held : g.name \in Dispatchers
    BY DEF Held
  <2>. QED
    BY <1>3, <2>1, <2>2
<1>6. TypeOK'
  <2>1. seenUid' \in [Dispatchers -> 0..MaxUid]
    BY <1>1, <1>2
  <2>. QED
    BY <1>2, <1>3, <1>4, <2>1 DEF ControllerInv, TypeOK, apiVars
<1>7. ClustersListed'
  BY <1>2 DEF ControllerInv, ClustersListed
<1>8. UidsNumbered'
  BY <1>1, <1>2 DEF UidsNumbered, apiVars
<1>9. DispatchersListed'
  <2>1. ASSUME NEW k \in 1..Len(dispatchers')
        PROVE  seenUid'[dispatchers'[k].name] = dispatchers'[k].uid
    <3>1. PICK l \in 1..n : dispatchers[l] = dispatchers'[k]
      BY <1>5
    <3>2. seenUid[dispatchers[l].name] = dispatchers[l].uid
      BY DEF ControllerInv, DispatchersListed
    <3>. QED
      BY <1>1, <1>2, <1>5, <3>1, <3>2
  <2>2. ASSUME NEW e \in Dispatchers, seenUid'[e] # 0
        PROVE  \E k \in 1..Len(dispatchers') : dispatchers'[k].name = e
    <3>1. e # d /\ seenUid[e] # 0
      BY <1>1, <1>2, <2>2
    <3>2. PICK l \in 1..n : dispatchers[l].name = e
      BY <3>1 DEF ControllerInv, DispatchersListed
    <3>3. \E k \in 1..Len(dispatchers') : dispatchers'[k] = dispatchers[l]
      BY <1>3, <3>1, <3>2
    <3>. QED
      BY <3>2, <3>3
  <2>. QED
    BY <1>3, <2>1, <2>2 DEF DispatchersListed
<1>10. ProcessesStarted'
  BY <1>2, <1>5 DEF ControllerInv, ProcessesStarted
<1>. QED
  BY <1>4, <1>6, <1>7, <1>8, <1>9, <1>10 DEF ControllerInv

(* A cluster name is inserted or removed.                                  *)
LEMMA ClusterStep ==
    ASSUME ControllerInv, NEW c \in Clusters, addCluster(c) \/ deleteCluster(c)
    PROVE  ControllerInv'
<1>1. /\ next' = BalanceFrom(dispatchers, clusters') /\ next = 0
      /\ UNCHANGED <<apiVars, up, restarts, seenUid, dispatchers, adding, started>>
  BY DEF addCluster, deleteCluster, Idle
<1>2. /\ SortedArray(clusters) /\ dispatchers \in Seq(Held)
      /\ \A x \in Clusters :
             x \in seenClusters <=> \E k \in 1..Len(clusters) : clusters[k] = x
      /\ seenClusters \subseteq Clusters
  BY DEF ControllerInv, ClustersListed, TypeOK
<1>3. ClustersListed' /\ seenClusters' \subseteq Clusters
  <2>1. CASE addCluster(c)
    <3>1. /\ clusters' = InsertIntoSortedArray(clusters, c)
          /\ seenClusters' = seenClusters \cup {c} /\ c \notin seenClusters
      BY <2>1 DEF addCluster
    <3>2. \A k \in 1..Len(clusters) : clusters[k] # c
      BY <1>2, <3>1
    <3> DEFINE r == InsertIntoSortedArray(clusters, c)
    <3>3. /\ SortedArray(r)
          /\ \A x : (\E k \in 1..Len(r) : r[k] = x)
                    <=> x = c \/ \E k \in 1..Len(clusters) : clusters[k] = x
      BY <1>2, <3>2, InsertSorts
    <3>4. clusters' = r
      BY <3>1
    <3> HIDE DEF r
    <3>. QED
      BY <1>2, <3>1, <3>3, <3>4 DEF ClustersListed
  <2>2. CASE deleteCluster(c)
    <3>1. /\ clusters' = RemoveFromSortedArray(clusters, c)
          /\ seenClusters' = seenClusters \ {c} /\ c \in seenClusters
      BY <2>2 DEF deleteCluster
    <3>2. \E k \in 1..Len(clusters) : clusters[k] = c
      BY <1>2, <3>1
    <3> DEFINE r == RemoveFromSortedArray(clusters, c)
    <3>0. SortedArray(clusters)
      BY <1>2
    <3>3. /\ SortedArray(r)
          /\ \A x : (\E k \in 1..Len(r) : r[k] = x)
                    <=> x # c /\ \E k \in 1..Len(clusters) : clusters[k] = x
      BY <3>0, <3>2, RemoveSorts, Zenon
    <3>4. clusters' = r
      BY <3>1
    <3> HIDE DEF r
    <3>. QED
      BY <1>2, <3>1, <3>3, <3>4 DEF ClustersListed
  <2>. QED
    BY <2>1, <2>2
<1>4. clusters' \in Seq(Clusters)
  BY <1>3 DEF ClustersListed, SortedArray
<1>5. next' \in 0..Len(dispatchers') /\ RangesWritten'
  BY <1>1, <1>2, <1>4, BalanceStarts
<1>6. TypeOK'
  BY <1>1, <1>3, <1>4, <1>5 DEF ControllerInv, TypeOK, apiVars
<1>7. DispatchersListed' /\ UidsNumbered' /\ ProcessesStarted'
  BY <1>1 DEF ControllerInv, DispatchersListed, UidsNumbered, ProcessesStarted, apiVars
<1>. QED
  BY <1>3, <1>5, <1>6, <1>7 DEF ControllerInv

(* The controller dies with its lists, and starts again with empty ones.   *)
LEMMA LifeStep ==
    ASSUME ControllerInv, Fatal \/ Restart \/ UNCHANGED vars
    PROVE  ControllerInv'
<1>1. CASE Fatal
  <2>1. /\ seenClusters' = {} /\ seenUid' = [d \in Dispatchers |-> 0]
        /\ clusters' = <<>> /\ dispatchers' = <<>> /\ next' = 0 /\ adding' = Nobody
        /\ up' = FALSE /\ UNCHANGED <<apiVars, restarts, started>>
    BY <1>1 DEF Fatal
  <2>2. 1..Len(dispatchers') = {} /\ 1..Len(clusters') = {} /\ Len(dispatchers') = 0
    BY <2>1
  <2>3. TypeOK'
    <3>1. /\ seenUid' \in [Dispatchers -> 0..MaxUid] /\ next' \in 0..Len(dispatchers')
          /\ clusters' \in Seq(Clusters) /\ dispatchers' \in Seq(Held)
      BY <2>1, <2>2, ConstantsAssumption
    <3>. QED
      BY <2>1, <3>1 DEF ControllerInv, TypeOK, apiVars
  <2>4. ClustersListed' /\ DispatchersListed'
    BY <2>1, <2>2 DEF ClustersListed, DispatchersListed, SortedArray, NamedOnce
  <2>5. UidsNumbered'
    BY <2>1 DEF ControllerInv, TypeOK, UidsNumbered, apiVars
  <2>6. ProcessesStarted' /\ RangesWritten'
    BY <2>1, <2>2 DEF ProcessesStarted, RangesWritten
  <2>. QED
    BY <2>3, <2>4, <2>5, <2>6 DEF ControllerInv
<1>2. CASE Restart
  <2>1. /\ UNCHANGED <<apiVars, seenClusters, seenUid, clusters, dispatchers, next,
                       adding, started>>
        /\ up' \in BOOLEAN /\ restarts' \in 0..MaxRestart
    BY <1>2, ConstantsAssumption DEF Restart, ControllerInv, TypeOK
  <2>. QED
    BY <2>1 DEF ControllerInv, TypeOK, ClustersListed, DispatchersListed, UidsNumbered,
                ProcessesStarted, RangesWritten, RangeFor, apiVars
<1>3. CASE UNCHANGED vars
  BY <1>3 DEF vars, apiVars, ControllerInv, TypeOK, ClustersListed, DispatchersListed,
              UidsNumbered, ProcessesStarted, RangesWritten, RangeFor
<1>. QED
  BY <1>1, <1>2, <1>3

(* Processes come and go; the controller's part of a step is one of its    *)
(* own actions.                                                            *)
LEMMA ControllerInvariance == ProcessesSpec => []ControllerInv
<1>1. ProcessesInit => ControllerInv
  <2> SUFFICES ASSUME ProcessesInit PROVE ControllerInv
    OBVIOUS
  <2>1. clusters = <<>> /\ dispatchers = <<>> /\ 1..Len(clusters) = {}
        /\ 1..Len(dispatchers) = {} /\ Len(dispatchers) = 0
    BY DEF ProcessesInit, Init
  <2>2. TypeOK
    BY <2>1, ConstantsAssumption DEF ProcessesInit, Init, TypeOK, ClusterRanges
  <2>3. ClustersListed /\ DispatchersListed
    BY <2>1 DEF ProcessesInit, Init, ClustersListed, DispatchersListed, SortedArray, NamedOnce
  <2>4. UidsNumbered /\ ProcessesStarted /\ RangesWritten
    BY <2>1 DEF ProcessesInit, Init, UidsNumbered, ProcessesStarted, RangesWritten
  <2>. QED
    BY <2>2, <2>3, <2>4 DEF ControllerInv
<1>2. ControllerInv /\ [ProcessesNext]_allVars => ControllerInv'
  <2> SUFFICES ASSUME ControllerInv, [ProcessesNext]_allVars PROVE ControllerInv'
    OBVIOUS
  <2>1. \/ \E d \in Dispatchers : CreateDispatcher(d) \/ RemoveDispatcher(d)
        \/ \E c \in Clusters : ChangeCluster(c)
        \/ \E d \in Dispatchers : addDispatcher(d) \/ deleteDispatcher(d)
        \/ \E c \in Clusters : addCluster(c) \/ deleteCluster(c)
        \/ UpdateDispatcher
        \/ Fatal \/ Restart \/ UNCHANGED vars
    BY DEF ProcessesNext, Controller, Delete, Add, Update, Handlers, ProcessStep, allVars
  <2>. QED
    BY <2>1, UserStep, AddStep, DeleteStep, ClusterStep, WriteStep, LifeStep
<1>. QED
  BY <1>1, <1>2, PTL DEF ProcessesSpec

(* Once every notification is handled, each dispatcher object has had a    *)
(* process started for it (addDispatcher), restarts of the controller and  *)
(* recreated dispatchers included.                                         *)
THEOREM DispatchersStarted == ProcessesSpec => []EveryDispatcherStarted
<1>1. ControllerInv => EveryDispatcherStarted
  <2> SUFFICES ASSUME ControllerInv, Synced, NEW d \in Existing
               PROVE  apiUid[d] \in started
    BY DEF EveryDispatcherStarted
  <2>1. d \in Dispatchers /\ apiUid[d] # 0 /\ seenUid[d] = apiUid[d] /\ next = 0
    BY DEF Existing, Synced, Idle
  <2>2. PICK k \in 1..Len(dispatchers) : dispatchers[k].name = d
    BY <2>1 DEF ControllerInv, DispatchersListed
  <2>3. dispatchers[k].uid = apiUid[d]
    BY <2>1, <2>2 DEF ControllerInv, DispatchersListed
  <2>4. dispatchers[k].uid \in started \/ dispatchers[k] = Nobody
    BY <2>1 DEF ControllerInv, ProcessesStarted
  <2>5. Nobody.uid = 0
    BY DEF Nobody
  <2>. QED
    BY <2>1, <2>3, <2>4, <2>5
<1>. QED
  BY <1>1, ControllerInvariance, PTL

(* Once every notification is handled, each cluster is in the range of one *)
(* dispatcher and of one only, for any numbers of dispatchers and clusters *)
(* and however often the controller died between two writes of balance().  *)
THEOREM ClustersArePartitioned == ProcessesSpec => []ClustersPartitioned
<1>1. ControllerInv => ClustersPartitioned
  <2> SUFFICES ASSUME ControllerInv, Synced, Existing # {}, NEW c \in apiClusters
               PROVE  /\ \E d \in Existing : InRange(c, apiRange[d])
                      /\ \A d1, d2 \in Existing :
                             InRange(c, apiRange[d1]) /\ InRange(c, apiRange[d2])
                                => d1 = d2
    BY DEF ClustersPartitioned
  <2> DEFINE s == Len(dispatchers)
             u == Len(clusters) - 1
             R == EvenlyDivide(s, u)
  <2>1. /\ next = 0 /\ seenUid = apiUid /\ c \in seenClusters /\ c \in Clusters
        /\ dispatchers \in Seq(Held) /\ clusters \in Seq(Clusters) /\ c \in Nat
    BY ConstantsAssumption DEF Synced, Idle, ControllerInv, TypeOK
  <2>2. \A d \in Existing : \E k \in 1..s : dispatchers[k].name = d
    BY <2>1 DEF ControllerInv, DispatchersListed, Existing
  <2>3. PICK p \in 1..Len(clusters) : clusters[p] = c
    BY <2>1 DEF ControllerInv, ClustersListed
  <2>4. s \in Nat \ {0} /\ u \in Nat /\ p - 1 \in 0..u /\ clusters # <<>>
    <3>1. PICK d \in Existing : TRUE
      OBVIOUS
    <3>. QED
      BY <2>1, <2>2, <2>3, <3>1
  <2>5. \A k \in 1..s : /\ dispatchers[k].name \in Existing
                        /\ apiRange[dispatchers[k].name] = RangeFor(k)
    <3>1. \A k \in 1..s : dispatchers[k] \in Held
      BY <2>1
    <3>2. \A g \in Held : g.name \in Dispatchers /\ g.uid # 0
      BY ConstantsAssumption DEF Held
    <3>3. \A k \in 1..s : apiUid[dispatchers[k].name] = dispatchers[k].uid
      BY <2>1 DEF ControllerInv, DispatchersListed
    <3>. QED
      BY <2>1, <2>4, <3>1, <3>2, <3>3 DEF ControllerInv, RangesWritten, Existing
  <2>6. PICK n \in 1..s :
            /\ Len(R) = n
            /\ \A j \in 1..n : R[j][1] \in 0..u /\ R[j][2] \in 0..u
            /\ \A k \in 0..u : \E j \in 1..n : R[j][1] <= k /\ k <= R[j][2]
            /\ \A k \in 0..u : \A i1, i2 \in 1..n :
                   R[i1][1] <= k /\ k <= R[i1][2] /\ R[i2][1] <= k /\ k <= R[i2][2]
                   => i1 = i2
    <3> HIDE DEF s, u
    <3>. QED
      BY <2>4, RangesPartition
  <2>7. \A j \in 1..s :
            RangeFor(j) = IF j <= n THEN <<clusters[R[j][1] + 1], clusters[R[j][2] + 1]>>
                          ELSE NoRange
    BY <2>6 DEF RangeFor
  <2>8. /\ \A k \in 1..Len(clusters) : clusters[k] \in Nat
        /\ \A k, l \in 1..Len(clusters) : k < l => clusters[k] < clusters[l]
    <3>1. \A k \in 1..Len(clusters) : clusters[k] \in Clusters
      BY <2>1
    <3>. QED
      BY <3>1, ConstantsAssumption DEF ControllerInv, ClustersListed, SortedArray
  <2> HIDE DEF s, u, R
  <2>9. ASSUME NEW j \in 1..s
        PROVE  InRange(c, RangeFor(j))
                  <=> j \in 1..n /\ R[j][1] <= p - 1 /\ p - 1 <= R[j][2]
    <3>1. CASE ~(j <= n)
      BY <2>7, <3>1 DEF InRange
    <3>2. CASE j <= n
      <4> DEFINE a == R[j][1] + 1
                 b == R[j][2] + 1
      <4>1. j \in 1..n
        BY <2>4, <3>2
      <4>2. a \in 1..Len(clusters) /\ b \in 1..Len(clusters)
        BY <2>1, <2>6, <4>1 DEF u
      <4>3. InRange(c, RangeFor(j)) <=> clusters[a] <= clusters[p] /\ clusters[p] <= clusters[b]
        <5>1. RangeFor(j) = <<clusters[a], clusters[b]>>
          BY <2>7, <3>2
        <5>2. RangeFor(j) # NoRange
          BY <5>1 DEF NoRange
        <5>. QED
          BY <2>3, <5>1, <5>2 DEF InRange
      <4>0. ASSUME NEW k \in 1..Len(clusters), NEW l \in 1..Len(clusters)
            PROVE  clusters[k] <= clusters[l] <=> k <= l
        <5>1. k < l => clusters[k] < clusters[l]
          BY <2>8
        <5>2. l < k => clusters[l] < clusters[k]
          BY <2>8
        <5>3. clusters[k] \in Nat /\ clusters[l] \in Nat /\ k \in Nat /\ l \in Nat
          BY <2>1, <2>8
        <5>. QED
          BY <5>1, <5>2, <5>3
      <4>4. clusters[a] <= clusters[p] <=> a <= p
        BY <2>3, <4>0, <4>2
      <4>5. clusters[p] <= clusters[b] <=> p <= b
        BY <2>3, <4>0, <4>2
      <4>6. R[j][1] \in Nat /\ R[j][2] \in Nat /\ p \in Nat
        BY <2>3, <2>4, <2>6, <4>1
      <4>. QED
        BY <4>1, <4>3, <4>4, <4>5, <4>6
    <3>. QED
      BY <3>1, <3>2
  <2>10. \E d \in Existing : InRange(c, apiRange[d])
    <3>1. PICK j \in 1..n : R[j][1] <= p - 1 /\ p - 1 <= R[j][2]
      BY <2>4, <2>6
    <3>2. j \in 1..s
      BY <2>4, <2>6
    <3>. QED
      BY <2>5, <2>9, <3>1, <3>2
  <2>11. ASSUME NEW d1 \in Existing, NEW d2 \in Existing,
                InRange(c, apiRange[d1]), InRange(c, apiRange[d2])
         PROVE  d1 = d2
    <3>1. PICK k1 \in 1..s : dispatchers[k1].name = d1
      BY <2>2
    <3>2. PICK k2 \in 1..s : dispatchers[k2].name = d2
      BY <2>2
    <3>3. /\ k1 \in 1..n /\ R[k1][1] <= p - 1 /\ p - 1 <= R[k1][2]
          /\ k2 \in 1..n /\ R[k2][1] <= p - 1 /\ p - 1 <= R[k2][2]
      BY <2>5, <2>9, <2>11, <3>1, <3>2
    <3>4. k1 = k2
      BY <2>4, <2>6, <3>3
    <3>. QED
      BY <3>1, <3>2, <3>4
  <2>. QED
    BY <2>10, <2>11
<1>. QED
  BY <1>1, ControllerInvariance, PTL
-----------------------------------------------------------------------------
(* The processes.  Every uid belongs to one name: the process that         *)
(* addDispatcher starts is one of the object it was called for.            *)
UidsOwned ==
    /\ \A u \in started : u <= lastUid
    /\ \A d, e \in Dispatchers : apiUid[d] # 0 =>
           /\ apiUid[d] = apiUid[e] => d = e
           /\ apiUid[d] = seenUid[e] => d = e
    /\ adding # Nobody => seenUid[adding.name] = adding.uid

(* What process p of a dispatcher with this uid and this range knows, when *)
(* nothing escaped it: it has the range, or an event that gives it.        *)
Follows(p, uid, range) ==
    /\ p.stage = "starting" => p = Starting
    /\ p.stage = "read" =>
           /\ p.event = {} /\ ~p.deleted
           /\ ~p.missed => uid # 0 /\ p.range = range
    /\ p.stage = "watching" /\ ~p.deleted /\ ~p.missed =>
           /\ uid # 0
           /\ p.event = {range} \/ (p.event = {} /\ p.range = range)

ProcessesFollow ==
    \A d \in Dispatchers : \A k \in 1..Len(procs[d]) :
        Follows(procs[d][k], apiUid[d], apiRange[d])

(* A dispatcher object that a process was started for has one that no      *)
(* deletion is going to end.                                               *)
ProcessesLive ==
    \A d \in Dispatchers : apiUid[d] # 0 /\ apiUid[d] \in started =>
        \E k \in 1..Len(procs[d]) : ~procs[d][k].deleted

ServingInv ==
    /\ procs \in [Dispatchers -> Seq(Process)]
    /\ UidsOwned /\ ProcessesFollow /\ ProcessesLive

LEMMA StartingTyped == Starting \in Process /\ Starting.stage = "starting" /\ ~Starting.deleted
BY DEF Starting, Process, ClusterRanges

(* A write reaches the processes that watch the dispatcher.                *)
LEMMA WriteFollowed ==
    ASSUME NEW p \in Process, NEW uid, NEW old, NEW range \in ClusterRanges,
           uid # 0, Follows(p, uid, old)
    PROVE  /\ ToldWrite(p, range) \in Process
           /\ ToldWrite(p, range).deleted = p.deleted
           /\ Follows(ToldWrite(p, range), uid, range)
<1>1. /\ p.stage \in {"starting", "read", "watching"} /\ p.deleted \in BOOLEAN
      /\ {range} \in SUBSET ClusterRanges
  BY DEF Process
<1>2. CASE p.stage = "watching" /\ ~p.deleted
  <2>1. ToldWrite(p, range) = [p EXCEPT !.event = {range}]
    BY <1>2 DEF ToldWrite
  <2>. QED
    BY <1>1, <1>2, <2>1 DEF Process, Follows
<1>3. CASE p.stage = "read"
  <2>1. ToldWrite(p, range) = [p EXCEPT !.missed = TRUE]
    BY <1>3 DEF ToldWrite
  <2>. QED
    BY <1>3, <2>1 DEF Process, Follows
<1>4. CASE p.stage # "read" /\ ~(p.stage = "watching" /\ ~p.deleted)
  <2>1. ToldWrite(p, range) = p
    BY <1>4 DEF ToldWrite
  <2>. QED
    BY <1>1, <1>4, <2>1 DEF Follows
<1>. QED
  BY <1>2, <1>3, <1>4

(* A deletion ends the processes that watch; what is still read from the   *)
(* old object is void.                                                     *)
LEMMA RemovalFollowed ==
    ASSUME NEW p \in Process, NEW uid, NEW range, Follows(p, uid, range)
    PROVE  ToldRemoval(p) \in Process /\ \A u, r : Follows(ToldRemoval(p), u, r)
<1>1. p.stage \in {"starting", "read", "watching"}
  BY DEF Process
<1>2. CASE p.stage = "watching"
  <2>1. ToldRemoval(p) = [p EXCEPT !.deleted = TRUE]
    BY <1>2 DEF ToldRemoval
  <2>. QED
    BY <1>2, <2>1 DEF Process, Follows
<1>3. CASE p.stage = "read"
  <2>1. ToldRemoval(p) = [p EXCEPT !.missed = TRUE]
    BY <1>3 DEF ToldRemoval
  <2>. QED
    BY <1>3, <2>1 DEF Process, Follows
<1>4. CASE p.stage = "starting"
  <2>1. ToldRemoval(p) = p
    BY <1>4 DEF ToldRemoval
  <2>. QED
    BY <1>4, <2>1 DEF Follows
<1>. QED
  BY <1>1, <1>2, <1>3, <1>4

(* The owners of the uids.                                                 *)
LEMMA UidsStep ==
    ASSUME ControllerInv, UidsOwned, [ProcessesNext]_allVars
    PROVE  UidsOwned'
<1>1. /\ apiUid \in [Dispatchers -> 0..MaxUid] /\ seenUid \in [Dispatchers -> 0..MaxUid]
      /\ lastUid \in Nat /\ started \subseteq Nat /\ adding \in Held \cup {Nobody}
      /\ \A d \in Dispatchers : apiUid[d] \in Nat /\ seenUid[d] \in Nat
      /\ next = 0 => adding = Nobody
  BY ConstantsAssumption DEF ControllerInv, TypeOK, ProcessesStarted
<1>2. \A d \in Dispatchers : apiUid[d] <= lastUid /\ seenUid[d] <= lastUid
  BY DEF ControllerInv, UidsNumbered
<1>3. \A h \in Held : h.name \in Dispatchers /\ h.uid \in Nat \ {0}
  BY ConstantsAssumption DEF Held
<1>4. Nobody.uid = 0
  BY DEF Nobody
<1>5. ASSUME NEW d \in Dispatchers, CreateDispatcher(d) PROVE UidsOwned'
  <2>1. /\ lastUid' = lastUid + 1 /\ apiUid' = [apiUid EXCEPT ![d] = lastUid + 1]
        /\ UNCHANGED <<seenUid, adding, started>>
    BY <1>5 DEF CreateDispatcher
  <2>. QED
    BY <1>1, <1>2, <2>1 DEF UidsOwned
<1>6. ASSUME NEW d \in Dispatchers, RemoveDispatcher(d) PROVE UidsOwned'
  <2>1. apiUid' = [apiUid EXCEPT ![d] = 0] /\ UNCHANGED <<seenUid, adding, started, lastUid>>
    BY <1>6 DEF RemoveDispatcher
  <2>. QED
    BY <1>1, <2>1 DEF UidsOwned
<1>7. ASSUME NEW d \in Dispatchers, addDispatcher(d) PROVE UidsOwned'
  <2> DEFINE h == [name |-> d, uid |-> apiUid[d]]
  <2>1. /\ seenUid' = [seenUid EXCEPT ![d] = apiUid[d]] /\ UNCHANGED <<apiUid, lastUid>>
        /\ \/ adding' = Nobody /\ started' = started \cup {apiUid[d]}
           \/ adding' = h /\ started' = started
    BY <1>7 DEF addDispatcher, apiVars
  <2>2. h.name = d /\ h.uid = apiUid[d]
    OBVIOUS
  <2> HIDE DEF h
  <2>. QED
    BY <1>1, <1>2, <2>1, <2>2 DEF UidsOwned
<1>8. ASSUME NEW d \in Dispatchers, deleteDispatcher(d) PROVE UidsOwned'
  <2>1. /\ seenUid' = [seenUid EXCEPT ![d] = 0]
        /\ UNCHANGED <<apiUid, lastUid, adding, started>> /\ adding = Nobody
    BY <1>1, <1>8 DEF deleteDispatcher, Idle, apiVars
  <2>. QED
    BY <1>1, <2>1 DEF UidsOwned
<1>9. CASE UpdateDispatcher
  <2>1. /\ UNCHANGED <<apiUid, seenUid, lastUid>>
        /\ \/ UNCHANGED <<adding, started>>
           \/ adding' = Nobody /\ started' = started \cup ({adding.uid} \ {0})
    BY <1>9 DEF UpdateDispatcher, Finish
  <2>2. adding # Nobody => seenUid[adding.name] = adding.uid /\ adding.name \in Dispatchers
    BY <1>1, <1>3 DEF UidsOwned
  <2>. QED
    BY <1>1, <1>2, <1>4, <2>1, <2>2 DEF UidsOwned
<1>10. CASE Fatal
  <2>1. /\ seenUid' = [d \in Dispatchers |-> 0] /\ adding' = Nobody
        /\ UNCHANGED <<apiUid, lastUid, started>>
    BY <1>10 DEF Fatal, apiVars
  <2>. QED
    BY <1>1, <2>1 DEF UidsOwned
<1>11. CASE UNCHANGED <<apiUid, lastUid, seenUid, adding, started>>
  BY <1>11 DEF UidsOwned
<1>12. \/ UNCHANGED <<apiUid, lastUid, seenUid, adding, started>>
       \/ \E d \in Dispatchers : \/ CreateDispatcher(d) \/ RemoveDispatcher(d)
                                 \/ addDispatcher(d) \/ deleteDispatcher(d)
       \/ UpdateDispatcher \/ Fatal
  BY DEF ProcessesNext, Controller, Delete, Add, Update, Handlers, ProcessStep, allVars,
         vars, apiVars, ChangeCluster, addCluster, deleteCluster, Restart
<1>. QED
  BY <1>5, <1>6, <1>7, <1>8, <1>9, <1>10, <1>11, <1>12

(* A new process is one more of its dispatcher, the others stay.           *)
LEMMA ProcessRuns ==
    ASSUME NEW ps \in [Dispatchers -> Seq(Process)], NEW d \in Dispatchers
    PROVE  /\ RunProcess(d, ps) \in [Dispatchers -> Seq(Process)]
           /\ \A e \in Dispatchers : e # d => RunProcess(d, ps)[e] = ps[e]
           /\ Len(RunProcess(d, ps)[d]) = Len(ps[d]) + 1
           /\ \A k \in 1..Len(ps[d]) : RunProcess(d, ps)[d][k] = ps[d][k]
           /\ RunProcess(d, ps)[d][Len(ps[d]) + 1] = Starting
<1> DEFINE t == Append(ps[d], Starting)
<1>1. /\ t \in Seq(Process) /\ Len(t) = Len(ps[d]) + 1 /\ t[Len(ps[d]) + 1] = Starting
      /\ \A k \in 1..Len(ps[d]) : t[k] = ps[d][k]
  BY StartingTyped
<1> HIDE DEF t
<1>2. RunProcess(d, ps) = [ps EXCEPT ![d] = t]
  BY DEF RunProcess, t
<1>. QED
  BY <1>1, <1>2

(* The new process follows its dispatcher, and lives.                      *)
LEMMA RunFollows ==
    ASSUME NEW ps \in [Dispatchers -> Seq(Process)], NEW d \in Dispatchers,
           NEW uid, NEW range,
           \A e \in Dispatchers : \A k \in 1..Len(ps[e]) : Follows(ps[e][k], uid[e], range[e])
    PROVE  LET qs == RunProcess(d, ps)
           IN  /\ \A e \in Dispatchers : \A k \in 1..Len(qs[e]) :
                      Follows(qs[e][k], uid[e], range[e])
               /\ \E k \in 1..Len(qs[d]) : ~qs[d][k].deleted
               /\ \A e \in Dispatchers :
                      (\E k \in 1..Len(ps[e]) : ~ps[e][k].deleted)
                      => \E k \in 1..Len(qs[e]) : ~qs[e][k].deleted
<1> DEFINE qs == RunProcess(d, ps)
           n == Len(ps[d])
<1>1. /\ \A e \in Dispatchers : e # d => qs[e] = ps[e]
      /\ Len(qs[d]) = n + 1 /\ n \in Nat
      /\ \A k \in 1..n : qs[d][k] = ps[d][k]
      /\ qs[d][n + 1] = Starting
  BY ProcessRuns
<1>2. \A u, r : Follows(Starting, u, r)
  BY StartingTyped DEF Follows
<1> HIDE DEF qs
<1>3. ASSUME NEW e \in Dispatchers, NEW k \in 1..Len(qs[e])
      PROVE  Follows(qs[e][k], uid[e], range[e])
  <2>1. CASE e # d
    BY <1>1, <2>1
  <2>2. CASE e = d
    <3>1. k \in 1..n \/ k = n + 1
      BY <1>1, <2>2
    <3>2. n = Len(ps[e])
      BY <2>2
    <3> HIDE DEF n
    <3>. QED
      BY <1>1, <1>2, <2>2, <3>1, <3>2
  <2>. QED
    BY <2>1, <2>2
<1>4. n + 1 \in 1..Len(qs[d]) /\ ~qs[d][n + 1].deleted
  BY <1>1, StartingTyped
<1>. QED
  BY <1>1, <1>3, <1>4 DEF qs

(* The users: a new object, and one that is deleted.                       *)
LEMMA ServedUserStep ==
    ASSUME ControllerInv, ServingInv, NEW d \in Dispatchers,
           (CreateDispatcher(d) /\ UNCHANGED procs) \/ Delete(d)
    PROVE  procs' \in [Dispatchers -> Seq(Process)] /\ ProcessesFollow' /\ ProcessesLive'
<1>1. /\ procs \in [Dispatchers -> Seq(Process)] /\ ProcessesFollow /\ ProcessesLive
      /\ \A u \in started : u <= lastUid
  BY DEF ServingInv, UidsOwned
<1>2. /\ apiUid \in [Dispatchers -> 0..MaxUid] /\ apiRange \in [Dispatchers -> ClusterRanges]
      /\ lastUid \in Nat /\ started \subseteq Nat
  BY ConstantsAssumption DEF ControllerInv, TypeOK
<1>3. \A e \in Dispatchers : \A k \in 1..Len(procs[e]) : procs[e][k] \in Process
  BY <1>1
<1>4. CASE CreateDispatcher(d) /\ UNCHANGED procs
  <2>1. /\ apiUid[d] = 0 /\ apiUid' = [apiUid EXCEPT ![d] = lastUid + 1]
        /\ apiRange' = [apiRange EXCEPT ![d] = NoRange]
        /\ UNCHANGED <<procs, started>>
    BY <1>4 DEF CreateDispatcher
  <2>2. \A p, r, s, u : Follows(p, 0, r) => Follows(p, u, s)
    BY DEF Follows
  <2>3. ProcessesFollow'
    BY <1>1, <1>2, <2>1, <2>2 DEF ProcessesFollow
  <2>4. ProcessesLive'
    BY <1>1, <1>2, <2>1 DEF ProcessesLive
  <2>. QED
    BY <1>1, <2>1, <2>3, <2>4
<1>5. CASE Delete(d)
  <2>1. /\ apiUid' = [apiUid EXCEPT ![d] = 0] /\ UNCHANGED started
        /\ apiRange' = [apiRange EXCEPT ![d] = NoRange] /\ procs' = Removed(d)
    BY <1>5 DEF Delete, RemoveDispatcher
  <2>2. \A k \in 1..Len(procs[d]) :
            /\ ToldRemoval(procs[d][k]) \in Process
            /\ \A u, r : Follows(ToldRemoval(procs[d][k]), u, r)
    BY <1>1, <1>3, RemovalFollowed DEF ProcessesFollow
  <2> DEFINE ps == Removed(d)
  <2>3. /\ ps \in [Dispatchers -> Seq(Process)]
        /\ \A e \in Dispatchers : e # d => ps[e] = procs[e]
        /\ Len(ps[d]) = Len(procs[d])
        /\ \A k \in 1..Len(ps[d]) : ps[d][k] = ToldRemoval(procs[d][k])
    <3> DEFINE n == Len(procs[d])
               t == [k \in 1..n |-> ToldRemoval(procs[d][k])]
    <3>1. n \in Nat
      BY <1>1
    <3>2. t \in Seq(Process) /\ Len(t) = n /\ \A k \in 1..n : t[k] = ToldRemoval(procs[d][k])
      BY <2>2, <3>1
    <3>3. ps = [procs EXCEPT ![d] = t]
      BY DEF Removed
    <3> HIDE DEF n, t, ps
    <3>. QED
      BY <1>1, <3>2, <3>3 DEF n
  <2> HIDE DEF ps
  <2>4. procs' = ps
    BY <2>1 DEF ps
  <2>5. ProcessesFollow'
    <3> SUFFICES ASSUME NEW e \in Dispatchers, NEW k \in 1..Len(ps[e])
                 PROVE  Follows(ps[e][k], apiUid'[e], apiRange'[e])
      BY <2>4 DEF ProcessesFollow
    <3>1. CASE e = d
      BY <2>2, <2>3, <3>1
    <3>2. CASE e # d
      BY <1>1, <1>2, <2>1, <2>3, <3>2 DEF ProcessesFollow
    <3>. QED
      BY <3>1, <3>2
  <2>6. ProcessesLive'
    BY <1>1, <1>2, <2>1, <2>3, <2>4 DEF ProcessesLive
  <2>. QED
    BY <2>3, <2>4, <2>5, <2>6
<1>. QED
  BY <1>4, <1>5

(* addDispatcher starts a process at once when there is nothing to divide. *)
LEMMA ServedAddStep ==
    ASSUME ControllerInv, ServingInv, NEW d \in Dispatchers, Add(d)
    PROVE  procs' \in [Dispatchers -> Seq(Process)] /\ ProcessesFollow' /\ ProcessesLive'
<1>1. /\ procs \in [Dispatchers -> Seq(Process)] /\ ProcessesFollow /\ ProcessesLive
      /\ \A e \in Dispatchers : apiUid[e] # 0 => (apiUid[e] = apiUid[d] => e = d)
  BY DEF ServingInv, UidsOwned
<1>2. /\ UNCHANGED <<apiUid, apiRange>>
      /\ \/ procs' = RunProcess(d, procs) /\ started' = started \cup {apiUid[d]}
         \/ procs' = procs /\ started' = started
  BY DEF Add, addDispatcher, apiVars
<1>3. CASE procs' = procs /\ started' = started
  BY <1>1, <1>2, <1>3 DEF ProcessesFollow, ProcessesLive
<1>4. CASE procs' = RunProcess(d, procs) /\ started' = started \cup {apiUid[d]}
  <2> DEFINE qs == RunProcess(d, procs)
  <2>1. qs \in [Dispatchers -> Seq(Process)]
    BY <1>1, ProcessRuns
  <2>2. /\ \A e \in Dispatchers : \A k \in 1..Len(qs[e]) :
               Follows(qs[e][k], apiUid[e], apiRange[e])
        /\ \E k \in 1..Len(qs[d]) : ~qs[d][k].deleted
        /\ \A e \in Dispatchers : (\E k \in 1..Len(procs[e]) : ~procs[e][k].deleted)
                                  => \E k \in 1..Len(qs[e]) : ~qs[e][k].deleted
    BY <1>1, RunFollows DEF ProcessesFollow
  <2> HIDE DEF qs
  <2>3. procs' = qs
    BY <1>4 DEF qs
  <2>4. ProcessesFollow'
    BY <1>2, <2>2, <2>3 DEF ProcessesFollow
  <2>5. ProcessesLive'
    BY <1>1, <1>2, <1>4, <2>2, <2>3 DEF ProcessesLive
  <2>. QED
    BY <2>1, <2>3, <2>4, <2>5
<1>. QED
  BY <1>2, <1>3, <1>4

(* balance() writes a range; the last write of addDispatcher is followed   *)
(* by the start of the process.                                            *)
LEMMA ServedWriteStep ==
    ASSUME ControllerInv, ServingInv, Update
    PROVE  procs' \in [Dispatchers -> Seq(Process)] /\ ProcessesFollow' /\ ProcessesLive'
<1> DEFINE d == dispatchers[next].name
           r == RangeFor(next)
           ps == Written(d, r)
<1>1. /\ procs \in [Dispatchers -> Seq(Process)] /\ ProcessesFollow /\ ProcessesLive
      /\ \A e, a \in Dispatchers : apiUid[e] # 0 /\ apiUid[e] = seenUid[a] => e = a
      /\ adding # Nobody => seenUid[adding.name] = adding.uid
  BY DEF ServingInv, UidsOwned
<1>2. next \in 1..Len(dispatchers) /\ clusters # <<>> /\ TypeOK
  <2>1. next > 0
    BY DEF Update, UpdateDispatcher
  <2>. QED
    BY <2>1 DEF ControllerInv, RangesWritten, TypeOK
<1>3. d \in Dispatchers /\ dispatchers[next].uid # 0
      /\ adding \in Held \cup {Nobody} /\ \A h \in Held : h.name \in Dispatchers
  <2>1. dispatchers[next] \in Held
    BY <1>2 DEF TypeOK
  <2>2. \A h \in Held : h.name \in Dispatchers /\ h.uid # 0
    BY ConstantsAssumption DEF Held
  <2>. QED
    BY <1>2, <2>1, <2>2 DEF TypeOK
<1>4. r \in ClusterRanges /\ apiRange \in [Dispatchers -> ClusterRanges]
  BY <1>2, RangeForTyped DEF TypeOK
<1>5. /\ apiUid[d] # 0 /\ apiUid' = apiUid /\ apiRange' = [apiRange EXCEPT ![d] = r]
      /\ \/ next' = 0 /\ started' = started \cup ({adding.uid} \ {0})
         \/ next' # 0 /\ started' = started
  <2>1. next + 1 # 0
    BY <1>2 DEF TypeOK
  <2>. QED
    BY <1>3, <2>1 DEF Update, UpdateDispatcher, Finish
<1>6. procs' = IF next' = 0 /\ adding # Nobody THEN RunProcess(adding.name, ps) ELSE ps
  <2>1. apiRange'[d] = r
    BY <1>3, <1>4, <1>5
  <2>. QED
    BY <2>1 DEF Update
<1> HIDE DEF d, r
<1>7. \A k \in 1..Len(procs[d]) :
          /\ ToldWrite(procs[d][k], r) \in Process
          /\ ToldWrite(procs[d][k], r).deleted = procs[d][k].deleted
          /\ Follows(ToldWrite(procs[d][k], r), apiUid[d], r)
  <2>1. \A k \in 1..Len(procs[d]) :
            procs[d][k] \in Process /\ Follows(procs[d][k], apiUid[d], apiRange[d])
    BY <1>1, <1>3 DEF ProcessesFollow
  <2>. QED
    BY <1>4, <1>5, <2>1, WriteFollowed
<1>8. /\ ps \in [Dispatchers -> Seq(Process)]
      /\ \A e \in Dispatchers : e # d => ps[e] = procs[e]
      /\ Len(ps[d]) = Len(procs[d])
      /\ \A k \in 1..Len(ps[d]) : ps[d][k] = ToldWrite(procs[d][k], r)
  <2> DEFINE n == Len(procs[d])
             t == [k \in 1..n |-> ToldWrite(procs[d][k], r)]
  <2>1. n \in Nat
    BY <1>1, <1>3
  <2>2. t \in Seq(Process) /\ Len(t) = n /\ \A k \in 1..n : t[k] = ToldWrite(procs[d][k], r)
    BY <1>7, <2>1
  <2>3. ps = [procs EXCEPT ![d] = t]
    BY DEF Written
  <2> HIDE DEF n, t, ps
  <2>. QED
    BY <1>1, <1>3, <2>2, <2>3 DEF n
<1> HIDE DEF ps
<1>9. \A e \in Dispatchers : \A k \in 1..Len(ps[e]) : Follows(ps[e][k], apiUid'[e], apiRange'[e])
  <2> SUFFICES ASSUME NEW e \in Dispatchers, NEW k \in 1..Len(ps[e])
               PROVE  Follows(ps[e][k], apiUid'[e], apiRange'[e])
    OBVIOUS
  <2>1. CASE e = d
    BY <1>3, <1>4, <1>5, <1>7, <1>8, <2>1
  <2>2. CASE e # d
    BY <1>1, <1>4, <1>5, <1>8, <2>2 DEF ProcessesFollow
  <2>. QED
    BY <2>1, <2>2
<1>10. \A e \in Dispatchers : (\E k \in 1..Len(procs[e]) : ~procs[e][k].deleted)
                              => \E k \in 1..Len(ps[e]) : ~ps[e][k].deleted
  <2> SUFFICES ASSUME NEW e \in Dispatchers, NEW k \in 1..Len(procs[e]), ~procs[e][k].deleted
               PROVE  \E l \in 1..Len(ps[e]) : ~ps[e][l].deleted
    OBVIOUS
  <2>1. CASE e = d
    BY <1>7, <1>8, <2>1
  <2>2. CASE e # d
    BY <1>8, <2>2
  <2>. QED
    BY <2>1, <2>2
<1>11. CASE next' = 0 /\ adding # Nobody
  <2> DEFINE a == adding.name
             qs == RunProcess(a, ps)
  <2>1. a \in Dispatchers
    BY <1>3, <1>11
  <2>2. qs \in [Dispatchers -> Seq(Process)]
    BY <1>8, <2>1, ProcessRuns
  <2>3. /\ \A e \in Dispatchers : \A k \in 1..Len(qs[e]) :
               Follows(qs[e][k], apiUid'[e], apiRange'[e])
        /\ \E k \in 1..Len(qs[a]) : ~qs[a][k].deleted
        /\ \A e \in Dispatchers : (\E k \in 1..Len(ps[e]) : ~ps[e][k].deleted)
                                  => \E k \in 1..Len(qs[e]) : ~qs[e][k].deleted
    BY <1>8, <1>9, <2>1, RunFollows
  <2> HIDE DEF qs
  <2>4. procs' = qs
    BY <1>6, <1>11 DEF qs
  <2>5. ProcessesFollow'
    BY <2>3, <2>4 DEF ProcessesFollow
  <2>6. \A e \in Dispatchers : apiUid[e] # 0 /\ apiUid[e] \in started' =>
            apiUid[e] \in started \/ e = a
    BY <1>1, <1>5, <1>11, <2>1
  <2>7. ProcessesLive'
    BY <1>1, <1>5, <1>10, <2>3, <2>4, <2>6 DEF ProcessesLive
  <2>. QED
    BY <2>2, <2>4, <2>5, <2>7
<1>12. CASE ~(next' = 0 /\ adding # Nobody)
  <2>1. procs' = ps
    BY <1>6, <1>12
  <2>2. started' = started
    <3>1. CASE next' # 0
      BY <1>5, <3>1
    <3>2. CASE next' = 0
      <4>1. adding = Nobody
        BY <1>12, <3>2
      <4>2. Nobody.uid = 0
        BY DEF Nobody
      <4>. QED
        BY <1>5, <3>2, <4>1, <4>2
    <3>. QED
      BY <3>1, <3>2
  <2>. QED
    BY <1>1, <1>5, <1>8, <1>9, <1>10, <2>1, <2>2 DEF ProcessesFollow, ProcessesLive
<1>. QED
  BY <1>11, <1>12

(* One process takes a step: it goes on as another one that follows its    *)
(* dispatcher, or it ends because the dispatcher does not exist or was     *)
(* deleted.                                                                *)
LEMMA ProcessBecomes ==
    ASSUME procs \in [Dispatchers -> Seq(Process)], ProcessesFollow, ProcessesLive,
           NEW d \in Dispatchers, NEW k \in 1..Len(procs[d]), NEW p \in Process,
           Follows(p, apiUid[d], apiRange[d]),
           p.deleted => procs[d][k].deleted,
           Becomes(d, k, p), UNCHANGED <<apiUid, apiRange, started>>
    PROVE  procs' \in [Dispatchers -> Seq(Process)] /\ ProcessesFollow' /\ ProcessesLive'
<1> DEFINE t == [procs[d] EXCEPT ![k] = p]
<1>1. /\ t \in Seq(Process) /\ Len(t) = Len(procs[d]) /\ t[k] = p
      /\ \A j \in 1..Len(procs[d]) : j # k => t[j] = procs[d][j]
  OBVIOUS
<1> HIDE DEF t
<1>2. /\ procs' = [procs EXCEPT ![d] = t] /\ procs' \in [Dispatchers -> Seq(Process)]
      /\ procs'[d] = t /\ \A e \in Dispatchers : e # d => procs'[e] = procs[e]
  BY <1>1 DEF Becomes, t
<1>3. ASSUME NEW e \in Dispatchers, NEW j \in 1..Len(procs'[e])
      PROVE  Follows(procs'[e][j], apiUid[e], apiRange[e])
  <2>1. CASE e = d /\ j = k
    BY <1>1, <1>2, <2>1
  <2>2. CASE ~(e = d /\ j = k)
    BY <1>1, <1>2, <2>2 DEF ProcessesFollow
  <2>. QED
    BY <2>1, <2>2
<1>4. ASSUME NEW e \in Dispatchers, NEW j \in 1..Len(procs[e]), ~procs[e][j].deleted
      PROVE  \E l \in 1..Len(procs'[e]) : ~procs'[e][l].deleted
  <2>1. j \in 1..Len(procs'[e]) /\ ~procs'[e][j].deleted
    BY <1>1, <1>2, <1>4
  <2>. QED
    BY <2>1
<1>. QED
  BY <1>2, <1>3, <1>4 DEF ProcessesFollow, ProcessesLive

LEMMA ProcessEnds ==
    ASSUME procs \in [Dispatchers -> Seq(Process)], ProcessesFollow, ProcessesLive,
           NEW d \in Dispatchers, NEW k \in 1..Len(procs[d]),
           apiUid[d] = 0 \/ procs[d][k].deleted,
           Ends(d, k), UNCHANGED <<apiUid, apiRange, started>>
    PROVE  procs' \in [Dispatchers -> Seq(Process)] /\ ProcessesFollow' /\ ProcessesLive'
<1> DEFINE n == Len(procs[d])
           t == [j \in 1..(n - 1) |-> procs[d][IF j < k THEN j ELSE j + 1]]
<1>1. n \in Nat /\ n - 1 \in Nat /\ k \in 1..n /\ \A j \in 1..n : procs[d][j] \in Process
  OBVIOUS
<1>2. procs' = [procs EXCEPT ![d] = t]
  BY DEF Ends
<1> HIDE DEF n
<1>3. /\ t \in Seq(Process) /\ Len(t) = n - 1
      /\ \A j \in 1..(n - 1) : t[j] = procs[d][IF j < k THEN j ELSE j + 1]
  <2>1. \A j \in 1..(n - 1) : (IF j < k THEN j ELSE j + 1) \in 1..n
    BY <1>1
  <2>. QED
    BY <1>1, <2>1
<1> HIDE DEF t
<1>4. /\ procs' \in [Dispatchers -> Seq(Process)] /\ procs'[d] = t
      /\ \A e \in Dispatchers : e # d => procs'[e] = procs[e]
  BY <1>2, <1>3
<1>5. ASSUME NEW e \in Dispatchers, NEW j \in 1..Len(procs'[e])
      PROVE  Follows(procs'[e][j], apiUid[e], apiRange[e])
  <2>1. CASE e = d
    <3>1. j \in 1..(n - 1) /\ (IF j < k THEN j ELSE j + 1) \in 1..n
      BY <1>1, <1>3, <1>4, <2>1
    <3>2. t[j] = procs[d][IF j < k THEN j ELSE j + 1]
      BY <1>3, <3>1
    <3>. QED
      BY <1>4, <2>1, <3>1, <3>2 DEF ProcessesFollow, n
  <2>2. CASE e # d
    BY <1>4, <2>2 DEF ProcessesFollow
  <2>. QED
    BY <2>1, <2>2
<1>6. ASSUME NEW e \in Dispatchers, apiUid[e] # 0, NEW j \in 1..Len(procs[e]),
             ~procs[e][j].deleted
      PROVE  \E l \in 1..Len(procs'[e]) : ~procs'[e][l].deleted
  <2>1. CASE e = d
    <3> DEFINE l == IF j < k THEN j ELSE j - 1
    <3>1. j # k /\ j \in 1..n
      BY <1>6, <2>1 DEF n
    <3>2. l \in 1..(n - 1) /\ (IF l < k THEN l ELSE l + 1) = j
      BY <1>1, <3>1
    <3>3. procs'[e][l] = procs[e][j] /\ l \in 1..Len(procs'[e])
      BY <1>3, <1>4, <2>1, <3>2
    <3>. QED
      BY <1>6, <3>3
  <2>2. CASE e # d
    BY <1>4, <1>6, <2>2
  <2>. QED
    BY <2>1, <2>2
<1>. QED
  BY <1>4, <1>5, <1>6 DEF ProcessesFollow, ProcessesLive

LEMMA ServedProcessStep ==
    ASSUME ControllerInv, ServingInv, ProcessStep
    PROVE  procs' \in [Dispatchers -> Seq(Process)] /\ ProcessesFollow' /\ ProcessesLive'
<1>1. procs \in [Dispatchers -> Seq(Process)] /\ ProcessesFollow /\ ProcessesLive
  BY DEF ServingInv
<1>0. PICK d \in Dispatchers : \E k \in 1..Len(procs[d]) :
          NewProcess(d, k) \/ Run(d, k) \/ UpdateFunc(d, k) \/ DeleteFunc(d, k)
  BY DEF ProcessStep
<1>2. PICK k \in 1..Len(procs[d]) :
          NewProcess(d, k) \/ Run(d, k) \/ UpdateFunc(d, k) \/ DeleteFunc(d, k)
  BY <1>0
<1>3. UNCHANGED <<apiUid, apiRange, started>>
  BY DEF ProcessStep, vars, apiVars
<1> DEFINE p == procs[d][k]
<1>4. p \in Process /\ Follows(p, apiUid[d], apiRange[d]) /\ apiRange[d] \in ClusterRanges
  BY <1>1 DEF ProcessesFollow, ControllerInv, TypeOK
<1>5. CASE apiUid[d] = 0 /\ Ends(d, k)
  BY <1>1, <1>3, <1>5, ProcessEnds
<1>6. CASE DeleteFunc(d, k)
  BY <1>1, <1>3, <1>6, ProcessEnds DEF DeleteFunc
<1>7. CASE NewProcess(d, k) /\ apiUid[d] # 0
  <2> DEFINE q == [p EXCEPT !.stage = "read", !.range = apiRange[d]]
  <2>1. Becomes(d, k, q) /\ p.stage = "starting"
    BY <1>7 DEF NewProcess
  <2>2. p = Starting
    BY <1>4, <2>1 DEF Follows
  <2> HIDE DEF p
  <2>3. q \in Process /\ ~q.deleted /\ Follows(q, apiUid[d], apiRange[d])
    BY <1>4, <1>7, <2>2 DEF Follows, Process, Starting
  <2> HIDE DEF q
  <2>. QED
    BY <1>1, <1>3, <2>1, <2>3, ProcessBecomes
<1>8. CASE Run(d, k)
  <2> DEFINE q == [p EXCEPT !.stage = "watching"]
  <2>1. Becomes(d, k, q) /\ p.stage = "read"
    BY <1>8 DEF Run
  <2> HIDE DEF p
  <2>2. q \in Process /\ ~q.deleted /\ Follows(q, apiUid[d], apiRange[d])
    BY <1>4, <2>1 DEF Follows, Process
  <2> HIDE DEF q
  <2>. QED
    BY <1>1, <1>3, <2>1, <2>2, ProcessBecomes
<1>9. CASE UpdateFunc(d, k)
  <2> DEFINE q == IF p.event = {p.range} THEN [p EXCEPT !.event = {}] ELSE Starting
  <2>1. Becomes(d, k, q) /\ p.event # {}
    BY <1>9 DEF UpdateFunc
  <2>2. q \in Process /\ (q.deleted => p.deleted) /\ Follows(q, apiUid[d], apiRange[d])
    <3> HIDE DEF p
    <3>1. CASE p.event = {p.range}
      <4>1. q = [p EXCEPT !.event = {}] /\ p.stage = "watching"
        BY <1>4, <2>1, <3>1 DEF Follows, Process, Starting
      <4> HIDE DEF q
      <4>. QED
        BY <1>4, <2>1, <3>1, <4>1 DEF Follows, Process
    <3>2. CASE p.event # {p.range}
      <4>1. q = Starting
        BY <3>2
      <4> HIDE DEF q
      <4>. QED
        BY <4>1, StartingTyped DEF Follows
    <3>. QED
      BY <3>1, <3>2
  <2> HIDE DEF q
  <2>. QED
    BY <1>1, <1>3, <2>1, <2>2, ProcessBecomes
<1>. QED
  BY <1>2, <1>5, <1>6, <1>7, <1>8, <1>9 DEF NewProcess

(* Together: the processes follow their dispatchers.                       *)
LEMMA ServingInvariance == ProcessesSpec => []ServingInv
<1>1. ProcessesInit => ServingInv
  <2> SUFFICES ASSUME ProcessesInit PROVE ServingInv
    OBVIOUS
  <2>1. /\ procs = [d \in Dispatchers |-> <<>>] /\ apiUid = [d \in Dispatchers |-> 0]
        /\ started = {} /\ adding = Nobody
    BY DEF ProcessesInit, Init
  <2>2. \A d \in Dispatchers : 1..Len(procs[d]) = {}
    BY <2>1
  <2>. QED
    BY <2>1, <2>2 DEF ServingInv, UidsOwned, ProcessesFollow, ProcessesLive
<1>2. ControllerInv /\ ServingInv /\ [ProcessesNext]_allVars => ServingInv'
  <2> SUFFICES ASSUME ControllerInv, ServingInv, [ProcessesNext]_allVars
               PROVE  ServingInv'
    OBVIOUS
  <2>1. UidsOwned'
    BY UidsStep DEF ServingInv
  <2>2. CASE UNCHANGED <<apiUid, apiRange, started, procs>>
    BY <2>1, <2>2 DEF ServingInv, ProcessesFollow, ProcessesLive
  <2>3. \/ UNCHANGED <<apiUid, apiRange, started, procs>>
        \/ \E d \in Dispatchers : \/ CreateDispatcher(d) /\ UNCHANGED procs
                                  \/ Delete(d) \/ Add(d)
        \/ Update \/ ProcessStep
    BY DEF ProcessesNext, Controller, Handlers, allVars, vars, apiVars, ChangeCluster,
           deleteDispatcher, addCluster, deleteCluster, Fatal, Restart
  <2>. QED
    BY <2>1, <2>2, <2>3, ServedUserStep, ServedAddStep, ServedWriteStep, ServedProcessStep
       DEF ServingInv
<1>. QED
  BY <1>1, <1>2, ControllerInvariance, PTL DEF ProcessesSpec

(* Once all is handled every cluster is served by the processes of exactly *)
(* one dispatcher and every dispatcher has a process, for any numbers of   *)
(* dispatchers, clusters, processes and restarts.                          *)
THEOREM ProcessesServe == ProcessesSpec => []ProcessesInv
<1>1. ControllerInv /\ ServingInv /\ EveryDispatcherStarted /\ ClustersPartitioned
      => ProcessesInv
  <2> SUFFICES ASSUME ControllerInv, ServingInv, EveryDispatcherStarted,
                      ClustersPartitioned
               PROVE  ClustersServed
    BY DEF ProcessesInv, ProcessesTypeOK, EveryDispatcherRuns, EveryDispatcherStarted,
           Existing, ProcessesLive, ControllerInv, ServingInv
  <2> SUFFICES ASSUME Settled, Existing # {},
                      \A d \in Dispatchers : \A k \in 1..Len(procs[d]) : ~procs[d][k].missed,
                      NEW c \in apiClusters
               PROVE  /\ \E d \in Dispatchers : Serves(d, c)
                      /\ \A d1, d2 \in Dispatchers : Serves(d1, c) /\ Serves(d2, c) => d1 = d2
    BY DEF ClustersServed
  <2>1. ASSUME NEW d \in Dispatchers, NEW k \in 1..Len(procs[d])
        PROVE  d \in Existing /\ procs[d][k].range = apiRange[d]
    <3>1. /\ procs[d][k].stage = "watching" /\ ~procs[d][k].missed
          /\ procs[d][k].event = {} /\ ~procs[d][k].deleted
      BY DEF Settled
    <3>2. Follows(procs[d][k], apiUid[d], apiRange[d])
      BY DEF ServingInv, ProcessesFollow
    <3>. QED
      BY <3>1, <3>2 DEF Follows, Existing
  <2>2. ASSUME NEW d \in Existing PROVE d \in Dispatchers /\ \E k \in 1..Len(procs[d]) : TRUE
    <3>1. d \in Dispatchers /\ apiUid[d] # 0 /\ apiUid[d] \in started
      BY DEF Existing, EveryDispatcherStarted, Settled
    <3>. QED
      BY <3>1 DEF ServingInv, ProcessesLive
  <2>3. \A d \in Dispatchers : Serves(d, c) <=> d \in Existing /\ InRange(c, apiRange[d])
    BY <2>1, <2>2 DEF Serves
  <2>4. /\ \E d \in Existing : InRange(c, apiRange[d])
        /\ \A d1, d2 \in Existing :
               InRange(c, apiRange[d1]) /\ InRange(c, apiRange[d2]) => d1 = d2
    BY DEF ClustersPartitioned, Settled
  <2>. QED
    BY <2>2, <2>3, <2>4
<1>. QED
  BY <1>1, ControllerInvariance, ServingInvariance, DispatchersStarted,
     ClustersArePartitioned, PTL
=============================================================================
