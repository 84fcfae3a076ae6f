------------------------- MODULE EvenlyDivideProofs -------------------------
(***************************************************************************)
(* Proofs about util.EvenlyDivide for every number of workers, every upper *)
(* bound and every integer width.                                          *)
(***************************************************************************)
EXTENDS EvenlyDivideLoop, WellFoundedInduction, TLAPS

(* Multiplication by a natural number is monotone.                         *)
LEMMA ProductMonotone ==
    ASSUME NEW a \in Nat, NEW b \in Nat, NEW c \in Nat, a <= b
    PROVE  a * c <= b * c
<1>1. b * c = a * c + (b - a) * c
  OBVIOUS
<1>2. (b - a) * c \in Nat
  OBVIOUS
<1>3. a * c \in Nat /\ b * c \in Nat
  OBVIOUS
<1>. QED
  BY <1>1, <1>2, <1>3

(* Go's / and % on a positive divisor.                                     *)
LEMMA DivMod ==
    ASSUME NEW s \in Nat \ {0}, NEW u \in Nat
    PROVE  /\ chunk(s, u) \in Nat
           /\ mod(s, u) \in Nat
           /\ mod(s, u) < s
           /\ u = s * chunk(s, u) + mod(s, u)
  BY DEF chunk, mod

(* The chunk boundaries: where they start, how far apart they are, and     *)
(* that all of 0 .. upper is handed out after ChunkCount chunks.           *)
LEMMA ChunkBoundaries ==
    ASSUME NEW s \in Nat \ {0}, NEW u \in Nat
    PROVE  /\ ChunkStart(s, u, 0) = 0
           /\ \A k \in 0..s : ChunkStart(s, u, k) \in Nat
           /\ \A k \in 0..s : ChunkStart(s, u, k + 1) = ChunkStart(s, u, k)
                    + chunk(s, u) + (IF k <= mod(s, u) THEN 1 ELSE 0)
           /\ \A k, l \in 0..s :
                    k <= l => ChunkStart(s, u, k) <= ChunkStart(s, u, l)
           /\ ChunkStart(s, u, s) = u + 1
<1> DEFINE c == chunk(s, u)
           m == mod(s, u)
<1>1. c \in Nat /\ m \in Nat /\ m < s /\ u = s * c + m
  BY DivMod
<1>2. \A k \in Nat : k * c \in Nat /\ (k + 1) * c = k * c + c
  BY <1>1
<1>3. \A k \in Nat : ChunkStart(s, u, k) = k * c + Smaller(k, m + 1)
  BY DEF ChunkStart
<1> HIDE DEF c, m
<1>4. ChunkStart(s, u, 0) = 0
  BY <1>1, <1>3 DEF Smaller
<1>5. \A k \in 0..s : ChunkStart(s, u, k) \in Nat
  BY <1>1, <1>2, <1>3 DEF Smaller
<1>6. ASSUME NEW k \in 0..s
      PROVE  ChunkStart(s, u, k + 1)
                = ChunkStart(s, u, k) + c + (IF k <= m THEN 1 ELSE 0)
  BY <1>1, <1>2, <1>3 DEF Smaller
<1>7. ASSUME NEW k \in 0..s, NEW l \in 0..s, k <= l
      PROVE  ChunkStart(s, u, k) <= ChunkStart(s, u, l)
  <2>1. k * c <= l * c
    BY <1>1, <1>7, ProductMonotone
  <2>2. k * c \in Nat /\ l * c \in Nat
    BY <1>2
  <2>3. /\ Smaller(k, m + 1) \in Nat /\ Smaller(l, m + 1) \in Nat
        /\ Smaller(k, m + 1) <= Smaller(l, m + 1)
    BY <1>1, <1>7 DEF Smaller
  <2>4. /\ ChunkStart(s, u, k) = k * c + Smaller(k, m + 1)
        /\ ChunkStart(s, u, l) = l * c + Smaller(l, m + 1)
    BY <1>3
  <2>. QED
    BY <2>1, <2>2, <2>3, <2>4
<1>8. ChunkStart(s, u, s) = u + 1
  <2>1. s * c \in Nat
    BY <1>2
  <2>. QED
    BY <1>1, <1>3, <2>1 DEF Smaller
<1>. QED
  BY <1>4, <1>5, <1>6, <1>7, <1>8 DEF c, m

(* A chunk is never empty, and with more workers than elements each of     *)
(* the first upper + 1 workers gets exactly one element.                   *)
LEMMA ChunksNonEmpty ==
    ASSUME NEW s \in Nat \ {0}, NEW u \in Nat
    PROVE  /\ \A k \in 0..s : k < ChunkCount(s, u)
                    => ChunkStart(s, u, k) < ChunkStart(s, u, k + 1)
           /\ ChunkCount(s, u) \in 1..s
           /\ ChunkStart(s, u, ChunkCount(s, u)) = u + 1
<1> DEFINE c == chunk(s, u)
           m == mod(s, u)
<1>1. c \in Nat /\ m \in Nat /\ m < s /\ u = s * c + m
  BY DivMod
<1>2. ChunkCount(s, u) = Smaller(s, u + 1)
  BY DEF ChunkCount
<1>3. \A k \in 0..s : ChunkStart(s, u, k + 1)
                = ChunkStart(s, u, k) + c + (IF k <= m THEN 1 ELSE 0)
  BY ChunkBoundaries DEF c, m
<1>4. \A k \in 0..s : ChunkStart(s, u, k) \in Nat
  BY ChunkBoundaries
<1>5. \A k \in Nat : ChunkStart(s, u, k) = k * c + Smaller(k, m + 1)
  BY DEF ChunkStart
<1> HIDE DEF c, m
<1>6. CASE c = 0
  <2>1. m = u /\ u < s
    BY <1>1, <1>6
  <2>2. ChunkCount(s, u) = u + 1
    BY <1>2, <2>1 DEF Smaller
  <2>3. ChunkStart(s, u, u + 1) = u + 1
    BY <1>5, <1>6, <2>1 DEF Smaller
  <2>. QED
    BY <1>1, <1>3, <1>4, <2>1, <2>2, <2>3
<1>7. CASE c # 0
  <2>1. s * 1 <= s * c
    BY <1>1, <1>7, ProductMonotone
  <2>2. s <= u
    BY <1>1, <2>1
  <2>3. ChunkCount(s, u) = s
    BY <1>2, <2>2 DEF Smaller
  <2>4. ChunkStart(s, u, s) = u + 1
    BY ChunkBoundaries
  <2>5. ASSUME NEW k \in 0..s
        PROVE  ChunkStart(s, u, k) < ChunkStart(s, u, k + 1)
    BY <1>1, <1>3, <1>4, <1>7
  <2>. QED
    BY <2>3, <2>4, <2>5
<1>. QED
  BY <1>6, <1>7

(* The closed form is a partition: its chunks lie in 0 .. u, and each      *)
(* element of 0 .. u is in one of them and in no other.                    *)
LEMMA ChunksPartition ==
    ASSUME NEW s \in Nat \ {0}, NEW u \in Nat
    PROVE  /\ ChunkCount(s, u) \in 1..s
           /\ Len(EvenlyDivide(s, u)) = ChunkCount(s, u)
           /\ \A j \in 1..ChunkCount(s, u) :
                  /\ EvenlyDivide(s, u)[j][1] \in 0..u
                  /\ EvenlyDivide(s, u)[j][2] \in 0..u
           /\ \A k \in 0..u : \E j \in 1..ChunkCount(s, u) :
                  /\ EvenlyDivide(s, u)[j][1] <= k
                  /\ k <= EvenlyDivide(s, u)[j][2]
           /\ \A k \in 0..u : \A i1, i2 \in 1..ChunkCount(s, u) :
                  /\ EvenlyDivide(s, u)[i1][1] <= k /\ k <= EvenlyDivide(s, u)[i1][2]
                  /\ EvenlyDivide(s, u)[i2][1] <= k /\ k <= EvenlyDivide(s, u)[i2][2]
                  => i1 = i2
<1> DEFINE n == ChunkCount(s, u)
           r == EvenlyDivide(s, u)
           b(k) == ChunkStart(s, u, k)
<1>1. n \in 1..s /\ n \in Nat /\ b(n) = u + 1 /\ b(0) = 0
  BY ChunksNonEmpty, ChunkBoundaries
<1>2. /\ \A k \in 0..n : b(k) \in Nat
      /\ \A k, l \in 0..n : k <= l => b(k) <= b(l)
      /\ \A k \in 0..n : k < n => b(k) < b(k + 1)
  <2>1. \A k \in 0..n : k \in 0..s
    BY <1>1
  <2>2. \A k \in 0..s : b(k) \in Nat
    BY ChunkBoundaries
  <2>3. \A k, l \in 0..s : k <= l => b(k) <= b(l)
    BY ChunkBoundaries
  <2>4. \A k \in 0..s : k < n => b(k) < b(k + 1)
    BY ChunksNonEmpty
  <2>. QED
    BY <2>1, <2>2, <2>3, <2>4
<1>3. r = [k \in 1..n |-> <<b(k - 1), b(k) - 1>>]
  BY DEF EvenlyDivide
<1>4. Len(r) = n
  BY <1>1, <1>3
<1> HIDE DEF n, r, b
<1>5. \A j \in 1..n : /\ r[j][1] = b(j - 1) /\ r[j][2] = b(j) - 1
                      /\ j \in 0..n /\ j - 1 \in 0..n /\ (j - 1) + 1 = j
  BY <1>1, <1>3
<1>6. ASSUME NEW j \in 1..n PROVE r[j][1] \in 0..u /\ r[j][2] \in 0..u
  <2>1. b(j - 1) < b(j) /\ b(j) <= b(n) /\ b(j - 1) \in Nat /\ b(j) \in Nat
    <3>1. j \in 0..n /\ j - 1 \in 0..n /\ n \in 0..n /\ j - 1 < n /\ j <= n
      BY <1>1
    <3>2. b(j - 1) < b((j - 1) + 1)
      BY <1>2, <3>1
    <3>. QED
      BY <1>2, <1>5, <3>1, <3>2
  <2>. QED
    BY <1>1, <1>5, <2>1
<1>7. ASSUME NEW k \in 0..u
      PROVE  \E j \in 1..n : r[j][1] <= k /\ k <= r[j][2]
  <2> DEFINE After == {j \in 1..n : k < b(j)}
  <2>1. n \in After
    BY <1>1
  <2>2. PICK j \in After : \A l \in After : ~(<<l, j>> \in OpToRel(<, Nat))
    <3>1. After \subseteq Nat /\ After # {}
      BY <1>1, <2>1
    <3>. QED
      BY <3>1, NatLessThanWellFounded, WFMin
  <2>3. \A l \in 1..n : l < j => ~(k < b(l))
    <3>1. After \subseteq Nat /\ \A l \in 1..n : k < b(l) => l \in After
      BY <1>1
    <3>2. \A l \in After : ~(l < j)
      <4> HIDE DEF After
      <4>. QED
        BY <2>2, <3>1 DEF OpToRel
    <3> HIDE DEF After
    <3>. QED
      BY <3>1, <3>2
  <2>4. b(j - 1) <= k
    <3>1. CASE j = 1
      BY <1>1, <3>1
    <3>2. CASE j # 1
      <4>1. j - 1 \in 1..n /\ j - 1 < j
        BY <1>1, <3>2
      <4>. QED
        BY <1>2, <2>3, <4>1
    <3>. QED
      BY <3>1, <3>2
  <2>5. b(j) \in Nat /\ k < b(j)
    BY <1>2, <1>5
  <2>. QED
    BY <1>5, <2>4, <2>5
<1>8. ASSUME NEW k \in 0..u, NEW i1 \in 1..n, NEW i2 \in 1..n, i1 < i2,
             r[i1][1] <= k, k <= r[i1][2], r[i2][1] <= k, k <= r[i2][2]
      PROVE  FALSE
  <2>1. b(i1) <= b(i2 - 1) /\ b(i1) \in Nat /\ b(i2 - 1) \in Nat
    <3>1. i1 \in 0..n /\ i2 - 1 \in 0..n /\ i1 <= i2 - 1
      BY <1>1, <1>8
    <3>. QED
      BY <1>2, <3>1
  <2>. QED
    BY <1>5, <1>8, <2>1
<1>9. \A k \in 0..u : \A i1, i2 \in 1..n :
          r[i1][1] <= k /\ k <= r[i1][2] /\ r[i2][1] <= k /\ k <= r[i2][2] => i1 = i2
  <2>1. \A i1, i2 \in 1..n : i1 < i2 \/ i2 < i1 \/ i1 = i2
    BY <1>1
  <2>. QED
    BY <1>8, <2>1
<1>. QED
  BY <1>1, <1>4, <1>6, <1>7, <1>9 DEF n, r

(* The loop invariant holds throughout.                                    *)
LEMMA LoopInvariance == Spec => []LoopInv
<1>1. Init => LoopInv
  <2> SUFFICES ASSUME Init PROVE LoopInv
    OBVIOUS
  <2>1. TypeOK /\ (size = 0 => pc = "done" /\ res = <<>>)
    BY MaxIntAssumption DEF Init, TypeOK
  <2>2. ASSUME size > 0
        PROVE  /\ start = Int64(NextFree) /\ NextFree <= upper + 1
               /\ i <= ChunkCount(size, upper)
               /\ ChunksSoFar /\ CoveredSoFar
               /\ i < size \/ pc = "done"
               /\ pc = "done" => i = ChunkCount(size, upper)
    <3>1. size \in Nat \ {0} /\ upper \in Nat
      BY <2>1, <2>2, MaxIntAssumption DEF TypeOK
    <3>2. NextFree = 0
      BY <3>1, ChunkBoundaries DEF NextFree, Init
    <3>. QED
      BY <2>2, <3>1, <3>2, MaxIntAssumption, ChunksNonEmpty
         DEF Init, Int64, ChunksSoFar, CoveredSoFar
  <2>. QED
    BY <2>1, <2>2 DEF LoopInv
<1>2. LoopInv /\ [Next]_vars => LoopInv'
  <2> SUFFICES ASSUME LoopInv, [Next]_vars PROVE LoopInv'
    OBVIOUS
  <2>1. CASE Iterate
    <3>1. size > 0 /\ size \in Nat \ {0} /\ upper \in Nat /\ upper <= MaxInt
      BY <2>1, MaxIntAssumption DEF LoopInv, TypeOK, Iterate
    <3> DEFINE n == ChunkStart(size, upper, i + 1)
    <3>2. i \in 0..size /\ i < size /\ i \in Nat
      BY <2>1, <3>1 DEF LoopInv, TypeOK, Iterate
    <3>3. /\ NextFree \in Nat /\ n \in Nat
          /\ n = NextFree + chunk(size, upper)
                   + (IF i <= mod(size, upper) THEN 1 ELSE 0)
          /\ chunk(size, upper) \in Nat
      <4>1. i \in 0..size /\ i + 1 \in 0..size
        BY <3>1, <3>2
      <4>2. /\ ChunkStart(size, upper, i) \in Nat
            /\ ChunkStart(size, upper, i + 1) \in Nat
            /\ ChunkStart(size, upper, i + 1) = ChunkStart(size, upper, i)
                   + chunk(size, upper) + (IF i <= mod(size, upper) THEN 1 ELSE 0)
        BY <3>1, <4>1, ChunkBoundaries
      <4>. QED
        BY <3>1, <4>2, DivMod DEF NextFree
    <3>4. n <= upper + 1
      BY <3>1, <3>2, ChunkBoundaries
    <3>5. start = NextFree /\ NextFree <= upper
      <4>1. NextFree <= upper + 1 /\ start = Int64(NextFree)
        BY <3>1 DEF LoopInv
      <4>2. start <= upper
        BY <2>1 DEF Iterate
      <4>3. CASE i < ChunkCount(size, upper)
        <5>1. NextFree < n
          BY <3>1, <3>2, <4>3, ChunksNonEmpty DEF NextFree
        <5>. QED
          BY <3>1, <3>3, <3>4, <4>1, <5>1, MaxIntAssumption DEF Int64
      <4>4. CASE ~(i < ChunkCount(size, upper))
        <5>1. upper + 1 < size /\ size <= MaxInt
          BY <3>1, <3>2, <4>4, MaxIntAssumption
             DEF ChunkCount, Smaller, LoopInv, TypeOK
        <5>. QED
          BY <3>1, <3>3, <4>1, <4>2, <5>1, MaxIntAssumption DEF Int64
      <4>. QED
        BY <4>3, <4>4
    <3>6. End = n - 1
      BY <3>1, <3>3, <3>4, <3>5, MaxIntAssumption DEF Int64, End
    <3>7. /\ i < ChunkCount(size, upper) /\ n > NextFree
          /\ ChunkCount(size, upper) \in 1..size
      <4>1. ChunkStart(size, upper, ChunkCount(size, upper)) = upper + 1
        BY <3>1, ChunksNonEmpty
      <4>2. i # ChunkCount(size, upper)
        BY <3>1, <3>3, <3>5, <4>1 DEF NextFree
      <4>3. ChunkCount(size, upper) \in 1..size
        BY <3>1, ChunksNonEmpty
      <4>4. i < ChunkCount(size, upper)
        BY <3>1, <3>2, <4>2, <4>3 DEF LoopInv
      <4>. QED
        BY <3>1, <3>2, <4>3, <4>4, ChunksNonEmpty DEF NextFree
    <3>8. NextFree' = n
      BY <2>1 DEF Iterate, NextFree
    <3>9. Len(res) = i /\ res \in Seq((0..MaxInt) \X (0..MaxInt))
      BY <3>1, <3>2 DEF LoopInv, TypeOK, ChunksSoFar
    <3>10. res' = Append(res, <<NextFree, n - 1>>) /\ i' = i + 1
           /\ size' = size /\ upper' = upper
      BY <2>1, <3>5, <3>6 DEF Iterate
    <3>11. NextFree \in 0..MaxInt /\ n - 1 \in 0..MaxInt
      BY <3>1, <3>3, <3>4, <3>5, <3>7, MaxIntAssumption
    <3>12. start' = Int64(n)
      BY <2>1, <3>3, <3>6 DEF Iterate
    <3>13. TypeOK'
      <4>1. start' \in (-MaxInt - 1)..MaxInt
        BY <3>1, <3>3, <3>4, <3>12, MaxIntAssumption DEF Int64
      <4>2. res' \in Seq((0..MaxInt) \X (0..MaxInt))
        BY <3>9, <3>10, <3>11
      <4>3. i' \in 0..size' /\ size' \in 0..MaxInt /\ upper' \in 0..MaxInt
        BY <3>2, <3>10 DEF LoopInv, TypeOK
      <4>4. pc' \in {"loop", "done"}
        BY <2>1 DEF Iterate
      <4>. QED
        BY <4>1, <4>2, <4>3, <4>4 DEF TypeOK
    <3>14. ChunksSoFar'
      <4>1. res = [k \in 1..i |-> <<ChunkStart(size, upper, k - 1),
                                    ChunkStart(size, upper, k) - 1>>]
        BY <3>1 DEF LoopInv, ChunksSoFar
      <4>2. (i + 1) - 1 = i
        BY <3>2
      <4>. QED
        BY <3>2, <3>9, <3>10, <4>1, <4>2 DEF ChunksSoFar, NextFree
    <3>15. CoveredSoFar'
      <4> SUFFICES ASSUME NEW k \in 0..upper, k < n
                   PROVE  \E j \in 1..Len(res') :
                              res'[j][1] <= k /\ k <= res'[j][2]
        BY <3>8, <3>10 DEF CoveredSoFar, InChunk
      <4>0. Len(res') = i + 1
        BY <3>9, <3>10
      <4>1. CASE k < NextFree
        <5>1. PICK j \in 1..Len(res) : res[j][1] <= k /\ k <= res[j][2]
          BY <3>1, <4>1 DEF LoopInv, CoveredSoFar, InChunk
        <5>2. j \in 1..(i + 1) /\ res'[j] = res[j]
          BY <3>2, <3>9, <3>10
        <5>. QED
          BY <4>0, <5>1, <5>2
      <4>2. CASE ~(k < NextFree)
        <5>1. res'[i + 1] = <<NextFree, n - 1>> /\ i + 1 \in 1..(i + 1)
          BY <3>2, <3>9, <3>10
        <5>2. NextFree <= k /\ k <= n - 1
          BY <3>1, <3>3, <4>2
        <5>. QED
          BY <4>0, <5>1, <5>2
      <4>. QED
        BY <4>1, <4>2
    <3>16. /\ i' < size' \/ pc' = "done"
           /\ pc' = "done" => i' = ChunkCount(size', upper')
      <4>1. pc' = IF i + 1 < size THEN "loop" ELSE "done"
        BY <2>1 DEF Iterate
      <4>2. i + 1 = size => ChunkCount(size, upper) = size
        BY <3>1, <3>2, <3>7
      <4>. QED
        BY <3>1, <3>2, <3>10, <4>1, <4>2
    <3>17. i' <= ChunkCount(size', upper')
      BY <3>1, <3>2, <3>7, <3>10
    <3>. QED
      BY <3>1, <3>4, <3>8, <3>10, <3>12, <3>17, <3>13, <3>14, <3>15, <3>16 DEF LoopInv
  <2>2. CASE ReturnEarly
    <3>1. size > 0 /\ size \in Nat \ {0} /\ upper \in Nat /\ upper <= MaxInt
          /\ i \in 0..size /\ i < size
      BY <2>2, MaxIntAssumption DEF LoopInv, TypeOK, ReturnEarly
    <3> DEFINE n == ChunkStart(size, upper, i + 1)
    <3>2. /\ NextFree \in Nat /\ n \in Nat
          /\ n = NextFree + chunk(size, upper)
                   + (IF i <= mod(size, upper) THEN 1 ELSE 0)
          /\ chunk(size, upper) \in Nat
      <4>1. i \in 0..size /\ i + 1 \in 0..size
        BY <3>1
      <4>2. /\ ChunkStart(size, upper, i) \in Nat
            /\ ChunkStart(size, upper, i + 1) \in Nat
            /\ ChunkStart(size, upper, i + 1) = ChunkStart(size, upper, i)
                   + chunk(size, upper) + (IF i <= mod(size, upper) THEN 1 ELSE 0)
        BY <3>1, <4>1, ChunkBoundaries
      <4>. QED
        BY <3>1, <4>2, DivMod DEF NextFree
    <3>3. n <= upper + 1
      BY <3>1, ChunkBoundaries
    <3>4. i = ChunkCount(size, upper)
      <4>1. NextFree <= upper + 1 /\ start = Int64(NextFree)
            /\ i <= ChunkCount(size, upper)
        BY <3>1 DEF LoopInv
      <4>2. start > upper \/ End > upper
        BY <2>2 DEF ReturnEarly
      <4>3. NextFree = upper + 1
        <5>1. CASE NextFree <= upper
          <6>1. start = NextFree
            BY <3>1, <3>2, <4>1, <5>1, MaxIntAssumption DEF Int64
          <6>2. End = n - 1
            BY <3>1, <3>2, <3>3, <6>1, MaxIntAssumption DEF Int64, End
          <6>. QED
            BY <3>1, <3>2, <3>3, <4>2, <5>1, <6>1, <6>2
        <5>. QED
          BY <3>1, <3>2, <4>1, <5>1
      <4>4. ChunkCount(size, upper) \in 1..size
        BY <3>1, ChunksNonEmpty
      <4>5. ~(i < ChunkCount(size, upper))
        <5> SUFFICES ASSUME i < ChunkCount(size, upper) PROVE FALSE
          OBVIOUS
        <5>1. NextFree < n
          BY <3>1, ChunksNonEmpty DEF NextFree
        <5>. QED
          BY <3>1, <3>2, <3>3, <4>3, <5>1
      <4>. QED
        BY <3>1, <4>1, <4>4, <4>5
    <3>. QED
      BY <2>2, <3>4 DEF LoopInv, ReturnEarly, TypeOK, NextFree, ChunksSoFar,
                        CoveredSoFar, InChunk
  <2>3. CASE UNCHANGED vars
    BY <2>3 DEF LoopInv, vars, TypeOK, NextFree, ChunksSoFar,
                CoveredSoFar, InChunk
  <2>. QED
    BY <2>1, <2>2, <2>3 DEF Next
<1>. QED
  BY <1>1, <1>2, PTL DEF Spec

(* For every number of workers, every upper bound and every width of the   *)
(* integers, EvenlyDivide returns a partition of 0 .. upper: each hash key *)
(* and each cluster index is given to exactly one worker.                  *)
THEOREM EvenlyDividePartitions == Spec => []Partition
<1>1. LoopInv => Partition
  <2> SUFFICES ASSUME LoopInv, pc = "done", size > 0, NEW k \in 0..upper
               PROVE  /\ \E j \in 1..Len(res) : InChunk(k, j)
                      /\ \A j1, j2 \in 1..Len(res) :
                             InChunk(k, j1) /\ InChunk(k, j2) => j1 = j2
    BY DEF Partition
  <2>1. /\ size \in Nat \ {0} /\ upper \in Nat
        /\ i \in 0..size /\ i = ChunkCount(size, upper)
    BY MaxIntAssumption DEF LoopInv, TypeOK
  <2>2. NextFree = upper + 1
    BY <2>1, ChunksNonEmpty DEF NextFree
  <2>3. \E j \in 1..Len(res) : InChunk(k, j)
    BY <2>1, <2>2 DEF LoopInv, CoveredSoFar
  <2>4. ASSUME NEW j1 \in 1..Len(res), NEW j2 \in 1..Len(res),
               InChunk(k, j1), InChunk(k, j2), j1 < j2
        PROVE  FALSE
    <3>1. j1 \in 1..i /\ j2 \in 1..i
      BY <2>1 DEF LoopInv, ChunksSoFar
    <3>2. k <= ChunkStart(size, upper, j1) - 1
          /\ ChunkStart(size, upper, j2 - 1) <= k
      BY <2>1, <2>4, <3>1 DEF LoopInv, ChunksSoFar, InChunk
    <3>3. j1 \in 0..size /\ j2 - 1 \in 0..size /\ j1 <= j2 - 1
      BY <2>1, <2>4, <3>1
    <3>4. /\ ChunkStart(size, upper, j1) <= ChunkStart(size, upper, j2 - 1)
          /\ ChunkStart(size, upper, j1) \in Nat
          /\ ChunkStart(size, upper, j2 - 1) \in Nat
      BY <2>1, <3>3, ChunkBoundaries
    <3>. QED
      BY <3>2, <3>4
  <2>5. Len(res) \in Nat
    BY DEF LoopInv, TypeOK
  <2>6. \A j1, j2 \in 1..Len(res) : j1 < j2 \/ j2 < j1 \/ j1 = j2
    BY <2>5
  <2>. QED
    BY <2>3, <2>4, <2>6
<1>. QED
  BY <1>1, LoopInvariance, PTL

(* The loop and the chunks used by the controllers' modules agree.         *)
THEOREM EvenlyDivideClosedForm == Spec => []ReturnsClosedForm
<1>1. LoopInv => ReturnsClosedForm
  <2> SUFFICES ASSUME LoopInv, pc = "done" PROVE res = EvenlyDivide(size, upper)
    BY DEF ReturnsClosedForm
  <2>1. CASE size > 0
    BY <2>1 DEF LoopInv, ChunksSoFar, EvenlyDivide
  <2>2. CASE size = 0
    <3>1. ChunkCount(size, upper) = 0 /\ EvenlyDivide(size, upper) = <<>>
      BY <2>2 DEF ChunkCount, EvenlyDivide
    <3>2. res = <<>>
      BY <2>2 DEF LoopInv
    <3>. QED
      BY <3>1, <3>2
  <2>. QED
    BY <2>1, <2>2, MaxIntAssumption DEF LoopInv, TypeOK
<1>. QED
  BY <1>1, LoopInvariance, PTL

=============================================================================
