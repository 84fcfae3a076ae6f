-------------------------- MODULE EvenlyDivideLoop --------------------------
(***************************************************************************)
(* The loop of util.EvenlyDivide, one step per iteration, on machine       *)
(* integers: int64 addition wraps around above MaxInt.  The distributor    *)
(* controller calls it with upper = math.MaxInt64, where the last          *)
(* iteration computes start = MaxInt64 + 1.                                *)
(***************************************************************************)
EXTENDS EvenlyDivide, Integers

CONSTANT MaxInt     \* math.MaxInt64

ASSUME MaxIntAssumption == MaxInt \in Nat

VARIABLES size, upper,      \* the parameters
          i, start, res,    \* the locals of the loop
          pc                \* "loop" until the function returns

vars == <<size, upper, i, start, res, pc>>

\* int64 addition: a value above MaxInt wraps to the negative end.
Int64(x) == IF x > MaxInt THEN x - 2 * (MaxInt + 1) ELSE x

TypeOK ==
    /\ size \in 0..MaxInt /\ upper \in 0..MaxInt
    /\ i \in 0..size
    /\ start \in (-MaxInt - 1)..MaxInt
    /\ res \in Seq((0..MaxInt) \X (0..MaxInt))
    /\ pc \in {"loop", "done"}

Init ==
    /\ size \in 0..MaxInt /\ upper \in 0..MaxInt
    /\ i = 0 /\ start = 0 /\ res = <<>>
    /\ pc = IF size = 0 THEN "done" ELSE "loop"

\* Mutants of End: one chunk too few gets a larger share; the whole remainder
\* goes to the first chunk.
EndOffByOne == Int64(start + chunk(size, upper) - 1
                           + IF i < mod(size, upper) THEN 1 ELSE 0)
EndUneven == Int64(start + chunk(size, upper) - 1
                         + IF i = 0 THEN mod(size, upper) + 1 ELSE 0)

\* The end of the chunk of iteration i.
End == Int64(start + chunk(size, upper) - 1
                   + IF i <= mod(size, upper) THEN 1 ELSE 0)

\* One iteration that appends a chunk; the loop condition is tested again
\* before the next one.
Iterate ==
    /\ pc = "loop"
    /\ start <= upper /\ End <= upper
    /\ res' = Append(res, <<start, End>>)
    /\ i' = i + 1
    /\ start' = Int64(End + 1)
    /\ pc' = IF i + 1 < size THEN "loop" ELSE "done"
    /\ UNCHANGED <<size, upper>>

\* Mutant of ReturnEarly: continue instead of return, and i is not advanced.
ReturnEarlyContinues ==
    /\ pc = "loop"
    /\ start > upper \/ End > upper
    /\ UNCHANGED vars

\* The early return: everything is handed out before the last worker.
ReturnEarly ==
    /\ pc = "loop"
    /\ start > upper \/ End > upper
    /\ pc' = "done"
    /\ UNCHANGED <<size, upper, i, start, res>>

Next == Iterate \/ ReturnEarly

Spec == Init /\ [][Next]_vars /\ WF_vars(Next)
-----------------------------------------------------------------------------
\* k belongs to the j-th chunk of the result.
InChunk(k, j) == res[j][1] <= k /\ k <= res[j][2]

\* What the callers rely on: when the function returns for at least one
\* worker, every element of 0 .. upper (a hash key, the index of a cluster)
\* lies in exactly one chunk, although start may have wrapped around.
Partition ==
    pc = "done" /\ size > 0 =>
        \A k \in 0..upper :
            /\ \E j \in 1..Len(res) : InChunk(k, j)
            /\ \A j1, j2 \in 1..Len(res) :
                    InChunk(k, j1) /\ InChunk(k, j2) => j1 = j2

\* The loop returns the chunks that the controllers' modules use.
ReturnsClosedForm == pc = "done" => res = EvenlyDivide(size, upper)

\* The function returns.
Terminates == <>(pc = "done")
-----------------------------------------------------------------------------
(* The inductive strengthening of Partition.                               *)

\* The first element that is not handed out yet.
NextFree == ChunkStart(size, upper, i)

ChunksSoFar ==
    res = [k \in 1..i |->
              <<ChunkStart(size, upper, k - 1), ChunkStart(size, upper, k) - 1>>]

\* Everything below NextFree lies in a chunk.
CoveredSoFar ==
    \A k \in 0..upper : k < NextFree => \E j \in 1..Len(res) : InChunk(k, j)

LoopInv ==
    /\ TypeOK
    /\ size = 0 => pc = "done" /\ res = <<>>
    /\ size > 0 =>
        /\ start = Int64(NextFree)
        /\ NextFree <= upper + 1 /\ i <= ChunkCount(size, upper)
        /\ ChunksSoFar /\ CoveredSoFar
        /\ i < size \/ pc = "done"
        /\ pc = "done" => i = ChunkCount(size, upper)
=============================================================================
