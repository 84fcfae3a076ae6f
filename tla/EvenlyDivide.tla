---------------------------- MODULE EvenlyDivide ----------------------------
(***************************************************************************)
(* What util.EvenlyDivide (controllers/util/common.go) returns: the        *)
(* interval 0 .. upper cut into consecutive chunks, one for each of size   *)
(* workers.  The first  upper % size + 1  chunks hold one element more     *)
(* than the others; workers beyond the (upper + 1)-th get no chunk.  The   *)
(* code computes it with a loop, which is module EvenlyDivideLoop; every   *)
(* controller that partitions work uses the definitions of this module.    *)
(***************************************************************************)
EXTENDS Naturals, Sequences

chunk(size, upper) == upper \div size
mod(size, upper)   == upper % size

Smaller(a, b) == IF a <= b THEN a ELSE b

\* The first element of the chunk that follows the first k chunks.
ChunkStart(size, upper, k) ==
    k * chunk(size, upper) + Smaller(k, mod(size, upper) + 1)

ChunkCount(size, upper) == IF size = 0 THEN 0 ELSE Smaller(size, upper + 1)

EvenlyDivide(size, upper) ==
    [k \in 1..ChunkCount(size, upper) |->
        <<ChunkStart(size, upper, k - 1), ChunkStart(size, upper, k) - 1>>]
=============================================================================
