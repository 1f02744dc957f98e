------------------------------- MODULE InstanceIds -------------------------------
(***************************************************************************)
(* The instance id allocator of MapManager: a vector<bool> indexed by id   *)
(* and the next id to hand out.  Only the world thread uses it for         *)
(* dungeons, so each operation is one step.                                *)
(*                                                                         *)
(* The vector's size matters: an index outside it counts as free, and a    *)
(* write outside it is lost (undefined behaviour in the code; `lost` is    *)
(* the outcome in which the stray bit is not read back).  Capacity follows *)
(* libstdc++: doubled on growth and rounded up to a machine word.          *)
(***************************************************************************)
EXTENDS Integers, FiniteSets

CONSTANTS
    Chunk,      \* the code sizes the vector in multiples of 32
    Word,       \* bits per vector<bool> word: 64
    MaxId       \* bound: ids the model hands out

ASSUME IdsAssumption == Chunk \in Nat \ {0} /\ Word \in Nat \ {0} /\ MaxId \in Nat \ {0}

VARIABLES
    bits,       \* _instanceIds: the indices below size that are true
    size,       \* _instanceIds.size()
    capacity,   \* _instanceIds.capacity()
    next        \* _nextInstanceId

idVars == <<bits, size, capacity, next>>

Ids == 1..MaxId

RoundUp(n, unit) == ((n + unit - 1) \div unit) * unit

Larger(a, b) == IF a > b THEN a ELSE b

\* The capacity of a vector<bool> of size s and capacity c resized to n > s.
GrownCapacity(s, c, n) == IF n <= c THEN c ELSE RoundUp(s + Larger(s, n - s), Word)

\* Mutant of SizeFor: the remainder is forgotten.
SizeWithoutRest(id) == (id \div Chunk) * Chunk

\* (id / 32) * 32 + (id % 32 > 0 ? 32 : 0)
SizeFor(id) == (id \div Chunk) * Chunk + (IF id % Chunk > 0 THEN Chunk ELSE 0)

Largest(S) == IF S = {} THEN 0 ELSE CHOOSE n \in S : \A k \in S : k <= n

\* The first id from `from` on whose bit is not set.
FirstFree(from, B) ==
    CHOOSE i \in from..(from + Cardinality(B)) :
        i \notin B /\ \A j \in from..(i - 1) : j \in B

\* InitInstanceIds, then LoadResetTimes, which registers the stored ids in
\* ascending order and steps _nextInstanceId over those it meets.
LoadInstanceIds(stored) ==
    /\ size' = SizeFor(Largest(stored))
    /\ capacity' = GrownCapacity(0, 0, size')
    /\ bits' = {id \in stored : id < size'}
    /\ next' = FirstFree(1, stored)

\* Hands out _nextInstanceId and looks for the id to hand out after it.
GenerateInstanceId ==
    /\ next' = FirstFree(next + 1, bits)
    /\ size' = IF next < size THEN size
               ELSE IF size < capacity THEN capacity
               ELSE SizeFor(next)
    /\ capacity' = GrownCapacity(size, capacity, size')
    /\ bits' = IF next < size' THEN bits \cup {next} ELSE bits

\* FreeInstanceId, of every id of a set.
FreeInstanceIds(freed) ==
    /\ next' = CHOOSE n \in freed \cup {next} : \A k \in freed \cup {next} : n <= k
    /\ bits' = bits \ freed
    /\ UNCHANGED <<size, capacity>>
=============================================================================
