--------------------------------- MODULE Heap ---------------------------------
(***************************************************************************)
(* What a memory manager promises: blocks of the size that was asked for,  *)
(* none on top of another, and a refusal only when no gap is large enough. *)
(***************************************************************************)
EXTENDS Integers

CONSTANTS Units,     \* the size of the heap
          Sizes,     \* the sizes of the blocks, headers included
          Null       \* the answer of a refused malloc

VARIABLES blocks,    \* the blocks in use: <<first unit, size>>
          answer     \* what the last malloc returned

heapVars == <<blocks, answer>>

Cells(b)  == b[1] .. b[1] + b[2] - 1
Used      == UNION {Cells(b) : b \in blocks}
Gaps(n)   == {a \in 0 .. Units - n : a .. a + n - 1 \cap Used = {}}

HeapInit == blocks = {} /\ answer = Null

Give(n)   == \E a \in Gaps(n) : blocks' = blocks \cup {<<a, n>>} /\ answer' = a
Refuse(n) == Gaps(n) = {} /\ answer' = Null /\ UNCHANGED blocks
Free(b)   == blocks' = blocks \ {b} /\ UNCHANGED answer

HeapNext == (\E n \in Sizes : Give(n) \/ Refuse(n)) \/ (\E b \in blocks : Free(b))

HeapSpec == HeapInit /\ [][HeapNext]_heapVars
==============================================================================
