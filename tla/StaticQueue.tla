------------------------------ MODULE StaticQueue ------------------------------
(***************************************************************************)
(* The ring of Kernel/libraries/staticQueue.c: an array of dim cells, the  *)
(* index of the first character, the index of the last one, and the size   *)
(* that alone tells a full ring from an empty one.                         *)
(***************************************************************************)
EXTENDS Integers, Sequences

CONSTANTS Char,  \* what a cell holds
          Zero,  \* the character 0
          dim    \* the number of cells

ASSUME StaticQueueAssumption == dim \in Nat \ {0} /\ Zero \in Char

Ring == [queue : [0 .. dim - 1 -> Char],
         front : 0 .. dim - 1, rear : -1 .. dim - 1, size : 0 .. dim]

EmptyRing == [queue |-> [i \in 0 .. dim - 1 |-> Zero], front |-> 0, rear |-> -1, size |-> 0]

queueIsEmpty(q) == q.size = 0
queueIsFull(q) == q.size = dim

\* The rear wraps before it moves, the front after it has moved.
NextRear(i) == IF i = dim - 1 THEN 0 ELSE i + 1
NextFront(i) == IF i + 1 = dim THEN 0 ELSE i + 1

\* A character goes behind the others; a full ring drops it.
Inserted(q, c, rear) == [queue |-> [q.queue EXCEPT ![rear] = c],
                         front |-> q.front, rear |-> rear, size |-> q.size + 1]
queueInsert_NoTest(q, c) == Inserted(q, c, NextRear(q.rear))
queueInsert(q, c) == IF queueIsFull(q) THEN q ELSE Inserted(q, c, NextRear(q.rear))

\* An empty one answers 0.
Removed(q) == IF queueIsEmpty(q) THEN Zero ELSE q.queue[q.front]
queueRemoveData(q) ==
  IF queueIsEmpty(q) THEN q
  ELSE [queue |-> q.queue, front |-> NextFront(q.front), rear |-> q.rear, size |-> q.size - 1]

\* The characters in the ring, in the order in which they came.
Cell(q, i) == IF q.front + i < dim THEN q.front + i ELSE q.front + i - dim
Items(q) == [i \in 1 .. q.size |-> q.queue[Cell(q, i - 1)]]

\* The rear is where the size says.
RingOK(q) == /\ q \in Ring
             /\ q.size > 0 => q.rear = Cell(q, q.size - 1)
             /\ q.size = 0 => NextRear(q.rear) = q.front
==============================================================================
