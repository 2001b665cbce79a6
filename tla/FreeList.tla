------------------------------- MODULE FreeList -------------------------------
(***************************************************************************)
(* The free-list memory manager of Kernel/memory_manager/memoryManager.c:  *)
(* memInit, mallocCust and freeCust, over a heap counted in headers        *)
(* ("units" of 16 bytes).  Every block, free or in use, begins with one.   *)
(* A system call runs with interrupts off, so each of the two operations   *)
(* is one action.                                                          *)
(***************************************************************************)
EXTENDS Integers, FiniteSets, FiniteSetsExt

CONSTANTS MemSize,         \* bytes given to memInit
          Requests,        \* the sizes, in bytes, that programs ask for
          TakesAllOfBase   \* may a request be exactly what is left at base?

HeaderSize == 16           \* sizeof(Header)
Null == -1

ASSUME FreeListAssumption ==
  /\ MemSize \in Nat \ {0}
  /\ Requests \subseteq Nat \ {0}   \* mallocCust(0) returns NULL at once
  /\ TakesAllOfBase \in BOOLEAN

\* Bytes in units, rounded up, and a header.
UnitsFor(nbytes) == (nbytes + HeaderSize - 1) \div HeaderSize + 1

TotalUnits == UnitsFor(MemSize)
base == 0
Unit == 0 .. TotalUnits - 1

VARIABLES
  size, ptr,     \* the headers, by unit; 0 where there is none
  startingNode,  \* where the next search begins
  inUse,         \* the units where the blocks handed out begin
  answer         \* what the last mallocCust returned, less one header

vars == <<size, ptr, startingNode, inUse, answer>>

Init ==
  /\ size = [u \in Unit |-> IF u = base THEN TotalUnits ELSE 0]
  /\ ptr = [u \in Unit |-> 0]
  /\ startingNode = base
  /\ inUse = {}
  /\ answer = Null

\* The node n steps down the list from startingNode.
Nth[n \in 0 .. TotalUnits] == IF n = 0 THEN startingNode ELSE ptr[Nth[n - 1]]

\* One turn of the search loop: after it, back at startingNode, it gives up.
Turn == Min({n \in 1 .. TotalUnits : Nth[n] = startingNode})
FreeNodes == {Nth[n] : n \in 1 .. Turn}

(***************************************************************************)
(* mallocCust                                                              *)
(***************************************************************************)

\* The steps of the search that find a block large enough.
Fits_Larger(nunits) == {n \in 1 .. Turn : size[Nth[n]] > nunits}
Fits(nunits) == {n \in 1 .. Turn : size[Nth[n]] >= nunits}

MallocNone(nunits) ==
  /\ Fits(nunits) = {}
  /\ answer' = Null
  /\ UNCHANGED <<size, ptr, startingNode, inUse>>

\* The first block that fits leaves the list if it has just the size ...
MallocExact(nunits) ==
  /\ Fits(nunits) # {}
  /\ LET n == Min(Fits(nunits))
         currNode == Nth[n]
         prevNode == Nth[n - 1]
     IN  /\ size[currNode] = nunits
         /\ currNode = base => TakesAllOfBase
         /\ ptr' = [ptr EXCEPT ![currNode] = 0, ![prevNode] = ptr[currNode]]
         /\ startingNode' = prevNode
         /\ inUse' = inUse \cup {currNode}
         /\ answer' = currNode
  /\ UNCHANGED size

\* ... and gives its upper end away otherwise.
MallocSplit(nunits) ==
  /\ Fits(nunits) # {}
  /\ LET n == Min(Fits(nunits))
         currNode == Nth[n]
         left == size[currNode] - nunits
     IN  /\ left # 0
         /\ size' = [size EXCEPT ![currNode] = left, ![currNode + left] = nunits]
         /\ startingNode' = Nth[n - 1]
         /\ inUse' = inUse \cup {currNode + left}
         /\ answer' = currNode + left
  /\ UNCHANGED ptr

(***************************************************************************)
(* freeCust, of a block that was handed out.  The walk stops at the free   *)
(* block below it (the list is in address order), at the last one when     *)
(* there is none below or none above, or at the block itself.              *)
(***************************************************************************)
Between(node, b) == node < b /\ b < ptr[node]
External(node, b) == node >= ptr[node] /\ (b > node \/ b < ptr[node])
IsNode(node, b) == b \in {node, ptr[node]}

Stops(b) == {n \in 0 .. Turn : \/ Between(Nth[n], b)
                              \/ External(Nth[n], b)
                              \/ IsNode(Nth[n], b)}

Absurd(node, b) ==
  /\ ~External(node, b)
  /\ node + size[node] > b \/ b + size[b] > ptr[node]

JoinsRight_Never(node, b) == FALSE
JoinsRight_Over(node, b) == b + size[b] >= ptr[node]
JoinsRight(node, b) == b + size[b] = ptr[node]
JoinsLeft(node, b) == node + size[node] = b

\* Into the list after currNode, joined with the free neighbours it touches.
Link(currNode, b) ==
  LET next == ptr[currNode]
      right == JoinsRight(currNode, b)
      into == IF JoinsLeft(currNode, b) THEN currNode ELSE b
      \* the headers that are no longer any
      gone == (IF right THEN {next} \ {currNode} ELSE {}) \cup ({b} \ {into})
  IN  /\ size' = [u \in Unit |->
                    IF u \in gone THEN 0
                    ELSE IF u # into THEN size[u]
                    ELSE size[b] + (IF right THEN size[next] ELSE 0)
                                 + (IF into = b THEN 0 ELSE size[currNode])]
      /\ ptr' = [u \in Unit |->
                   IF u \in gone THEN 0
                   ELSE IF u = into THEN (IF right THEN ptr[next] ELSE next)
                   ELSE IF u = currNode THEN b ELSE ptr[u]]
      /\ startingNode' = currNode

\* A block that is in the list, or on top of one that is, stays as it is.
FreeCust(b) ==
  /\ LET currNode == Nth[Min(Stops(b))]
     IN  IF IsNode(currNode, b) \/ Absurd(currNode, b)
         THEN UNCHANGED <<size, ptr, startingNode>>
         ELSE Link(currNode, b)
  /\ inUse' = inUse \ {b}
  /\ UNCHANGED answer

Next ==
  \/ \E nbytes \in Requests :
       \/ MallocNone(UnitsFor(nbytes))
       \/ MallocExact(UnitsFor(nbytes))
       \/ MallocSplit(UnitsFor(nbytes))
  \/ \E b \in inUse : FreeCust(b)

Spec == Init /\ [][Next]_vars

(***************************************************************************)
(* Properties                                                              *)
(***************************************************************************)

\* The type invariant of the headers.
TypeOK ==
  /\ size \in [Unit -> 0 .. TotalUnits]
  /\ ptr \in [Unit -> Unit]
  /\ startingNode \in Unit
  /\ inUse \subseteq Unit
  /\ answer \in Unit \cup {Null}

Extent(b) == b .. b + size[b] - 1

\* After any sequence of calls every unit of the heap belongs to one block, free or
\* in use: nothing is handed out twice, and nothing is lost.
HeapIsTiled ==
  /\ TypeOK
  /\ FreeNodes \cap inUse = {}
  /\ \A u \in Unit : Cardinality({b \in FreeNodes \cup inUse : u \in Extent(b)}) = 1

\* The free blocks are linked in address order, the last one to the first, and no
\* two of them touch: what freeCust relies on to find the place of a block.
ListIsOrdered ==
  \A a \in FreeNodes :
    /\ \A b \in FreeNodes : a + size[a] # b
    /\ LET above == {b \in FreeNodes : b > a}
       IN ptr[a] = Min(IF above # {} THEN above ELSE FreeNodes)

\* No block in use is on top of another one: the memcheck of testMm.c.
BlocksAreDisjoint ==
  \A a, b \in inUse : a # b => Extent(a) \cap Extent(b) = {}

\* The blocks are those of the abstract heap: a request is refused only when no gap
\* of that size is left, wherever the search starts.
H == INSTANCE Heap WITH Units <- TotalUnits, Sizes <- {UnitsFor(r) : r \in Requests},
                        blocks <- {<<b, size[b]>> : b \in inUse}
ImplementsHeap == H!HeapSpec
==============================================================================
