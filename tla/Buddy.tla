-------------------------------- MODULE Buddy --------------------------------
(***************************************************************************)
(* The buddy memory manager of Kernel/memory_manager/buddy.c: memInit,     *)
(* mallocCust and freeCust, over a heap counted in blocks of the smallest  *)
(* size.  A block of level l is 2^l of these and lies at a multiple of its *)
(* size; flipping bit l of its address gives its buddy.  A system call     *)
(* runs with interrupts off, so each operation is one action.              *)
(***************************************************************************)
EXTENDS Integers, Sequences, FiniteSets, Functions, FiniteSetsExt

CONSTANTS Levels,     \* levels of the heap: log2(memSize) - MIN_ALLOC_LOG_2 + 1
          Requests,   \* the sizes, in bytes, that programs ask for
          Exhausts    \* may a request come when no block is left for it?

MinAlloc   == 16      \* 1 << MIN_ALLOC_LOG_2
HeaderSize == 24      \* sizeof(List)

ASSUME BuddyAssumption ==
  /\ Levels \in Nat \ {0}
  /\ Requests \subseteq Nat \ {0}   \* mallocCust(0) returns NULL at once
  /\ Exhausts \in BOOLEAN

Level == 0 .. Levels - 1
Top   == Levels - 1

\* BIN_POW: the size of a block of level l.
Pow2[l \in 0 .. Levels] == IF l = 0 THEN 1 ELSE 2 * Pow2[l - 1]

Unit  == 0 .. Pow2[Top] - 1

VARIABLES
  level, free,  \* the headers of the blocks, by unit; 0 where there is none
  levelsList,   \* the free blocks of each level, as the pushes left them
  inUse,        \* where the blocks handed out begin
  lost          \* an empty list was popped, and its NULL used as a block

vars == <<level, free, levelsList, inUse, lost>>

Init ==
  /\ level = [u \in Unit |-> IF u = 0 THEN Top ELSE 0]
  /\ free = [u \in Unit |-> IF u = 0 THEN 1 ELSE 0]
  /\ levelsList = [l \in Level |-> IF l = Top THEN <<0>> ELSE <<>>]
  /\ inUse = {}
  /\ lost = FALSE

\* findBuddy: bit l of the address, flipped.
UpperHalf(u, l) == (u \div Pow2[l]) % 2 = 1
BuddyOf_Next(u, l) == (u + Pow2[l]) % Pow2[Top]
BuddyOf(u, l) == IF UpperHalf(u, l) THEN u - Pow2[l] ELSE u + Pow2[l]

\* findIdealLevel: the smallest block that holds the bytes.
IdealLevel(bytes) == Min({l \in 0 .. Levels : MinAlloc * Pow2[l] >= bytes})

(***************************************************************************)
(* mallocCust                                                              *)
(***************************************************************************)
RealBytes(nbytes) == nbytes + HeaderSize
TooLarge(nbytes) == RealBytes(nbytes) > MinAlloc * Pow2[Top] + 1

Available(minLevel) == {l \in Level : l >= minLevel /\ levelsList[l] # <<>>}

\* getFirstAvailableLevel finds no level, and says so with the number of levels,
\* which mallocCust does not take for a failure.
MallocExhausted(nbytes) ==
  /\ Exhausts
  /\ ~TooLarge(nbytes)
  /\ Available(IdealLevel(RealBytes(nbytes))) = {}
  /\ lost' = TRUE
  /\ UNCHANGED <<level, free, levelsList, inUse>>

\* The last block that came to the first level that has one is halved down to the
\* ideal level; the upper halves stay free, one on each level.
Malloc(nbytes) ==
  /\ ~TooLarge(nbytes)
  /\ LET minLevel == IdealLevel(RealBytes(nbytes)) IN
       /\ Available(minLevel) # {}
       /\ LET actualLevel == Min(Available(minLevel))
              from == levelsList[actualLevel]
              retNode == from[Len(from)]
              halved == minLevel .. actualLevel - 1
              UpperAt(u) == {l \in halved : u = BuddyOf(retNode, l)}
          IN  /\ level' = [u \in Unit |-> IF u = retNode THEN minLevel
                                          ELSE IF UpperAt(u) # {} THEN Min(UpperAt(u))
                                          ELSE level[u]]
              /\ free' = [u \in Unit |-> IF u = retNode THEN 0
                                         ELSE IF UpperAt(u) # {} THEN 1 ELSE free[u]]
              /\ levelsList' = [l \in Level |->
                   IF l = actualLevel THEN SubSeq(from, 1, Len(from) - 1)
                   ELSE IF l \in halved THEN Append(levelsList[l], BuddyOf(retNode, l))
                   ELSE levelsList[l]]
              /\ inUse' = inUse \cup {retNode}
  /\ UNCHANGED lost

(***************************************************************************)
(* freeCust                                                                *)
(***************************************************************************)
\* getAddress, level by level: where the block is after it was joined up to level l.
At(b, l) == b - (b % Pow2[l])

\* listRemove: u leaves the list it is in.
Without(list, u) ==
  LET i == CHOOSE i \in DOMAIN list : list[i] = u
  IN  IF u \in Range(list) THEN SubSeq(list, 1, i - 1) \o SubSeq(list, i + 1, Len(list)) ELSE list

\* Its buddy on level l is a free block of that size: they are joined.
Joins_AnyLevel(b, l) == l # Top /\ free[BuddyOf(At(b, l), l)] = 1
Joins(b, l) ==
  /\ l # Top
  /\ level[BuddyOf(At(b, l), l)] = l
  /\ free[BuddyOf(At(b, l), l)] = 1

\* The level the block has when no more buddies can be joined to it.
Reached_Once(b) == IF Joins(b, level[b]) THEN level[b] + 1 ELSE level[b]
Reached(b) ==
  Max({l \in level[b] .. Top : \A k \in level[b] .. l - 1 : Joins(b, k)})

Free(b) ==
  /\ LET top == Reached(b)
         joined == {BuddyOf(At(b, l), l) : l \in level[b] .. top - 1}
         node == At(b, top)
         gone == (joined \cup {b}) \ {node}
     IN  /\ level' = [u \in Unit |-> IF u \in gone THEN 0 ELSE IF u = node THEN top ELSE level[u]]
         /\ free' = [u \in Unit |-> IF u \in gone THEN 0 ELSE IF u = node THEN 1 ELSE free[u]]
         /\ levelsList' = [l \in Level |->
              LET kept == IF l \in level[b] .. top - 1
                          THEN Without(levelsList[l], BuddyOf(At(b, l), l)) ELSE levelsList[l]
              IN  IF l = top THEN Append(kept, node) ELSE kept]
  /\ inUse' = inUse \ {b}
  /\ UNCHANGED lost

Next ==
  /\ ~lost
  /\ \/ \E nbytes \in Requests : Malloc(nbytes) \/ MallocExhausted(nbytes)
     \/ \E b \in inUse : Free(b)

Spec == Init /\ [][Next]_vars

(***************************************************************************)
(* Properties                                                              *)
(***************************************************************************)

\* The type invariant of the headers and the lists.
TypeOK ==
  /\ level \in [Unit -> Level]
  /\ free \in [Unit -> {0, 1}]
  /\ levelsList \in [Level -> Seq(Unit)]
  /\ inUse \subseteq Unit
  /\ lost \in BOOLEAN

FreeBlocks == UNION {Range(levelsList[l]) : l \in Level}
Extent(b) == b .. b + Pow2[level[b]] - 1

\* A free block is in the list of the level its header says, once, and a block in use
\* in none: what freeCust concludes from the header of a buddy is true of the lists.
HeadersMatchLists ==
  /\ TypeOK
  /\ \A l \in Level : \A i \in DOMAIN levelsList[l] :
       LET u == levelsList[l][i] IN
         /\ level[u] = l /\ free[u] = 1 /\ u \notin inUse
         /\ \A j \in DOMAIN levelsList[l] : levelsList[l][j] = u => i = j
  /\ \A u \in Unit : free[u] = 1 => u \in FreeBlocks

\* After any sequence of calls every unit of the heap belongs to one block, free or
\* in use, and every block lies where its buddy can be found.
HeapIsTiled ==
  /\ \A u \in Unit : Cardinality({b \in FreeBlocks \cup inUse : u \in Extent(b)}) = 1
  /\ \A b \in FreeBlocks \cup inUse : b % Pow2[level[b]] = 0

\* A level has no block for a request only if the heap has no such block: whatever
\* the order of the frees, everything that could be joined was.
NoHiddenBlock ==
  \A l \in Level :
    (\E a \in Unit : a % Pow2[l] = 0 /\ \A b \in inUse : Extent(b) \cap (a .. a + Pow2[l] - 1) = {})
      => Available(l) # {}

\* "No memory!", in testMm.c: a request that cannot be served is answered with NULL.
NoMemoryIsAnswered == ~lost
==============================================================================
