---------------------------- MODULE FreeListProofs ----------------------------
(***************************************************************************)
(* The free list holds every free block, in address order, and the blocks  *)
(* tile the heap.  The invariant speaks of the headers and of the blocks   *)
(* that are not in use, not of the walk along the list: that the walk from *)
(* any of them meets them all is a consequence, which the proof that       *)
(* freeCust finds the place of a block needs.                              *)
(***************************************************************************)
EXTENDS FreeList, DataLemmas

Blocks == {u \in Unit : size[u] > 0}
FreeBlocks == Blocks \ inUse

\* A block ends where the heap does or where another one begins, and no sooner.
Tiles ==
  \A u \in Blocks :
    /\ u + size[u] = TotalUnits \/ u + size[u] \in Blocks
    /\ \A v \in Blocks : u < v => u + size[u] <= v

\* Each free block points at the next one, the last one at base.
Chain ==
  \A a \in FreeBlocks :
    /\ ptr[a] \in FreeBlocks
    /\ \/ a < ptr[a] /\ \A c \in FreeBlocks : c <= a \/ ptr[a] <= c
       \/ ptr[a] = base /\ \A c \in FreeBlocks : c <= a

Apart == \A a \in FreeBlocks : a + size[a] \notin FreeBlocks

IInv ==
  /\ TypeOK
  /\ inUse \subseteq Blocks
  /\ base \in FreeBlocks
  /\ startingNode \in FreeBlocks
  /\ Tiles
  /\ Chain
  /\ Apart

(***************************************************************************)
(* The walk along the list                                                 *)
(***************************************************************************)

\* The heap is a positive number of units, and every request is for at least two.
LEMMA UnitsAreNaturals ==
  /\ TotalUnits \in Nat /\ TotalUnits >= 2 /\ base \in Unit
  /\ \A r \in Requests : UnitsFor(r) \in Nat /\ UnitsFor(r) >= 2
BY FreeListAssumption DEF TotalUnits, UnitsFor, HeaderSize, Unit, base

\* The node n steps from startingNode: Nth is a recursive function, and exists.
LEMMA NthIs ==
  \A n \in 0 .. TotalUnits : Nth[n] = IF n = 0 THEN startingNode ELSE ptr[Nth[n - 1]]
<1>. DEFINE f == [n \in 1 .. TotalUnits |-> ptr]
<1>1. PICK g : Iterates(g, f, startingNode, TotalUnits)
  BY UnitsAreNaturals, IterationExists
<1>2. Nth = [n \in 0 .. TotalUnits |-> IF n = 0 THEN startingNode ELSE ptr[Nth[n - 1]]]
  <2>1. g = [n \in 0 .. TotalUnits |-> IF n = 0 THEN startingNode ELSE ptr[g[n - 1]]]
    <3>1. \A n \in 0 .. TotalUnits : n # 0 => f[n] = ptr
      BY UnitsAreNaturals
    <3>. HIDE DEF f
    <3>. QED  BY <1>1, <3>1 DEF Iterates
  <2>. QED  BY <2>1 DEF Nth
<1>. QED  BY <1>2

\* No two free blocks point at the same one.
LEMMA ChainIsInjective ==
  ASSUME IInv, NEW a \in FreeBlocks, NEW c \in FreeBlocks, ptr[a] = ptr[c]
  PROVE  a = c
<1>1. a \in Nat /\ c \in Nat /\ ptr[a] \in Nat
  BY UnitsAreNaturals DEF IInv, TypeOK, FreeBlocks, Blocks, Unit
<1>2. \A b \in FreeBlocks : b \in Nat
  BY UnitsAreNaturals DEF FreeBlocks, Blocks, Unit
<1>. QED  BY <1>1, <1>2 DEF IInv, Chain, base

\* A walk along the list stays in the free blocks.
LEMMA WalkIsFree ==
  ASSUME IInv
  PROVE  \A n \in 0 .. TotalUnits : Nth[n] \in FreeBlocks
<1>. DEFINE T == {n \in Nat : n \in 0 .. TotalUnits => Nth[n] \in FreeBlocks}
<1>1. 0 \in T
  BY NthIs, UnitsAreNaturals DEF IInv
<1>2. ASSUME NEW n \in Nat, n \in T PROVE n + 1 \in T
  <2>. SUFFICES ASSUME n + 1 \in 0 .. TotalUnits PROVE Nth[n + 1] \in FreeBlocks
    OBVIOUS
  <2>1. n \in 0 .. TotalUnits /\ n + 1 # 0 /\ n + 1 - 1 = n
    BY UnitsAreNaturals
  <2>2. Nth[n] \in FreeBlocks /\ Nth[n + 1] = ptr[Nth[n]]
    BY <1>2, <2>1, NthIs
  <2>. QED  BY <2>2 DEF IInv, Chain
<1>3. Nat \subseteq T
  <2>. HIDE DEF T
  <2>. QED  BY <1>1, <1>2, NatSetInduction
<1>. QED  BY <1>3, UnitsAreNaturals

\* It comes back to where it started: some node is met twice, and the first that is,
\* is the first of the walk, since the one before it would be met twice as well.
LEMMA WalkReturns ==
  ASSUME IInv
  PROVE  \E n \in 1 .. TotalUnits : Nth[n] = startingNode
<1>. DEFINE T == {i \in 0 .. TotalUnits : \E j \in 0 .. TotalUnits : i < j /\ Nth[i] = Nth[j]}
<1>1. \E i, j \in 0 .. TotalUnits : i # j /\ Nth[i] = Nth[j]
  <2>. DEFINE f == [n \in 0 .. TotalUnits |-> Nth[n]]
  <2>1. IsFiniteSet(0 .. TotalUnits) /\ Cardinality(0 .. TotalUnits) = TotalUnits + 1
    BY UnitsAreNaturals, FS_Interval
  <2>2. IsFiniteSet(Unit) /\ Cardinality(Unit) = TotalUnits
    BY UnitsAreNaturals, FS_Interval DEF Unit
  <2>3. f \in [0 .. TotalUnits -> Unit]
    BY WalkIsFree DEF FreeBlocks, Blocks
  <2>4. PICK i, j \in 0 .. TotalUnits : i # j /\ f[i] = f[j]
    <3>. HIDE DEF f
    <3>. QED  BY <2>1, <2>2, <2>3, UnitsAreNaturals, FS_PigeonHole
  <2>. QED  BY <2>4
<1>2. T \in SUBSET Nat /\ T # {}
  BY <1>1, UnitsAreNaturals
<1>3. PICK i \in T : \A k \in T : i <= k
  BY <1>2, LeastNatural
<1>4. PICK j \in 0 .. TotalUnits : i < j /\ Nth[i] = Nth[j]
  BY <1>3
<1>5. i \in 0 .. TotalUnits /\ j \in 1 .. TotalUnits /\ j # 0
  BY <1>4, UnitsAreNaturals
<1>6. CASE i = 0
  BY <1>4, <1>5, <1>6, NthIs
<1>7. CASE i # 0
  <2>1. i - 1 \in 0 .. TotalUnits /\ j - 1 \in 0 .. TotalUnits /\ i - 1 < j - 1
    BY <1>4, <1>5, <1>7, UnitsAreNaturals
  <2>2. ptr[Nth[i - 1]] = ptr[Nth[j - 1]]
    BY <1>4, <1>5, <1>7, NthIs
  <2>3. Nth[i - 1] = Nth[j - 1]
    BY <2>1, <2>2, WalkIsFree, ChainIsInjective
  <2>4. i - 1 \in T
    BY <2>1, <2>3
  <2>. QED  BY <2>4, <1>3, <1>5
<1>. QED  BY <1>6, <1>7

\* Some free blocks that lead to none but themselves are all of them: base, which the
\* last leads to, is one, and the greatest below a missing one would lead to that.
LEMMA ClosedIsAll ==
  ASSUME IInv, NEW S \in SUBSET FreeBlocks, S # {}, \A a \in S : ptr[a] \in S
  PROVE  S = FreeBlocks
<1>0. \A a \in FreeBlocks : a \in 0 .. TotalUnits /\ a \in Nat
  BY UnitsAreNaturals DEF FreeBlocks, Blocks, Unit
<1>1. S \in SUBSET (0 .. TotalUnits)
  BY <1>0
<1>2. base \in S
  <2>1. PICK m \in S : \A a \in S : a <= m
    BY <1>1, UnitsAreNaturals, GreatestNatural
  <2>2. ptr[m] \in S /\ ptr[m] <= m /\ m \in FreeBlocks
    BY <2>1
  <2>3. ~ (m < ptr[m])
    BY <2>2, <1>0
  <2>. QED  BY <2>2, <2>3 DEF IInv, Chain
<1>3. ASSUME NEW c \in FreeBlocks, c \notin S PROVE FALSE
  <2>. DEFINE Below == {a \in S : a < c}
  <2>1. Below \in SUBSET (0 .. TotalUnits) /\ base \in Below
    <3>1. c # base /\ c \in Nat
      BY <1>0, <1>2, <1>3
    <3>2. base < c
      BY <3>1 DEF base
    <3>. QED  BY <1>1, <1>2, <3>2
  <2>2. PICK a \in Below : \A d \in Below : d <= a
    BY <2>1, UnitsAreNaturals, GreatestNatural
  <2>3. a \in FreeBlocks /\ ptr[a] \in S /\ ptr[a] # c /\ a < c
    BY <2>2, <1>3
  <2>4. a \in Nat /\ c \in Nat /\ ptr[a] \in Nat
    BY <2>3, <1>0, <1>3
  <2>5. ptr[a] < c => ptr[a] <= a
    BY <2>2, <2>3
  <2>. QED  BY <2>3, <2>4, <2>5, <1>3 DEF IInv, Chain
<1>. QED  BY <1>3

\* The turn of the search loop.
LEMMA TurnIs ==
  ASSUME IInv
  PROVE  Turn \in 1 .. TotalUnits /\ Nth[Turn] = startingNode
<1>. DEFINE T == {n \in 1 .. TotalUnits : Nth[n] = startingNode}
<1>1. T \in SUBSET Nat /\ T # {}
  BY WalkReturns, UnitsAreNaturals
<1>2. \E m \in T : \A n \in T : m <= n
  BY <1>1, LeastNatural
<1>3. Turn \in T
  BY <1>2 DEF Turn, Min
<1>. QED  BY <1>3

\* One turn of the search loop meets every free block.
LEMMA FreeNodesAreFree ==
  ASSUME IInv
  PROVE  FreeNodes = FreeBlocks
<1>1. Turn \in 1 .. TotalUnits /\ Turn \in Nat /\ 1 .. Turn \subseteq 0 .. TotalUnits
  BY TurnIs, UnitsAreNaturals
<1>2. FreeNodes \in SUBSET FreeBlocks
  BY <1>1, WalkIsFree DEF FreeNodes
<1>3. FreeNodes # {}
  BY <1>1 DEF FreeNodes
<1>4. ASSUME NEW a \in FreeNodes PROVE ptr[a] \in FreeNodes
  <2>1. PICK n \in 1 .. Turn : a = Nth[n]
    BY DEF FreeNodes
  <2>2. CASE n = Turn
    <3>1. Nth[1] = ptr[Nth[0]] /\ Nth[0] = startingNode
      BY <1>1, NthIs, UnitsAreNaturals
    <3>2. Nth[1] = ptr[a] /\ 1 \in 1 .. Turn
      BY <2>1, <2>2, <3>1, <1>1, TurnIs
    <3>. QED  BY <3>2 DEF FreeNodes
  <2>3. CASE n # Turn
    <3>1. n + 1 \in 1 .. Turn /\ n + 1 \in 0 .. TotalUnits /\ n + 1 # 0 /\ n + 1 - 1 = n
      BY <2>1, <2>3, <1>1
    <3>2. Nth[n + 1] = ptr[a]
      BY <3>1, <2>1, NthIs
    <3>. QED  BY <3>1, <3>2 DEF FreeNodes
  <2>. QED  BY <2>2, <2>3
<1>. QED  BY <1>2, <1>3, <1>4, ClosedIsAll

(***************************************************************************)
(* mallocCust                                                              *)
(***************************************************************************)

\* Where the search stops: at the first node that fits, with the one before it.
LEMMA SearchFinds ==
  ASSUME IInv, NEW nunits \in Nat, Fits(nunits) # {}
  PROVE  LET n == Min(Fits(nunits)) IN
         /\ n \in 1 .. Turn
         /\ Nth[n] \in FreeBlocks /\ Nth[n - 1] \in FreeBlocks
         /\ Nth[n] = ptr[Nth[n - 1]]
         /\ size[Nth[n]] >= nunits
<1>1. Turn \in 1 .. TotalUnits /\ Turn \in Nat
  BY TurnIs, UnitsAreNaturals
<1>2. Fits(nunits) \in SUBSET Nat
  BY <1>1 DEF Fits
<1>3. \E m \in Fits(nunits) : \A n \in Fits(nunits) : m <= n
  BY <1>2, LeastNatural
<1>4. Min(Fits(nunits)) \in Fits(nunits)
  BY <1>3 DEF Min
<1>. DEFINE n == Min(Fits(nunits))
<1>5. n \in 1 .. Turn /\ size[Nth[n]] >= nunits
  BY <1>4 DEF Fits
<1>. HIDE DEF n
<1>6. n \in 0 .. TotalUnits /\ n - 1 \in 0 .. TotalUnits /\ n # 0
  BY <1>1, <1>5, UnitsAreNaturals
<1>7. Nth[n] = ptr[Nth[n - 1]]
  BY <1>6, NthIs
<1>. QED  BY <1>5, <1>6, <1>7, WalkIsFree DEF n

\* Blocks do not overlap, and end within the heap.
LEMMA BlockEnds ==
  ASSUME IInv, NEW u \in Blocks
  PROVE  /\ u \in Nat /\ u < TotalUnits /\ size[u] \in Nat /\ size[u] > 0
         /\ u + size[u] <= TotalUnits
<1>1. u \in Unit /\ u \in Nat /\ u < TotalUnits /\ size[u] \in Nat /\ size[u] > 0
  BY UnitsAreNaturals DEF Blocks, Unit, IInv, TypeOK
<1>2. \A v \in Blocks : v < TotalUnits
  BY UnitsAreNaturals DEF Blocks, Unit
<1>. QED  BY <1>1, <1>2, UnitsAreNaturals DEF IInv, Tiles

\* A block that leaves the list: the one before it points past it.
LEMMA ExactKeeps ==
  ASSUME IInv, NEW n \in Nat, Fits(n) # {}, MallocExact(n), ~ TakesAllOfBase
  PROVE  IInv'
<1>. DEFINE curr == Nth[Min(Fits(n))]
            prev == Nth[Min(Fits(n)) - 1]
<1>1. /\ curr # base /\ inUse' = inUse \cup {curr} /\ startingNode' = prev /\ size' = size
      /\ ptr' = [ptr EXCEPT ![curr] = 0, ![prev] = ptr[curr]] /\ answer' = curr
  BY DEF MallocExact
<1>2. curr \in FreeBlocks /\ prev \in FreeBlocks /\ curr = ptr[prev]
  BY SearchFinds
<1>. HIDE DEF curr, prev
<1>3. /\ \A a \in FreeBlocks : a \in Nat /\ a \in Unit /\ a \in Blocks
      /\ \A a \in FreeBlocks : ptr[a] \in FreeBlocks /\ ptr[a] \in Unit
      /\ base \in Unit
  BY UnitsAreNaturals DEF FreeBlocks, Blocks, Unit, IInv, Chain
<1>4. prev # curr
  BY <1>1, <1>2, <1>3 DEF IInv, Chain, base
<1>5. Blocks' = Blocks /\ FreeBlocks' = FreeBlocks \ {curr}
  BY <1>1 DEF FreeBlocks, Blocks
<1>6. TypeOK'
  BY <1>1, <1>2, <1>3 DEF IInv, TypeOK, base
<1>7. inUse' \subseteq Blocks' /\ base \in FreeBlocks' /\ startingNode' \in FreeBlocks'
  BY <1>1, <1>2, <1>3, <1>4, <1>5 DEF IInv
<1>8. Tiles' /\ Apart'
  BY <1>1, <1>5 DEF IInv, Tiles, Apart
<1>9. Chain'
  <2>1. ptr'[prev] = ptr[curr] /\ \A a \in FreeBlocks : a # curr /\ a # prev => ptr'[a] = ptr[a]
    BY <1>1, <1>2, <1>3, <1>4 DEF IInv, TypeOK
  <2>2. \A a \in FreeBlocks : ptr[a] = curr => a = prev
    BY <1>2, ChainIsInjective
  <2>3. ASSUME NEW a \in FreeBlocks', a # prev
        PROVE  /\ ptr'[a] \in FreeBlocks'
               /\ \/ a < ptr'[a] /\ \A c \in FreeBlocks' : c <= a \/ ptr'[a] <= c
                  \/ ptr'[a] = base /\ \A c \in FreeBlocks' : c <= a
    BY <2>1, <2>2, <2>3, <1>5 DEF IInv, Chain
  <2>4. /\ ptr'[prev] \in FreeBlocks'
        /\ \/ prev < ptr'[prev] /\ \A c \in FreeBlocks' : c <= prev \/ ptr'[prev] <= c
           \/ ptr'[prev] = base /\ \A c \in FreeBlocks' : c <= prev
    <3>1. prev < curr /\ \A c \in FreeBlocks : c <= prev \/ curr <= c
      BY <1>1, <1>2 DEF IInv, Chain
    <3>2. ptr[curr] \in FreeBlocks /\ ptr[curr] # curr
      BY <1>1, <1>2, <1>3 DEF IInv, Chain
    <3>3. CASE curr < ptr[curr] /\ \A c \in FreeBlocks : c <= curr \/ ptr[curr] <= c
      BY <3>1, <3>2, <3>3, <2>1, <1>2, <1>3, <1>5
    <3>4. CASE ptr[curr] = base /\ \A c \in FreeBlocks : c <= curr
      BY <3>1, <3>2, <3>4, <2>1, <1>2, <1>3, <1>5
    <3>. QED  BY <3>3, <3>4, <1>2 DEF IInv, Chain
  <2>. QED  BY <2>3, <2>4 DEF Chain
<1>. QED  BY <1>6, <1>7, <1>8, <1>9 DEF IInv

\* A block that gives its upper end away stays in the list.
LEMMA SplitKeeps ==
  ASSUME IInv, NEW n \in Nat, n > 0, MallocSplit(n)
  PROVE  IInv'
<1>. DEFINE curr == Nth[Min(Fits(n))]
            left == size[curr] - n
            new == curr + left
<1>1. /\ left # 0 /\ inUse' = inUse \cup {new} /\ startingNode' = Nth[Min(Fits(n)) - 1]
      /\ size' = [size EXCEPT ![curr] = left, ![new] = n] /\ ptr' = ptr /\ answer' = new
  BY DEF MallocSplit
<1>2. curr \in FreeBlocks /\ startingNode' \in FreeBlocks /\ size[curr] >= n
  BY <1>1, SearchFinds DEF MallocSplit
<1>. HIDE DEF curr
<1>3. /\ curr \in Nat /\ size[curr] \in Nat /\ curr + size[curr] <= TotalUnits
      /\ curr \in Blocks /\ curr \in Unit
  BY <1>2, BlockEnds DEF FreeBlocks, Blocks
<1>4. left \in Nat /\ left > 0 /\ new \in Nat /\ curr < new /\ new + n = curr + size[curr]
  BY <1>1, <1>2, <1>3
<1>5. new \in Unit /\ left \in 0 .. TotalUnits /\ n \in 0 .. TotalUnits /\ new # curr
  BY <1>3, <1>4, UnitsAreNaturals DEF Unit
<1>6. new \notin Blocks
  BY <1>3, <1>4 DEF IInv, Tiles
<1>. HIDE DEF left, new
<1>7. /\ size'[curr] = left /\ size'[new] = n
      /\ \A u \in Unit : u # curr /\ u # new => size'[u] = size[u]
  BY <1>1, <1>3, <1>5 DEF IInv, TypeOK
<1>8. Blocks' = Blocks \cup {new} /\ FreeBlocks' = FreeBlocks
  <2>1. Blocks' = Blocks \cup {new}
    BY <1>3, <1>4, <1>5, <1>7 DEF Blocks
  <2>. QED  BY <2>1, <1>1, <1>6 DEF FreeBlocks, IInv
<1>9. TypeOK'
  BY <1>1, <1>2, <1>5 DEF IInv, TypeOK, FreeBlocks, Blocks
<1>10. inUse' \subseteq Blocks' /\ base \in FreeBlocks' /\ startingNode' \in FreeBlocks' /\ Chain'
  BY <1>1, <1>2, <1>8 DEF IInv, Chain
<1>11. Tiles'
  <2>1. \A v \in Blocks : v \in Nat /\ size[v] \in Nat /\ v \in Unit
    BY BlockEnds DEF Blocks
  <2>2. \A v \in Blocks : v # curr => size'[v] = size[v]
    BY <1>6, <1>7, <2>1
  <2>3. ASSUME NEW v \in Blocks, v # curr
        PROVE  /\ v + size'[v] = TotalUnits \/ v + size'[v] \in Blocks'
               /\ \A w \in Blocks' : v < w => v + size'[v] <= w
    <3>1. v < new => v + size[v] <= new
      BY <2>1, <2>3, <1>3, <1>4 DEF IInv, Tiles
    <3>. QED  BY <3>1, <2>2, <2>3, <1>8 DEF IInv, Tiles
  <2>4. /\ curr + size'[curr] \in Blocks'
        /\ \A w \in Blocks' : curr < w => curr + size'[curr] <= w
    BY <1>3, <1>4, <1>7, <1>8, <2>1 DEF IInv, Tiles, new
  <2>5. /\ new + size'[new] = TotalUnits \/ new + size'[new] \in Blocks'
        /\ \A w \in Blocks' : new < w => new + size'[new] <= w
    BY <1>3, <1>4, <1>7, <1>8, <2>1 DEF IInv, Tiles
  <2>. QED  BY <2>3, <2>4, <2>5, <1>8 DEF Tiles
<1>12. Apart'
  <2>1. \A a \in FreeBlocks : a \in Unit /\ (a # curr => size'[a] = size[a])
    BY <1>6, <1>7 DEF FreeBlocks, Blocks
  <2>2. curr + size'[curr] \notin FreeBlocks
    BY <1>6, <1>7 DEF new, FreeBlocks
  <2>. QED  BY <2>1, <2>2, <1>8 DEF IInv, Apart
<1>. QED  BY <1>9, <1>10, <1>11, <1>12 DEF IInv

(***************************************************************************)
(* freeCust                                                                *)
(***************************************************************************)

\* The walk stops at the greatest free block below b: base, at least, is one.
LEMMA WalkStops ==
  ASSUME IInv, NEW b \in inUse
  PROVE  LET curr == Nth[Min(Stops(b))] IN
         /\ curr \in FreeBlocks /\ curr < b
         /\ \A c \in FreeBlocks : c <= curr \/ b < c
<1>1. /\ \A a \in FreeBlocks : a \in Nat /\ a \in 0 .. TotalUnits /\ ptr[a] \in FreeBlocks
      /\ b \in Nat /\ b \notin FreeBlocks
  BY BlockEnds, UnitsAreNaturals DEF FreeBlocks, Blocks, Unit, IInv, Chain
<1>2. Turn \in 1 .. TotalUnits /\ Turn \in Nat /\ 0 .. Turn \subseteq 0 .. TotalUnits
  BY TurnIs, UnitsAreNaturals
<1>3. Stops(b) # {}
  <2>. DEFINE Below == {a \in FreeBlocks : a < b}
  <2>1. Below \in SUBSET (0 .. TotalUnits) /\ base \in Below
    <3>1. base \in FreeBlocks /\ base < b
      BY <1>1 DEF IInv, base
    <3>. QED  BY <3>1, <1>1
  <2>2. PICK a \in Below : \A c \in Below : c <= a
    BY <2>1, UnitsAreNaturals, GreatestNatural
  <2>3. a \in FreeBlocks /\ a < b /\ ptr[a] \in FreeBlocks /\ a \in Nat /\ ptr[a] \in Nat
    BY <2>2, <1>1
  <2>4. Between(a, b) \/ External(a, b)
    <3>1. CASE a < ptr[a]
      <4>1. ~ (ptr[a] < b)
        BY <2>2, <2>3, <3>1
      <4>. QED  BY <4>1, <2>3, <1>1 DEF Between
    <3>2. CASE ~ (a < ptr[a])
      BY <2>3, <3>2 DEF External
    <3>. QED  BY <3>1, <3>2
  <2>5. PICK n \in 1 .. Turn : a = Nth[n]
    BY <2>3, FreeNodesAreFree DEF FreeNodes
  <2>6. n \in 0 .. Turn
    BY <1>2
  <2>. QED  BY <2>4, <2>5, <2>6 DEF Stops
<1>4. Stops(b) \in SUBSET Nat
  BY <1>2 DEF Stops
<1>5. \E m \in Stops(b) : \A n \in Stops(b) : m <= n
  BY <1>3, <1>4, LeastNatural
<1>6. Min(Stops(b)) \in Stops(b)
  BY <1>5 DEF Min
<1>. DEFINE curr == Nth[Min(Stops(b))]
<1>7. Between(curr, b) \/ External(curr, b) \/ IsNode(curr, b)
  BY <1>6 DEF Stops
<1>8. curr \in FreeBlocks
  BY <1>2, <1>6, WalkIsFree DEF Stops
<1>. HIDE DEF curr
<1>9. ptr[curr] \in FreeBlocks /\ curr \in Nat /\ ptr[curr] \in Nat /\ b # curr /\ b # ptr[curr]
  BY <1>1, <1>8
<1>10. curr < b /\ \A c \in FreeBlocks : c <= curr \/ b < c
  <2>1. CASE Between(curr, b)
    BY <2>1, <1>1, <1>8, <1>9 DEF Between, IInv, Chain
  <2>2. CASE External(curr, b)
    BY <2>2, <1>1, <1>8, <1>9 DEF External, IInv, Chain, base
  <2>. QED  BY <2>1, <2>2, <1>7, <1>9 DEF IsNode
<1>. QED  BY <1>8, <1>10 DEF curr

\* Where b goes in the list, and how far it reaches: up to the next free block if
\* there is one above it.  The two tests that leave the heap as it is do not apply.
LEMMA PlaceOf ==
  ASSUME IInv, NEW b \in inUse, FreeCust(b)
  PROVE  \E curr \in FreeBlocks :
           /\ curr < b /\ curr + size[curr] <= b
           /\ \A c \in FreeBlocks : c <= curr \/ b < c
           /\ \/ ptr[curr] = base /\ \A c \in FreeBlocks : c <= curr
              \/ b < ptr[curr] /\ b + size[b] <= ptr[curr]
           /\ Link(curr, b)
<1>. DEFINE curr == Nth[Min(Stops(b))]
<1>1. /\ curr \in FreeBlocks /\ curr < b /\ \A c \in FreeBlocks : c <= curr \/ b < c
      /\ ~ IsNode(curr, b) /\ ~ Absurd(curr, b) => Link(curr, b)
  BY WalkStops DEF FreeCust
<1>. HIDE DEF curr
<1>2. /\ b \in Blocks /\ curr \in Blocks /\ ptr[curr] \in FreeBlocks /\ ptr[curr] \in Blocks
      /\ b \notin FreeBlocks
  BY <1>1 DEF IInv, Chain, FreeBlocks
<1>3. /\ b \in Nat /\ curr \in Nat /\ ptr[curr] \in Nat /\ size[b] \in Nat /\ size[curr] \in Nat
      /\ size[b] > 0
  BY <1>2, BlockEnds
<1>4. curr + size[curr] <= b
  BY <1>1, <1>2 DEF IInv, Tiles
<1>5. \/ ptr[curr] = base /\ \A c \in FreeBlocks : c <= curr
      \/ b < ptr[curr] /\ b + size[b] <= ptr[curr]
  BY <1>1, <1>2, <1>3 DEF IInv, Chain, Tiles
<1>6. ~ IsNode(curr, b)
  BY <1>1, <1>2, <1>3 DEF IsNode
<1>7. ~ Absurd(curr, b)
  BY <1>1, <1>2, <1>3, <1>4, <1>5 DEF Absurd, External, base
<1>. QED  BY <1>1, <1>4, <1>5, <1>6, <1>7

\* A block joins the list after the greatest free block below it, and grows over the
\* free neighbours it touches; "into" is where the block it becomes part of begins.
LEMMA LinkKeeps ==
  ASSUME IInv, NEW b \in inUse, FreeCust(b)
  PROVE  IInv' /\ \A c \in inUse' : size'[c] = size[c]
<1>1. PICK curr \in FreeBlocks :
        /\ curr < b /\ curr + size[curr] <= b
        /\ \A c \in FreeBlocks : c <= curr \/ b < c
        /\ \/ ptr[curr] = base /\ \A c \in FreeBlocks : c <= curr
           \/ b < ptr[curr] /\ b + size[b] <= ptr[curr]
        /\ Link(curr, b)
  BY PlaceOf
<1>2. inUse' = inUse \ {b} /\ answer' = answer
  BY DEF FreeCust
<1>. DEFINE next  == ptr[curr]
            right == b + size[b] = next
            left  == curr + size[curr] = b
            into  == IF left THEN curr ELSE b
            gone  == (IF right THEN {next} ELSE {}) \cup (IF left THEN {b} ELSE {})
            end   == IF right THEN next + size[next] ELSE b + size[b]
            succ  == IF right THEN ptr[next] ELSE next
<1>3. /\ \A u \in Blocks : u \in Unit /\ u \in Nat /\ u < TotalUnits
                         /\ size[u] \in Nat /\ size[u] > 0 /\ u + size[u] <= TotalUnits
      /\ \A u \in FreeBlocks : u \in Blocks /\ ptr[u] \in FreeBlocks
      /\ b \in Blocks /\ b \notin FreeBlocks /\ curr \in Blocks /\ next \in Blocks /\ next \in FreeBlocks
      /\ base = 0 /\ base \in FreeBlocks /\ TotalUnits \in Nat
  BY BlockEnds, UnitsAreNaturals DEF IInv, Chain, FreeBlocks, Blocks, base
<1>4. right => b < next /\ next # curr /\ next # base
  BY <1>1, <1>3
<1>n. /\ b \in Nat /\ curr \in Nat /\ next \in Nat
      /\ size[b] \in Nat /\ size[curr] \in Nat /\ size[next] \in Nat /\ size[b] > 0 /\ size[next] > 0
  BY <1>3
<1>5. /\ startingNode' = curr
      /\ size' = [u \in Unit |-> IF u \in gone THEN 0 ELSE IF u # into THEN size[u] ELSE end - into]
      /\ ptr' = [u \in Unit |-> IF u \in gone THEN 0 ELSE IF u = into THEN succ
                               ELSE IF u = curr THEN b ELSE ptr[u]]
  <2>1. JoinsRight(curr, b) = right /\ JoinsLeft(curr, b) = left
    BY DEF JoinsRight, JoinsLeft
  <2>2. /\ (IF JoinsRight(curr, b) THEN {ptr[curr]} \ {curr} ELSE {})
              \cup ({b} \ {IF JoinsLeft(curr, b) THEN curr ELSE b}) = gone
        /\ (IF JoinsLeft(curr, b) THEN curr ELSE b) = into
    BY <2>1, <1>1, <1>3, <1>4
  <2>3. size[b] + (IF JoinsRight(curr, b) THEN size[ptr[curr]] ELSE 0)
              + (IF into = b THEN 0 ELSE size[curr]) = end - into
    <3>1. CASE left
      <4>1. into = curr /\ curr # b /\ curr + size[curr] = b
        BY <3>1, <1>1, <1>n
      <4>2. end - curr = size[b] + (IF right THEN size[next] ELSE 0) + size[curr]
        BY <4>1, <1>n
      <4>. QED  BY <2>1, <4>1, <4>2
    <3>2. CASE ~ left
      <4>1. end - b = size[b] + (IF right THEN size[next] ELSE 0) + 0
        BY <1>n
      <4>. QED  BY <2>1, <3>2, <4>1
    <3>. QED  BY <3>1, <3>2
  <2>. HIDE DEF gone, end, left
  <2>4. \A u \in Unit : (IF u = into THEN (IF JoinsRight(curr, b) THEN ptr[ptr[curr]] ELSE ptr[curr])
                            ELSE IF u = curr THEN b ELSE ptr[u])
                      = (IF u = into THEN succ ELSE IF u = curr THEN b ELSE ptr[u])
    BY <2>1
  <2>. HIDE DEF into, succ
  <2>. QED  BY <1>1, <2>2, <2>3, <2>4 DEF Link
<1>6. /\ into \in Blocks /\ into <= b /\ into \notin gone /\ gone \subseteq Blocks /\ curr \notin gone
      /\ end \in Nat /\ into < end /\ end <= TotalUnits
      /\ \A g \in gone : into < g /\ g < end
      /\ end = TotalUnits \/ end \in Blocks
      /\ b + size[b] <= end
      /\ right => next \in gone
      /\ left => b \in gone
      /\ \A g \in gone : (g = next /\ right) \/ (g = b /\ left)
  <2>1. into \in Blocks /\ into <= b /\ into \notin gone /\ gone \subseteq Blocks /\ curr \notin gone
    <3>1. gone \subseteq Blocks /\ curr \notin gone
      BY <1>1, <1>3, <1>4, <1>n
    <3>2. into \in Blocks /\ into <= b
      BY <1>1, <1>3, <1>n
    <3>3. into \notin gone
      BY <3>1, <1>4, <1>n
    <3>. HIDE DEF into, gone
    <3>. QED  BY <3>1, <3>2, <3>3, Zenon
  <2>2. end \in Nat /\ into < end /\ end <= TotalUnits /\ b + size[b] <= end
    <3>1. end \in Nat /\ b < end /\ b + size[b] <= end
      BY <1>n
    <3>2. end <= TotalUnits
      BY <1>3
    <3>. QED  BY <3>1, <3>2, <1>1, <1>n
  <2>3. \A g \in gone : into < g /\ g < end
    <3>1. left => into < b /\ b < end
      BY <1>1, <1>n
    <3>2. right => into < next /\ next < end
      BY <1>1, <1>4, <1>n
    <3>. QED  BY <3>1, <3>2
  <2>4. end = TotalUnits \/ end \in Blocks
    BY <1>3 DEF IInv, Tiles
  <2>. QED  BY <2>1, <2>2, <2>3, <2>4
<1>7. end \notin FreeBlocks
  <2>1. CASE right
    BY <2>1, <1>3 DEF IInv, Apart
  <2>2. CASE ~ right
    <3>1. ASSUME b + size[b] \in FreeBlocks PROVE b + size[b] = next
      <4>1. b < b + size[b] /\ b + size[b] \in Nat /\ curr < b + size[b]
        BY <1>1, <1>3
      <4>2. curr < next /\ \A c \in FreeBlocks : c <= curr \/ next <= c
        BY <4>1, <3>1, <1>1, <1>3 DEF IInv, Chain
      <4>3. next <= b + size[b]
        <5>1. b + size[b] <= curr \/ next <= b + size[b]
          BY <4>2, <3>1
        <5>. QED  BY <4>1, <5>1, <1>n
      <4>4. b + size[b] <= next
        BY <4>1, <3>1, <1>1, <1>n
      <4>. QED  BY <4>1, <4>3, <4>4, <1>n
    <3>. QED  BY <2>2, <3>1
  <2>. QED  BY <2>1, <2>2
<1>8. succ \in FreeBlocks /\ succ \notin gone
      /\ \/ b < succ /\ \A c \in FreeBlocks : c <= curr \/ c \in gone \/ succ <= c
         \/ succ = base /\ \A c \in FreeBlocks : c <= curr \/ c \in gone
  <2>1. CASE right
    <3>1. curr < next /\ \A c \in FreeBlocks : c <= curr \/ next <= c
      BY <2>1, <1>1, <1>3, <1>4 DEF IInv, Chain
    <3>2. ptr[next] \in FreeBlocks /\ ptr[next] # next /\ ptr[next] # b
      BY <2>1, <1>3, <1>4 DEF IInv, Chain
    <3>3. \/ next < ptr[next] /\ \A c \in FreeBlocks : c <= next \/ ptr[next] <= c
          \/ ptr[next] = base /\ \A c \in FreeBlocks : c <= next
      BY <1>3 DEF IInv, Chain
    <3>4. \A c \in FreeBlocks : c <= next => c <= curr \/ c \in gone
      BY <3>1, <2>1, <1>3
    <3>5. succ \in FreeBlocks /\ succ \notin gone /\ succ = ptr[next]
      BY <2>1, <3>2, <1>3
    <3>6. CASE next < ptr[next] /\ \A c \in FreeBlocks : c <= next \/ ptr[next] <= c
      <4>1. b < succ
        <5>1. succ \in Nat /\ b < next /\ next < succ
          BY <2>1, <3>5, <3>6, <1>3, <1>4
        <5>. HIDE DEF succ, next
        <5>. QED  BY <5>1, <1>n
      <4>. QED  BY <4>1, <3>4, <3>5, <3>6
    <3>7. CASE ptr[next] = base /\ \A c \in FreeBlocks : c <= next
      BY <3>4, <3>5, <3>7
    <3>. QED  BY <3>3, <3>6, <3>7
  <2>2. CASE ~ right
    <3>1. next \notin gone
      BY <2>2, <1>3
    <3>2. \/ b < next /\ \A c \in FreeBlocks : c <= curr \/ next <= c
          \/ next = base /\ \A c \in FreeBlocks : c <= curr
      BY <1>1, <1>3 DEF IInv, Chain
    <3>. QED  BY <2>2, <3>1, <3>2, <1>3
  <2>. QED  BY <2>1, <2>2
<1>9. /\ into \in FreeBlocks => into = curr
      /\ into \notin FreeBlocks => into = b /\ ~ left
  BY <1>3
<1>. HIDE DEF end, succ, into, gone
<1>10. /\ \A u \in gone : size'[u] = 0
       /\ size'[into] = end - into
       /\ \A u \in Unit : u \notin gone /\ u # into => size'[u] = size[u]
       /\ ptr'[into] = succ
       /\ into # curr => ptr'[curr] = b
       /\ \A u \in Unit : u \notin gone /\ u # into /\ u # curr => ptr'[u] = ptr[u]
  BY <1>3, <1>5, <1>6
<1>11. Blocks' = Blocks \ gone
  <2>1. \A u \in Unit : size'[u] > 0 <=> (u \in Blocks /\ u \notin gone)
    BY <1>3, <1>6, <1>10 DEF Blocks
  <2>. QED  BY <2>1 DEF Blocks
<1>12. FreeBlocks' = (FreeBlocks \ gone) \cup {into}
  <2>1. into \notin inUse'
    BY <1>2, <1>3, <1>9 DEF FreeBlocks
  <2>2. b # into => b \in gone
    BY <1>6 DEF into
  <2>. QED  BY <1>2, <1>6, <1>11, <2>1, <2>2 DEF FreeBlocks
<1>13. \A u \in Blocks' : u \in Blocks /\ u \notin gone /\ u \in Nat /\ u \in Unit
                       /\ (u # into => size'[u] = size[u] /\ u + size'[u] = u + size[u])
  BY <1>3, <1>10, <1>11
<1>14. TypeOK'
  <2>1. end - into \in 0 .. TotalUnits /\ succ \in Unit /\ b \in Unit /\ curr \in Unit /\ 0 \in Unit
    BY <1>3, <1>6, <1>8
  <2>2. size' \in [Unit -> 0 .. TotalUnits]
    BY <1>3, <1>5, <2>1 DEF IInv, TypeOK
  <2>3. ptr' \in [Unit -> Unit]
    BY <1>3, <1>5, <2>1 DEF IInv, TypeOK
  <2>. QED  BY <1>2, <1>5, <2>1, <2>2, <2>3 DEF IInv, TypeOK
<1>15. inUse' \subseteq Blocks'
  BY <1>2, <1>3, <1>6, <1>11 DEF IInv, FreeBlocks
<1>16. base \in FreeBlocks' /\ startingNode' \in FreeBlocks'
  BY <1>1, <1>3, <1>4, <1>5, <1>6, <1>12
<1>17. Tiles'
  <2>1. /\ into + size'[into] = end
        /\ end = TotalUnits \/ end \in Blocks'
    BY <1>3, <1>6, <1>10, <1>11
  <2>2. ASSUME NEW v \in Blocks', into < v PROVE end <= v
    BY <2>2, <1>1, <1>3, <1>6, <1>11, <1>13, <1>n DEF IInv, Tiles, into, end
  <2>3. ASSUME NEW u \in Blocks', u # into
        PROVE  u + size'[u] = TotalUnits \/ u + size'[u] \in Blocks'
    <3>1. u + size[u] = TotalUnits \/ u + size[u] \in Blocks
      BY <2>3, <1>13 DEF IInv, Tiles
    <3>2. u + size[u] = b => ~ left
      BY <2>3, <1>1, <1>3, <1>13, <1>n DEF IInv, Tiles, into
    <3>3. u + size[u] = next => ~ right
      BY <2>3, <1>1, <1>3, <1>4, <1>6, <1>13, <1>n DEF IInv, Tiles, into
    <3>. QED  BY <3>1, <3>2, <3>3, <2>3, <1>6, <1>11, <1>13
  <2>4. ASSUME NEW u \in Blocks', u # into, NEW v \in Blocks', u < v
        PROVE  u + size'[u] <= v
    BY <2>4, <1>13 DEF IInv, Tiles
  <2>. QED  BY <2>1, <2>2, <2>3, <2>4 DEF Tiles
<1>18. Apart'
  <2>1. into + size'[into] \notin FreeBlocks'
    BY <1>3, <1>6, <1>7, <1>10, <1>12
  <2>2. ASSUME NEW a \in FreeBlocks', a # into PROVE a + size'[a] \notin FreeBlocks'
    <3>1. a \in FreeBlocks /\ a \in Blocks' /\ a + size'[a] \notin FreeBlocks
      BY <2>2, <1>3, <1>11, <1>12, <1>13 DEF IInv, Apart
    <3>2. a + size'[a] = into => FALSE
      BY <3>1, <2>2, <1>1, <1>3, <1>9, <1>13, <1>n DEF IInv, Tiles
    <3>. QED  BY <3>1, <3>2, <1>12
  <2>. QED  BY <2>1, <2>2 DEF Apart
<1>19. Chain'
  <2>1. /\ ptr'[into] \in FreeBlocks'
        /\ \/ into < ptr'[into] /\ \A c \in FreeBlocks' : c <= into \/ ptr'[into] <= c
           \/ ptr'[into] = base /\ \A c \in FreeBlocks' : c <= into
    <3>1. curr <= into /\ into \in Nat
      BY <1>1, <1>3, <1>6, <1>n DEF into
    <3>2. \A c \in FreeBlocks' : c = into \/ (c \in FreeBlocks /\ c \notin gone /\ c \in Nat)
      BY <1>3, <1>12
    <3>3. succ \in FreeBlocks' /\ succ \in Nat
      BY <1>3, <1>8, <1>12
    <3>4. CASE b < succ /\ \A c \in FreeBlocks : c <= curr \/ c \in gone \/ succ <= c
      BY <3>1, <3>2, <3>3, <3>4, <1>6, <1>10, <1>n
    <3>5. CASE succ = base /\ \A c \in FreeBlocks : c <= curr \/ c \in gone
      BY <3>1, <3>2, <3>3, <3>5, <1>10, <1>n
    <3>. QED  BY <3>4, <3>5, <1>8
  <2>2. ASSUME into # curr
        PROVE  /\ ptr'[curr] \in FreeBlocks' /\ curr < ptr'[curr]
               /\ \A c \in FreeBlocks' : c <= curr \/ ptr'[curr] <= c
    <3>1. into = b /\ ptr'[curr] = b
      BY <2>2, <1>10 DEF into
    <3>. QED  BY <3>1, <1>1, <1>3, <1>12, <1>n
  <2>3. ASSUME NEW a \in FreeBlocks', a # into, a # curr
        PROVE  /\ ptr'[a] \in FreeBlocks'
               /\ \/ a < ptr'[a] /\ \A c \in FreeBlocks' : c <= a \/ ptr'[a] <= c
                  \/ ptr'[a] = base /\ \A c \in FreeBlocks' : c <= a
    <3>1. /\ a \in FreeBlocks /\ a \notin gone /\ ptr'[a] = ptr[a] /\ a \in Nat /\ ptr[a] \in Nat
          /\ ptr[a] \in FreeBlocks
      BY <2>3, <1>3, <1>10, <1>12
    <3>2. ptr[a] # next
      BY <3>1, <2>3, ChainIsInjective
    <3>3. ptr[a] \notin gone
      BY <3>1, <3>2, <1>3, <1>6
    <3>4. \A c \in FreeBlocks' : c = b \/ (c \in FreeBlocks /\ c \in Nat)
      BY <1>3, <1>9, <1>12
    <3>5. CASE a < ptr[a] /\ \A c \in FreeBlocks : c <= a \/ ptr[a] <= c
      <4>1. b <= a \/ ptr[a] <= b
        BY <3>1, <3>5, <2>3, <1>1, <1>n
      <4>. QED  BY <4>1, <3>1, <3>3, <3>4, <3>5, <1>12
    <3>6. CASE ptr[a] = base /\ \A c \in FreeBlocks : c <= a
      <4>1. b <= a
        BY <3>1, <3>6, <2>3, <1>1, <1>n
      <4>. QED  BY <4>1, <3>1, <3>3, <3>4, <3>6, <1>12
    <3>. QED  BY <3>1, <3>5, <3>6 DEF IInv, Chain
  <2>. QED  BY <2>1, <2>2, <2>3 DEF Chain
<1>20. \A c \in inUse' : size'[c] = size[c]
  <2>1. \A c \in inUse' : c \in Blocks /\ c \notin FreeBlocks /\ c # b
    BY <1>2 DEF IInv, FreeBlocks
  <2>2. \A c \in inUse' : c \notin gone /\ c # into
    BY <2>1, <1>3, <1>6, <1>9
  <2>. QED  BY <2>1, <2>2, <1>3, <1>10
<1>. QED  BY <1>14, <1>15, <1>16, <1>17, <1>18, <1>19, <1>20 DEF IInv

(***************************************************************************)
(* The invariant, and what it means                                        *)
(***************************************************************************)

\* memInit makes one free block of the heap.
LEMMA InitIsTiled == Init => IInv
<1>. SUFFICES ASSUME Init PROVE IInv
  OBVIOUS
<1>1. TotalUnits \in Nat /\ TotalUnits >= 2 /\ base \in Unit /\ base = 0
  BY UnitsAreNaturals DEF base
<1>2. Blocks = {base} /\ FreeBlocks = {base}
  BY <1>1 DEF Init, Blocks, FreeBlocks
<1>3. TypeOK
  BY <1>1 DEF Init, TypeOK, Unit
<1>4. size[base] = TotalUnits /\ ptr[base] = base
  BY <1>1 DEF Init
<1>. QED  BY <1>1, <1>2, <1>3, <1>4 DEF Init, IInv, Tiles, Chain, Apart

\* Every call keeps the list in order and the heap tiled.
LEMMA StepKeeps ==
  ASSUME IInv, [Next]_vars, ~ TakesAllOfBase
  PROVE  IInv'
<1>1. CASE UNCHANGED vars
  BY <1>1 DEF vars, IInv, TypeOK, Tiles, Chain, Apart, FreeBlocks, Blocks
<1>2. ASSUME NEW r \in Requests, MallocNone(UnitsFor(r)) PROVE IInv'
  BY <1>2 DEF MallocNone, IInv, TypeOK, Tiles, Chain, Apart, FreeBlocks, Blocks
<1>3. ASSUME NEW r \in Requests, MallocExact(UnitsFor(r)) PROVE IInv'
  BY <1>3, ExactKeeps, UnitsAreNaturals DEF MallocExact
<1>4. ASSUME NEW r \in Requests, MallocSplit(UnitsFor(r)) PROVE IInv'
  <2>1. UnitsFor(r) \in Nat /\ UnitsFor(r) > 0
    BY UnitsAreNaturals
  <2>. QED  BY <1>4, <2>1, SplitKeeps
<1>5. ASSUME NEW b \in inUse, FreeCust(b) PROVE IInv'
  BY <1>5, LinkKeeps
<1>. QED  BY <1>1, <1>2, <1>3, <1>4, <1>5 DEF Next

\* Every unit is in one block: the one that begins last at or below it.
LEMMA TiledHeap ==
  ASSUME IInv
  PROVE  HeapIsTiled
<1>. SUFFICES ASSUME NEW u \in Unit
              PROVE  Cardinality({b \in FreeNodes \cup inUse : u \in Extent(b)}) = 1
  BY FreeNodesAreFree DEF HeapIsTiled, IInv, FreeBlocks
<1>1. FreeNodes \cup inUse = Blocks
  BY FreeNodesAreFree DEF IInv, FreeBlocks
<1>2. /\ u \in Nat /\ u < TotalUnits
      /\ \A b \in Blocks : b \in Nat /\ b \in 0 .. TotalUnits /\ size[b] \in Nat /\ size[b] > 0
  BY BlockEnds, UnitsAreNaturals DEF Unit
<1>. DEFINE Below == {b \in Blocks : b <= u}
<1>3. Below \in SUBSET (0 .. TotalUnits) /\ base \in Below
  BY <1>2 DEF IInv, FreeBlocks, base
<1>4. PICK b \in Below : \A c \in Below : c <= b
  BY <1>3, UnitsAreNaturals, GreatestNatural
<1>5. b \in Blocks /\ b <= u /\ u < b + size[b]
  <2>1. b + size[b] = TotalUnits \/ b + size[b] \in Blocks
    BY <1>4 DEF IInv, Tiles
  <2>. QED  BY <1>2, <1>4, <2>1
<1>6. ASSUME NEW c \in Blocks, u \in Extent(c) PROVE c = b
  <2>1. c <= u /\ u < c + size[c]
    BY <1>2, <1>6 DEF Extent
  <2>. QED  BY <1>2, <1>5, <2>1 DEF IInv, Tiles
<1>7. u \in Extent(b)
  BY <1>2, <1>5 DEF Extent
<1>8. {c \in FreeNodes \cup inUse : u \in Extent(c)} = {b}
  BY <1>1, <1>5, <1>6, <1>7
<1>. QED  BY <1>8, FS_Singleton

\* A free block leads to the next free one, and the last to the first.
LEMMA OrderedList ==
  ASSUME IInv
  PROVE  ListIsOrdered
<1>. SUFFICES ASSUME NEW a \in FreeBlocks
              PROVE  /\ \A b \in FreeBlocks : a + size[a] # b
                     /\ LET above == {b \in FreeBlocks : b > a}
                        IN ptr[a] = Min(IF above # {} THEN above ELSE FreeBlocks)
  BY FreeNodesAreFree DEF ListIsOrdered
<1>. DEFINE above == {b \in FreeBlocks : b > a}
            from == IF above # {} THEN above ELSE FreeBlocks
<1>1. \A b \in FreeBlocks : b \in Nat /\ ptr[b] \in FreeBlocks
  BY UnitsAreNaturals DEF FreeBlocks, Blocks, Unit, IInv, Chain
<1>2. ptr[a] \in from /\ \A b \in from : ptr[a] <= b
  BY <1>1 DEF IInv, Chain, base
<1>3. \A m \in from : (\A b \in from : m <= b) => m = ptr[a]
  BY <1>1, <1>2
<1>4. ptr[a] = Min(from)
  <2>. HIDE DEF from
  <2>. QED  BY <1>2, <1>3 DEF Min
<1>. QED  BY <1>4 DEF IInv, Apart

\* The invariant holds of every state that calls of mallocCust and freeCust reach.
LEMMA Reachable ==
  ASSUME ~ TakesAllOfBase
  PROVE  Spec => []IInv
<1>1. IInv /\ [Next]_vars => IInv'
  BY StepKeeps
<1>. QED  BY <1>1, InitIsTiled, PTL DEF Spec

\* Whatever the heap's size and the requests, as long as none is for exactly what is
\* left at base, every unit belongs to one block, free or in use.
THEOREM HeapStaysTiled ==
  ASSUME ~ TakesAllOfBase
  PROVE  Spec => []HeapIsTiled
<1>1. IInv => HeapIsTiled
  BY TiledHeap
<1>. QED  BY <1>1, Reachable, PTL

\* The free list stays in address order, closed, and without neighbours that touch.
THEOREM ListStaysOrdered ==
  ASSUME ~ TakesAllOfBase
  PROVE  Spec => []ListIsOrdered
<1>1. IInv => ListIsOrdered
  BY OrderedList
<1>. QED  BY <1>1, Reachable, PTL

(***************************************************************************)
(* The abstract heap                                                       *)
(***************************************************************************)

\* The units of the abstract heap in use are those of the blocks in use.
LEMMA UsedAre ==
  \A u : u \in H!Used <=> \E b \in inUse : u \in Extent(b)
<1>. DEFINE B == {<<b, size[b]>> : b \in inUse}
<1>1. \A c : c \in B <=> \E b \in inUse : c = <<b, size[b]>>
  OBVIOUS
<1>2. \A b \in inUse : <<b, size[b]>> \in B /\ H!Cells(<<b, size[b]>>) = Extent(b)
  BY DEF H!Cells, Extent
<1>3. \A u : u \in H!Used <=> \E c \in B : u \in H!Cells(c)
  BY DEF H!Used
<1>. HIDE DEF B
<1>4. ASSUME NEW u, u \in H!Used PROVE \E b \in inUse : u \in Extent(b)
  <2>1. PICK c \in B : u \in H!Cells(c)
    BY <1>3, <1>4
  <2>2. PICK b \in inUse : c = <<b, size[b]>>
    BY <1>1
  <2>. QED  BY <2>1, <2>2, <1>2
<1>5. ASSUME NEW u, NEW b \in inUse, u \in Extent(b) PROVE u \in H!Used
  BY <1>2, <1>3, <1>5
<1>. QED  BY <1>4, <1>5

\* When the search finds nothing no gap is large enough: a gap begins in a free block,
\* and what ends that block is the end of the heap or a block in use.
LEMMA RefusalIsTrue ==
  ASSUME IInv, NEW n \in Nat, n > 0, Fits(n) = {}
  PROVE  H!Gaps(n) = {}
<1>. SUFFICES ASSUME NEW a \in H!Gaps(n) PROVE FALSE
  OBVIOUS
<1>1. /\ a \in 0 .. TotalUnits - n /\ TotalUnits \in Nat
      /\ \A u \in a .. a + n - 1 : \A b \in inUse : u \notin Extent(b)
  BY UsedAre, UnitsAreNaturals DEF H!Gaps
<1>2. \A b \in Blocks : b \in Nat /\ b \in 0 .. TotalUnits /\ size[b] \in Nat /\ size[b] > 0
  BY BlockEnds, UnitsAreNaturals
<1>. DEFINE Below == {b \in Blocks : b <= a}
<1>3. Below \in SUBSET (0 .. TotalUnits) /\ base \in Below
  BY <1>1, <1>2 DEF IInv, FreeBlocks, base
<1>4. PICK b \in Below : \A c \in Below : c <= b
  BY <1>3, UnitsAreNaturals, GreatestNatural
<1>5. b \in Blocks /\ b <= a /\ a < b + size[b]
  <2>1. b + size[b] = TotalUnits \/ b + size[b] \in Blocks
    BY <1>4 DEF IInv, Tiles
  <2>. QED  BY <1>1, <1>2, <1>4, <2>1
<1>6. b \in FreeBlocks
  <2>1. a \in Extent(b) /\ a \in a .. a + n - 1
    BY <1>1, <1>2, <1>5 DEF Extent
  <2>. QED  BY <2>1, <1>1, <1>5 DEF FreeBlocks
<1>7. a + n <= b + size[b]
  <2>. SUFFICES ASSUME ~ (a + n <= b + size[b]) PROVE FALSE
    OBVIOUS
  <2>. DEFINE e == b + size[b]
  <2>1. e \in Nat /\ e \in a .. a + n - 1 /\ e # TotalUnits
    BY <1>1, <1>2, <1>5
  <2>2. e \in Blocks /\ e \notin FreeBlocks
    BY <2>1, <1>5, <1>6 DEF IInv, Tiles, Apart
  <2>3. e \in inUse /\ e \in Extent(e)
    <3>. HIDE DEF e
    <3>. QED  BY <2>1, <2>2, <1>2 DEF FreeBlocks, Extent
  <2>. QED  BY <2>1, <2>3, <1>1
<1>8. size[b] >= n
  BY <1>1, <1>2, <1>5, <1>7
<1>9. PICK i \in 1 .. Turn : b = Nth[i]
  BY <1>6, FreeNodesAreFree DEF FreeNodes
<1>. QED  BY <1>8, <1>9 DEF Fits

\* The abstract heap's blocks, before and after a call that gives one.
LEMMA GiveIs ==
  ASSUME IInv, NEW a \in Nat, NEW n \in Nat, n > 0, a + n <= TotalUnits,
         \A u \in a .. a + n - 1 : \A b \in inUse : u \notin Extent(b),
         inUse' = inUse \cup {a}, answer' = a, size'[a] = n,
         \A b \in inUse : size'[b] = size[b]
  PROVE  H!Give(n)
<1>1. a \in H!Gaps(n)
  <2>1. a \in 0 .. TotalUnits - n
    BY UnitsAreNaturals
  <2>2. (a .. a + n - 1) \cap H!Used = {}
    BY UsedAre
  <2>. QED  BY <2>1, <2>2 DEF H!Gaps
<1>2. {<<b, size'[b]>> : b \in inUse'} = {<<b, size[b]>> : b \in inUse} \cup {<<a, n>>}
  OBVIOUS
<1>. QED  BY <1>1, <1>2 DEF H!Give

\* Every call is one of the abstract heap's.
LEMMA StepIsAbstract ==
  ASSUME IInv, [Next]_vars, ~ TakesAllOfBase
  PROVE  [H!HeapNext]_(H!heapVars)
<1>0. \A b \in Blocks : b \in Nat /\ b \in Unit /\ size[b] \in Nat /\ size[b] > 0 /\ b + size[b] <= TotalUnits
  BY BlockEnds DEF Blocks
<1>1. CASE UNCHANGED vars
  BY <1>1 DEF vars, H!heapVars
<1>2. ASSUME NEW r \in Requests, MallocNone(UnitsFor(r)) PROVE H!HeapNext
  <2>1. UnitsFor(r) \in Nat /\ UnitsFor(r) > 0
    BY UnitsAreNaturals
  <2>2. H!Gaps(UnitsFor(r)) = {}
    BY <1>2, <2>1, RefusalIsTrue DEF MallocNone
  <2>3. H!Refuse(UnitsFor(r))
    BY <1>2, <2>2 DEF MallocNone, H!Refuse
  <2>. QED  BY <2>3 DEF H!HeapNext
<1>3. ASSUME NEW r \in Requests, MallocExact(UnitsFor(r)) PROVE H!HeapNext
  <2>. DEFINE n == UnitsFor(r)
              curr == Nth[Min(Fits(n))]
  <2>1. n \in Nat /\ n > 0
    BY UnitsAreNaturals
  <2>2. curr \in FreeBlocks /\ Fits(n) # {}
    BY <1>3, <2>1, SearchFinds DEF MallocExact
  <2>3. inUse' = inUse \cup {curr} /\ answer' = curr /\ size' = size /\ size[curr] = n
    BY <1>3 DEF MallocExact
  <2>. HIDE DEF curr, n
  <2>4. curr \in Blocks /\ curr \notin inUse
    BY <2>2 DEF FreeBlocks
  <2>5. ASSUME NEW u \in curr .. curr + n - 1, NEW b \in inUse PROVE u \notin Extent(b)
    BY <2>1, <2>3, <2>4, <1>0 DEF IInv, Tiles, Extent
  <2>6. H!Give(n)
    BY <1>0, <2>1, <2>3, <2>4, <2>5, GiveIs
  <2>. QED  BY <2>6 DEF H!HeapNext, n
<1>4. ASSUME NEW r \in Requests, MallocSplit(UnitsFor(r)) PROVE H!HeapNext
  <2>. DEFINE n == UnitsFor(r)
              curr == Nth[Min(Fits(n))]
              new == curr + (size[curr] - n)
  <2>1. n \in Nat /\ n > 0
    BY UnitsAreNaturals
  <2>2. curr \in FreeBlocks /\ size[curr] >= n
    BY <1>4, <2>1, SearchFinds DEF MallocSplit
  <2>3. /\ inUse' = inUse \cup {new} /\ answer' = new /\ size[curr] - n # 0
        /\ size' = [size EXCEPT ![curr] = size[curr] - n, ![new] = n]
    BY <1>4 DEF MallocSplit
  <2>. HIDE DEF curr, n
  <2>4. curr \in Blocks /\ curr \notin inUse /\ curr \in Nat /\ size[curr] \in Nat
        /\ curr + size[curr] <= TotalUnits
    BY <2>2, <1>0 DEF FreeBlocks
  <2>5. new \in Nat /\ curr < new /\ new + n = curr + size[curr] /\ new \in Unit
    BY <2>1, <2>2, <2>3, <2>4, UnitsAreNaturals DEF Unit
  <2>6. ASSUME NEW u \in new .. new + n - 1, NEW b \in inUse PROVE u \notin Extent(b)
    <3>1. u \in Nat /\ curr < u /\ u < curr + size[curr]
      BY <2>1, <2>4, <2>5
    <3>2. b \in Blocks /\ b # curr /\ b \in Nat /\ size[b] \in Nat
      BY <2>4, <1>0 DEF IInv
    <3>3. b + size[b] <= curr \/ curr + size[curr] <= b
      BY <3>2, <2>4 DEF IInv, Tiles
    <3>. QED  BY <3>1, <3>2, <3>3, <2>4 DEF Extent
  <2>7. new \notin Blocks
    BY <2>1, <2>4, <2>5 DEF IInv, Tiles
  <2>. HIDE DEF new
  <2>8. size'[new] = n /\ \A b \in inUse : size'[b] = size[b]
    BY <2>3, <2>4, <2>5, <2>7 DEF IInv, TypeOK
  <2>9. H!Give(n)
    BY <2>1, <2>3, <2>4, <2>5, <2>6, <2>8, GiveIs
  <2>. QED  BY <2>9 DEF H!HeapNext, n
<1>5. ASSUME NEW b \in inUse, FreeCust(b) PROVE H!HeapNext
  <2>1. inUse' = inUse \ {b} /\ answer' = answer
    BY <1>5 DEF FreeCust
  <2>2. \A c \in inUse' : size'[c] = size[c]
    BY <1>5, LinkKeeps
  <2>3. {<<c, size'[c]>> : c \in inUse'} = {<<c, size[c]>> : c \in inUse} \ {<<b, size[b]>>}
    BY <2>1, <2>2
  <2>4. PICK p \in {<<c, size[c]>> : c \in inUse} : p = <<b, size[b]>>
    OBVIOUS
  <2>5. H!Free(p)
    BY <2>1, <2>3, <2>4 DEF H!Free
  <2>. QED  BY <2>5 DEF H!HeapNext
<1>. QED  BY <1>1, <1>2, <1>3, <1>4, <1>5 DEF Next

\* The memory manager keeps the promise of the abstract heap: a block it gives lies in a
\* gap of the heap, and it refuses a request only when no gap is that large.
THEOREM FreeListImplementsHeap ==
  ASSUME ~ TakesAllOfBase
  PROVE  Spec => ImplementsHeap
<1>1. Init => H!HeapInit
  BY DEF Init, H!HeapInit
<1>2. IInv /\ [Next]_vars => [H!HeapNext]_(H!heapVars)
  BY StepIsAbstract
<1>. QED  BY <1>1, <1>2, Reachable, PTL DEF Spec, ImplementsHeap, H!HeapSpec
===============================================================================
