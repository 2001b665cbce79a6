----------------------------- MODULE BuddyProofs -----------------------------
(***************************************************************************)
(* The buddy memory manager, for every size of the heap and every sequence *)
(* of calls: its blocks tile the heap, its headers and its lists agree,    *)
(* and whatever can be joined is joined.                                   *)
(*                                                                         *)
(* A unit u is in the block b of level l when At(u, l) = b: what the       *)
(* proofs say of blocks they say with At, of which they need that it       *)
(* halves (HalvesOf) and nests (Nested).                                   *)
(***************************************************************************)
EXTENDS Buddy, DataLemmas, SequenceTheorems

FreeOnes == {u \in Unit : free[u] = 1}
Blocks == inUse \cup FreeOnes
In(u, b) == At(u, level[b]) = b

\* The lists are what the headers say.
Listed ==
  \A l \in Level :
    /\ Distinct(levelsList[l])
    /\ Range(levelsList[l]) = {u \in FreeOnes : level[u] = l}

Aligned == \A b \in Blocks : In(b, b)
Covered == \A u \in Unit : \E b \in Blocks : In(u, b)
Apart == \A u \in Unit : \A a, b \in Blocks : In(u, a) /\ In(u, b) => a = b

\* No two buddies are both free.
Joined ==
  \A a, b \in FreeOnes :
    level[a] = level[b] /\ level[a] # Top => b # BuddyOf(a, level[a])

(***************************************************************************)
(* The inductive invariant.  That the blocks tile the heap is inductive    *)
(* only if a header is in the list of its level, which is the one that     *)
(* listRemove takes it from.                                               *)
(***************************************************************************)
IInv ==
  /\ TypeOK
  /\ Listed
  /\ \A b \in inUse : free[b] = 0
  /\ Aligned /\ Covered /\ Apart
  /\ Joined

-----------------------------------------------------------------------------
(***************************************************************************)
(* Division.                                                               *)
(***************************************************************************)
\* A number is so many times P, and a rest.
LEMMA Quotient ==
  ASSUME NEW P \in Nat \ {0}, NEW x \in Nat
  PROVE  \E q \in Nat : \E r \in 0 .. P - 1 :
           x = q * P + r /\ q = x \div P /\ r = x % P /\ x - (x % P) = q * P
OBVIOUS

\* They are unique.
LEMMA QuotientIs ==
  ASSUME NEW P \in Nat \ {0}, NEW q \in Nat, NEW r \in 0 .. P - 1
  PROVE  /\ q * P + r \in Nat
         /\ (q * P + r) \div P = q /\ (q * P + r) % P = r
         /\ (q * P + r) - ((q * P + r) % P) = q * P
<1>1. (q * P + r) % P = r /\ (q * P + r) \div P = q
  OBVIOUS
<1>2. PICK m \in Nat : m = q * P
  OBVIOUS
<1>3. m + r \in Nat /\ m + r - r = m
  BY <1>2
<1>. QED  BY <1>1, <1>2, <1>3

\* The multiples of 2 * P are the even multiples of P.
Halves(x, q, r, P, D) ==
  D = 2 * P /\ x = q * P + r => x - (x % D) = IF q % 2 = 1 THEN q * P - P ELSE q * P

\* It is so, of any of them.
LEMMA Halving ==
  ASSUME NEW P \in Nat \ {0}, NEW D \in Nat, NEW q \in Nat, NEW r \in 0 .. P - 1, NEW x \in Nat
  PROVE  Halves(x, q, r, P, D)
<1>. SUFFICES ASSUME D = 2 * P, x = q * P + r
              PROVE  x - (x % D) = IF q % 2 = 1 THEN q * P - P ELSE q * P
  BY DEF Halves
<1>1. PICK k \in Nat : q = 2 * k \/ q = 2 * k + 1
  <2>1. q = 2 * (q \div 2) \/ q = 2 * (q \div 2) + 1
    OBVIOUS
  <2>. QED  BY <2>1
<1>2. D \in Nat \ {0} /\ D = 2 * P
  OBVIOUS
<1>3. CASE q = 2 * k
  <2>1. q % 2 = 0 /\ q * P = k * D /\ r \in 0 .. D - 1
    BY <1>2, <1>3
  <2>2. (k * D + r) - ((k * D + r) % D) = k * D
    BY <1>2, <2>1, QuotientIs
  <2>3. x = k * D + r
    BY <2>1
  <2>. QED  BY <2>1, <2>2, <2>3
<1>4. CASE q = 2 * k + 1
  <2>1. q % 2 = 1 /\ q * P = k * D + P /\ k * D \in Nat
    BY <1>2, <1>4
  <2>2. PICK s \in 0 .. D - 1 : s = P + r
    BY <1>2
  <2>3. PICK m \in Nat : m = k * D
    BY <2>1
  <2>4. q * P + r = k * D + s /\ q * P - P = k * D
    BY <2>1, <2>2, <2>3
  <2>5. (k * D + s) - ((k * D + s) % D) = k * D
    BY <1>2, QuotientIs
  <2>. QED  BY <2>1, <2>4, <2>5
<1>. QED  BY <1>1, <1>3, <1>4

-----------------------------------------------------------------------------
(***************************************************************************)
(* The sizes of the blocks, and where a block of a level begins.           *)
(***************************************************************************)
LEMMA LevelsAre ==
  /\ Levels \in Nat \ {0} /\ Top \in Level /\ Top \in Nat
  /\ \A l \in Level : l \in Nat /\ l <= Top /\ l \in 0 .. Levels /\ (l # Top => l + 1 \in Level)
BY BuddyAssumption DEF Level, Top

\* Pow2 is a recursive function, and exists; each size is twice the one before.
LEMMA PowIs ==
  /\ Pow2[0] = 1
  /\ \A l \in 0 .. Levels : Pow2[l] \in Nat \ {0}
  /\ \A l \in Level : Pow2[l + 1] = 2 * Pow2[l]
<1>. DEFINE f == [l \in 1 .. Levels |-> [x \in Nat |-> 2 * x]]
<1>1. PICK g : Iterates(g, f, 1, Levels)
  BY LevelsAre, IterationExists
<1>2. g[0] = 1 /\ \A l \in 1 .. Levels : g[l] = f[l][g[l - 1]]
  <2>. HIDE DEF f
  <2>1. \A l \in 0 .. Levels : g[l] = IF l = 0 THEN 1 ELSE f[l][g[l - 1]]
    BY <1>1 DEF Iterates
  <2>. QED  BY <2>1, LevelsAre
<1>3. \A l \in 0 .. Levels : g[l] \in Nat \ {0}
  <2>. DEFINE T == {l \in Nat : l \in 0 .. Levels => g[l] \in Nat \ {0}}
  <2>1. 0 \in T
    BY <1>2
  <2>2. ASSUME NEW l \in Nat, l \in T PROVE l + 1 \in T
    <3>. SUFFICES ASSUME l + 1 \in 0 .. Levels PROVE g[l + 1] \in Nat \ {0}
      OBVIOUS
    <3>1. l \in 0 .. Levels /\ l + 1 \in 1 .. Levels /\ l + 1 - 1 = l
      BY LevelsAre
    <3>2. g[l] \in Nat \ {0} /\ g[l + 1] = f[l + 1][g[l]]
      BY <1>2, <2>2, <3>1
    <3>. QED  BY <3>1, <3>2
  <2>3. Nat \subseteq T
    <3>. HIDE DEF T
    <3>. QED  BY <2>1, <2>2, NatSetInduction
  <2>. QED  BY <2>3, LevelsAre
<1>4. \A l \in 1 .. Levels : g[l] = 2 * g[l - 1]
  <2>1. ASSUME NEW l \in 1 .. Levels PROVE g[l] = 2 * g[l - 1]
    <3>1. l - 1 \in 0 .. Levels
      BY LevelsAre
    <3>2. g[l - 1] \in Nat
      BY <1>3, <3>1
    <3>. QED  BY <1>2, <3>2
  <2>. QED  BY <2>1
<1>5. g = [l \in 0 .. Levels |-> IF l = 0 THEN 1 ELSE 2 * g[l - 1]]
  <2>. HIDE DEF f
  <2>1. \A l \in 0 .. Levels : g[l] = IF l = 0 THEN 1 ELSE 2 * g[l - 1]
    BY <1>2, <1>4, LevelsAre
  <2>2. g = [l \in 0 .. Levels |-> g[l]]
    BY <1>1 DEF Iterates
  <2>. QED  BY <2>1, <2>2
<1>. HIDE DEF f
<1>6. Pow2 = [l \in 0 .. Levels |-> IF l = 0 THEN 1 ELSE 2 * Pow2[l - 1]]
  BY <1>5 DEF Pow2
<1>7. \A l \in 0 .. Levels : Pow2[l] = IF l = 0 THEN 1 ELSE 2 * Pow2[l - 1]
  BY <1>6
<1>8. \A l \in 0 .. Levels : Pow2[l] \in Nat \ {0}
  <2>. DEFINE T == {l \in Nat : l \in 0 .. Levels => Pow2[l] \in Nat \ {0}}
  <2>1. 0 \in T
    BY <1>7, LevelsAre
  <2>2. ASSUME NEW l \in Nat, l \in T PROVE l + 1 \in T
    <3>1. l + 1 \in 0 .. Levels => l \in 0 .. Levels /\ l + 1 # 0 /\ l + 1 - 1 = l
      BY LevelsAre
    <3>. QED  BY <1>7, <2>2, <3>1
  <2>3. Nat \subseteq T
    <3>. HIDE DEF T
    <3>. QED  BY <2>1, <2>2, NatSetInduction
  <2>. QED  BY <2>3, LevelsAre
<1>9. ASSUME NEW l \in Level PROVE Pow2[l + 1] = 2 * Pow2[l]
  <2>1. PICK k \in 0 .. Levels : k = l + 1 /\ k # 0 /\ k - 1 = l
    BY LevelsAre DEF Level
  <2>2. Pow2[k] = 2 * Pow2[k - 1]
    BY <1>7, <2>1
  <2>. QED  BY <2>1, <2>2
<1>. QED  BY <1>7, <1>8, <1>9, LevelsAre

\* Where the block begins that x is in: a multiple of its size.
LEMMA AtIs ==
  ASSUME NEW x \in Nat, NEW l \in Level
  PROVE  \E q \in Nat : \E r \in 0 .. Pow2[l] - 1 :
           /\ x = q * Pow2[l] + r /\ At(x, l) = q * Pow2[l] /\ q = x \div Pow2[l]
           /\ At(x, l) \in Nat /\ At(x, l) <= x /\ x < At(x, l) + Pow2[l]
<1>1. Pow2[l] \in Nat \ {0}
  BY PowIs, LevelsAre
<1>2. PICK q \in Nat, r \in 0 .. Pow2[l] - 1 :
        x = q * Pow2[l] + r /\ q = x \div Pow2[l] /\ x - (x % Pow2[l]) = q * Pow2[l]
  BY <1>1, Quotient
<1>3. PICK m \in Nat, P \in Nat \ {0} : m = q * P /\ P = Pow2[l]
  BY <1>1
<1>4. /\ x = q * Pow2[l] + r /\ At(x, l) = q * Pow2[l] /\ q = x \div Pow2[l]
      /\ At(x, l) \in Nat /\ At(x, l) <= x /\ x < At(x, l) + Pow2[l]
  <2>1. x = m + r /\ r \in 0 .. P - 1 /\ At(x, l) = m
    BY <1>2, <1>3 DEF At
  <2>2. At(x, l) \in Nat /\ At(x, l) <= x /\ x < At(x, l) + P
    BY <2>1
  <2>3. At(x, l) = q * Pow2[l]
    BY <1>2 DEF At
  <2>. QED  BY <1>2, <1>3, <2>2, <2>3
<1>. QED  BY <1>4

\* Whatever is there is in that block.
LEMMA AtOf ==
  ASSUME NEW x \in Nat, NEW y \in Nat, NEW l \in Level
  PROVE  /\ At(x, l) <= y /\ y < At(x, l) + Pow2[l] => At(y, l) = At(x, l)
         /\ At(y, l) = At(x, l) => At(x, l) <= y /\ y < At(x, l) + Pow2[l]
         /\ At(At(x, l), l) = At(x, l)
<1>1. Pow2[l] \in Nat \ {0}
  BY PowIs, LevelsAre
<1>2. PICK q \in Nat : At(x, l) = q * Pow2[l] /\ At(x, l) \in Nat
  BY AtIs
<1>3. ASSUME NEW z \in Nat, At(x, l) <= z, z < At(x, l) + Pow2[l] PROVE At(z, l) = At(x, l)
  <2>1. PICK r \in 0 .. Pow2[l] - 1 : r = z - At(x, l)
    BY <1>1, <1>2, <1>3
  <2>2. z = q * Pow2[l] + r
    BY <1>1, <1>2, <2>1
  <2>. QED  BY <1>1, <1>2, <2>2, QuotientIs DEF At
<1>4. At(At(x, l), l) = At(x, l)
  BY <1>1, <1>2, <1>3
<1>5. At(y, l) = At(x, l) => At(x, l) <= y /\ y < At(x, l) + Pow2[l]
  BY AtIs
<1>. QED  BY <1>3, <1>4, <1>5

\* The smallest blocks are the units, and the largest is the heap.
LEMMA AtEnds ==
  /\ \A x \in Nat : At(x, 0) = x
  /\ 0 \in Unit /\ 0 \in Level /\ Unit \subseteq Nat
  /\ \A x \in Unit : At(x, Top) = 0
<1>1. Pow2[0] = 1 /\ Pow2[Top] \in Nat \ {0} /\ 0 \in Level /\ Top \in Level
  BY PowIs, LevelsAre DEF Level
<1>2. 0 \in Unit /\ Unit \subseteq Nat
  BY <1>1 DEF Unit
<1>3. \A x \in Nat : At(x, 0) = x
  <2>1. ASSUME NEW x \in Nat PROVE At(x, 0) = x
    <3>1. At(x, 0) \in Nat /\ At(x, 0) <= x /\ x < At(x, 0) + 1
      BY <1>1, AtIs
    <3>. QED  BY <3>1
  <2>. QED  BY <2>1
<1>4. ASSUME NEW x \in Unit PROVE At(x, Top) = 0
  <2>1. At(0, Top) \in Nat /\ At(0, Top) <= 0
    BY <1>1, AtIs
  <2>2. At(0, Top) = 0
    BY <2>1
  <2>3. x \in Nat /\ 0 <= x /\ x < 0 + Pow2[Top]
    BY <1>1 DEF Unit
  <2>. QED  BY <1>1, <2>2, <2>3, AtOf
<1>. QED  BY <1>1, <1>2, <1>3, <1>4

\* Where a block of a level begins, one of the next level does, or its buddy.
LEMMA HalfOf ==
  ASSUME NEW x \in Nat, NEW l \in Level, l # Top
  PROVE  At(x, l + 1) = IF UpperHalf(At(x, l), l) THEN At(x, l) - Pow2[l] ELSE At(x, l)
<1>1. Pow2[l] \in Nat \ {0} /\ Pow2[l + 1] = 2 * Pow2[l] /\ Pow2[l + 1] \in Nat
  BY PowIs, LevelsAre
<1>2. PICK P \in Nat \ {0}, D \in Nat : P = Pow2[l] /\ D = Pow2[l + 1] /\ D = 2 * P
  BY <1>1
<1>3. PICK q \in Nat, r \in 0 .. P - 1 : x = q * P + r /\ At(x, l) = q * P
  BY <1>2, AtIs
<1>4. x - (x % D) = IF q % 2 = 1 THEN q * P - P ELSE q * P
  <2>1. Halves(x, q, r, P, D)
    BY Halving
  <2>. QED  BY <1>2, <1>3, <2>1 DEF Halves
<1>5. UpperHalf(At(x, l), l) <=> q % 2 = 1
  <2>1. 0 \in 0 .. P - 1 /\ q * P + 0 = q * P
    OBVIOUS
  <2>2. (q * P + 0) \div P = q
    BY <2>1, QuotientIs
  <2>3. (q * P) \div P = q
    BY <2>1, <2>2
  <2>. QED  BY <1>2, <1>3, <2>3 DEF UpperHalf
<1>6. At(x, l + 1) = x - (x % D)
  BY <1>2 DEF At
<1>. QED  BY <1>2, <1>3, <1>4, <1>5, <1>6

\* What is in the same block of a level is in the same block of every higher one.
LEMMA Nested ==
  ASSUME NEW x \in Nat, NEW y \in Nat, NEW l \in Level, NEW m \in Level, l <= m,
         At(x, l) = At(y, l)
  PROVE  At(x, m) = At(y, m)
<1>. DEFINE T == {d \in Nat : l + d \in Level => At(x, l + d) = At(y, l + d)}
<1>1. 0 \in T
  BY LevelsAre
<1>2. ASSUME NEW d \in Nat, d \in T PROVE d + 1 \in T
  <2>. SUFFICES ASSUME l + (d + 1) \in Level PROVE At(x, l + (d + 1)) = At(y, l + (d + 1))
    OBVIOUS
  <2>1. PICK k \in Level : k = l + d /\ k # Top /\ l + (d + 1) = k + 1
    BY LevelsAre DEF Level, Top
  <2>2. At(x, k) = At(y, k)
    BY <1>2, <2>1
  <2>3. At(x, k + 1) = At(y, k + 1)
    BY <2>1, <2>2, HalfOf
  <2>. QED  BY <2>1, <2>3
<1>3. Nat \subseteq T
  <2>. HIDE DEF T
  <2>. QED  BY <1>1, <1>2, NatSetInduction
<1>4. PICK d \in Nat : m = l + d
  <2>1. m - l \in Nat /\ m = l + (m - l)
    BY LevelsAre
  <2>. QED  BY <2>1
<1>. QED  BY <1>3, <1>4

\* A place where a block begins is one where smaller ones do.
LEMMA BeginsLower ==
  ASSUME NEW x \in Nat, NEW l \in Level, NEW m \in Level, l <= m
  PROVE  /\ At(x, m) = x => At(x, l) = x
         /\ At(At(x, l), m) = At(x, m)
         /\ At(At(x, m), l) = At(x, m)
         /\ At(x, l) \in Nat /\ At(x, m) \in Nat
<1>1. \A y \in Nat : At(y, l) \in Nat /\ At(y, l) <= y /\ At(At(y, l), l) = At(y, l)
  BY AtIs, AtOf
<1>2. \A y \in Nat : At(y, m) \in Nat /\ At(y, m) <= y /\ At(At(y, m), m) = At(y, m)
  BY AtIs, AtOf
<1>3. \A y \in Nat : At(At(y, l), m) = At(y, m)
  BY <1>1, Nested
<1>4. ASSUME NEW y \in Nat, At(y, m) = y PROVE At(y, l) = y
  <2>1. At(y, l) \in Nat /\ At(y, l) <= y /\ At(At(y, l), m) = y /\ At(At(y, l), m) <= At(y, l)
    BY <1>1, <1>2, <1>3, <1>4
  <2>. QED  BY <2>1
<1>. QED  BY <1>1, <1>2, <1>3, <1>4

\* Two blocks of a level that have the same block of the next level are the same or
\* buddies; a block has one buddy, whose buddy it is.
LEMMA HalvesOf ==
  ASSUME NEW c \in Unit, NEW l \in Level, l # Top, At(c, l) = c
  PROVE  LET t == BuddyOf(c, l) IN
         /\ t \in Unit /\ t # c /\ At(t, l) = t /\ BuddyOf(t, l) = c
         /\ At(t, l + 1) = At(c, l + 1)
         /\ \A x \in Unit : At(x, l + 1) = At(c, l + 1) => At(x, l) \in {c, t}
<1>1. Pow2[l] \in Nat \ {0} /\ Pow2[l + 1] = 2 * Pow2[l] /\ c \in Nat /\ l + 1 \in Level
  BY PowIs, LevelsAre, AtEnds
<1>2. PICK P \in Nat \ {0}, D \in Nat : P = Pow2[l] /\ D = Pow2[l + 1] /\ D = 2 * P
  BY <1>1
<1>. DEFINE e == At(c, l + 1)
<1>3. e \in Nat /\ e <= c /\ c < e + D /\ At(e, l + 1) = e /\ At(e, l) = e
  <2>1. e \in Nat /\ e <= c /\ c < e + Pow2[l + 1]
    BY <1>1, AtIs
  <2>2. At(e, l + 1) = e
    BY <1>1, AtOf
  <2>3. l <= l + 1
    BY LevelsAre
  <2>4. At(e, l) = e
    BY <1>1, <2>1, <2>2, <2>3, BeginsLower
  <2>. QED  BY <1>2, <2>1, <2>2, <2>4
<1>4. e = IF UpperHalf(c, l) THEN c - P ELSE c
  BY <1>1, <1>2, HalfOf
<1>. HIDE DEF e
\* The halves of the block at e.
<1>5. PICK d \in Nat : d = e + P /\ d # e /\ d + P = e + D /\ d - P = e
  <2>1. PICK d \in Nat : d = e + P
    BY <1>2, <1>3
  <2>2. d # e /\ d + P = e + D /\ d - P = e
    BY <1>2, <1>3, <2>1
  <2>. QED  BY <2>1, <2>2
<1>6. At(d, l) = d /\ At(d, l + 1) = e
  <2>1. PICK q \in Nat : e = q * P
    BY <1>1, <1>2, <1>3, AtIs
  <2>2. PICK k \in Nat : k = q + 1
    OBVIOUS
  <2>3. d = k * P + 0 /\ 0 \in 0 .. P - 1 /\ d = k * P
    BY <1>5, <2>1, <2>2
  <2>4. (k * P + 0) - ((k * P + 0) % P) = k * P
    BY <2>3, QuotientIs
  <2>5. At(d, l) = d
    BY <1>2, <2>3, <2>4 DEF At
  <2>6. e <= d /\ d < e + D
    BY <1>2, <1>3, <1>5
  <2>7. At(d, l + 1) = e
    BY <1>1, <1>2, <1>3, <2>6, AtOf
  <2>. QED  BY <2>5, <2>7
<1>7. ~ UpperHalf(e, l)
  <2>1. At(e, l + 1) = IF UpperHalf(At(e, l), l) THEN At(e, l) - Pow2[l] ELSE At(e, l)
    BY <1>1, <1>3, HalfOf
  <2>. QED  BY <1>2, <1>3, <2>1
<1>8. UpperHalf(d, l)
  <2>1. At(d, l + 1) = IF UpperHalf(At(d, l), l) THEN At(d, l) - Pow2[l] ELSE At(d, l)
    BY <1>1, HalfOf
  <2>. QED  BY <1>5, <1>6, <2>1
<1>9. BuddyOf(e, l) = d /\ BuddyOf(d, l) = e
  BY <1>2, <1>5, <1>7, <1>8 DEF BuddyOf
<1>10. c = e \/ c = d
  BY <1>1, <1>2, <1>4, <1>5
<1>11. ASSUME NEW x \in Nat, At(x, l + 1) = e PROVE At(x, l) \in {e, d}
  <2>1. e <= x /\ x < e + D
    BY <1>1, <1>2, <1>3, <1>11, AtIs
  <2>2. CASE x < d
    BY <1>1, <1>2, <1>3, <1>5, <2>1, <2>2, AtOf
  <2>3. CASE x >= d
    <3>1. d <= x /\ x < d + P
      BY <1>2, <1>3, <1>5, <2>1, <2>3
    <3>2. At(x, l) = d
      BY <1>2, <1>6, <3>1, AtOf
    <3>. QED  BY <3>2
  <2>. QED  BY <2>2, <2>3
\* Both are in the heap, since the whole is.
<1>12. e \in Unit /\ d \in Unit
  <2>1. At(d, Top) = 0
    <3>1. At(c, Top) = 0
      BY AtEnds
    <3>2. At(d, l + 1) = At(c, l + 1) /\ l + 1 <= Top
      BY <1>6, LevelsAre DEF e
    <3>. QED  BY <1>1, <3>1, <3>2, Nested, LevelsAre
  <2>2. d < 0 + Pow2[Top]
    BY <2>1, AtIs, LevelsAre
  <2>. QED  BY <1>2, <1>3, <1>5, <2>2, PowIs, LevelsAre DEF Unit
<1>13. \A x \in Unit : x \in Nat
  BY AtEnds
<1>. QED  BY <1>3, <1>5, <1>6, <1>9, <1>10, <1>11, <1>12, <1>13 DEF e

-----------------------------------------------------------------------------
(***************************************************************************)
(* What the invariant says.                                                *)
(***************************************************************************)
\* Where blocks are, and how they are named.
LEMMA BlocksAre ==
  ASSUME IInv
  PROVE  /\ Blocks \subseteq Unit /\ inUse \subseteq Unit /\ FreeOnes \subseteq Unit
         /\ \A b \in Unit : b \in Nat /\ level[b] \in Level /\ free[b] \in {0, 1}
         /\ \A l \in Level : /\ levelsList[l] \in Seq(Unit) /\ Distinct(levelsList[l])
                             /\ Range(levelsList[l]) = {u \in FreeOnes : level[u] = l}
         /\ FreeBlocks = FreeOnes
         /\ \A b \in inUse : b \notin FreeOnes
<1>1. /\ level \in [Unit -> Level] /\ free \in [Unit -> {0, 1}]
      /\ levelsList \in [Level -> Seq(Unit)] /\ inUse \subseteq Unit
  BY DEF IInv, TypeOK
<1>2. \A l \in Level : Range(levelsList[l]) = {u \in FreeOnes : level[u] = l}
  BY DEF IInv, Listed
<1>3. FreeOnes \subseteq Unit /\ \A u \in Unit : u \in Nat
  BY AtEnds DEF FreeOnes
<1>4. FreeBlocks = FreeOnes
  BY <1>1, <1>2, <1>3 DEF FreeBlocks
<1>5. \A b \in inUse : b \notin FreeOnes
  BY DEF IInv, FreeOnes
<1>. QED  BY <1>1, <1>2, <1>3, <1>4, <1>5 DEF IInv, Listed, Blocks

\* The units of a block are those that are in it.
LEMMA ExtentIs ==
  ASSUME IInv, NEW b \in Blocks
  PROVE  /\ \A u \in Unit : u \in Extent(b) <=> In(u, b)
         /\ Extent(b) \subseteq Unit /\ b \in Extent(b)
<1>1. b \in Unit /\ b \in Nat /\ level[b] \in Level /\ At(b, level[b]) = b
  BY BlocksAre DEF IInv, Aligned, In
<1>2. Pow2[level[b]] \in Nat \ {0}
  BY <1>1, PowIs, LevelsAre
<1>3. PICK l \in Level, P \in Nat \ {0} : l = level[b] /\ P = Pow2[l]
  BY <1>1, <1>2
<1>4. \A u \in Nat : At(u, l) = b <=> b <= u /\ u < b + P
  BY <1>1, <1>3, AtOf
<1>5. \A u \in Unit : u \in Extent(b) <=> In(u, b)
  <2>1. \A u \in Unit : u \in Nat
    BY AtEnds
  <2>2. \A u \in Nat : u \in b .. b + P - 1 <=> b <= u /\ u < b + P
    BY <1>1, <1>3
  <2>. QED  BY <1>3, <1>4, <2>1, <2>2 DEF Extent, In
<1>6. ASSUME NEW u \in Extent(b) PROVE u \in Unit
  <2>1. u \in Nat /\ b <= u /\ u < b + P
    BY <1>1, <1>3, <1>6 DEF Extent
  <2>2. At(u, l) = At(b, l)
    BY <1>1, <1>3, <1>4, <2>1
  <2>3. At(u, Top) = At(b, Top)
    BY <1>1, <2>1, <2>2, Nested, LevelsAre
  <2>4. At(u, Top) = 0
    BY <1>1, <2>3, AtEnds
  <2>5. u < 0 + Pow2[Top]
    BY <2>1, <2>4, AtIs, LevelsAre
  <2>. QED  BY <2>1, <2>5, PowIs, LevelsAre DEF Unit
<1>7. b \in Extent(b)
  BY <1>1, <1>3 DEF Extent
<1>. QED  BY <1>5, <1>6, <1>7

\* The heap is tiled.
LEMMA InvariantTiles == IInv => HeapIsTiled
<1>. SUFFICES ASSUME IInv PROVE HeapIsTiled
  OBVIOUS
<1>1. FreeBlocks \cup inUse = Blocks
  BY BlocksAre DEF Blocks
<1>2. ASSUME NEW u \in Unit PROVE Cardinality({b \in Blocks : u \in Extent(b)}) = 1
  <2>1. PICK b \in Blocks : In(u, b)
    BY DEF IInv, Covered
  <2>2. {c \in Blocks : u \in Extent(c)} = {b}
    BY <2>1, ExtentIs DEF IInv, Apart
  <2>. QED  BY <2>2, FS_Singleton
<1>3. ASSUME NEW b \in Blocks PROVE b % Pow2[level[b]] = 0
  <2>1. b \in Nat /\ level[b] \in Level /\ b - (b % Pow2[level[b]]) = b
    BY BlocksAre DEF IInv, Aligned, In, At
  <2>2. Pow2[level[b]] \in Nat \ {0}
    BY <2>1, PowIs, LevelsAre
  <2>3. b % Pow2[level[b]] \in Nat
    BY <2>1, <2>2, Quotient
  <2>. QED  BY <2>1, <2>3
<1>. QED  BY <1>1, <1>2, <1>3 DEF HeapIsTiled

\* Headers and lists agree.
LEMMA InvariantLists == IInv => HeadersMatchLists
<1>. SUFFICES ASSUME IInv PROVE HeadersMatchLists
  OBVIOUS
<1>1. ASSUME NEW l \in Level, NEW i \in DOMAIN levelsList[l]
      PROVE  LET u == levelsList[l][i] IN
             /\ level[u] = l /\ free[u] = 1 /\ u \notin inUse
             /\ \A j \in DOMAIN levelsList[l] : levelsList[l][j] = u => i = j
  <2>1. levelsList[l][i] \in Range(levelsList[l])
    BY DEF Range
  <2>. QED  BY <2>1, BlocksAre DEF FreeOnes, Distinct
<1>2. \A u \in Unit : free[u] = 1 => u \in FreeBlocks
  BY BlocksAre DEF FreeOnes
<1>. QED  BY <1>1, <1>2 DEF HeadersMatchLists, IInv

\* Where no unit is in use, a free block is at least as large: the smallest of the free
\* blocks there has a buddy there, which is free too, and neither smaller nor larger.
LEMMA FreeRegion ==
  ASSUME IInv, NEW l \in Level, NEW a \in Unit, At(a, l) = a,
         \A u \in Unit : At(u, l) = a => \A b \in inUse : ~In(u, b)
  PROVE  \E d \in FreeOnes : level[d] >= l
<1>. SUFFICES ASSUME \A d \in FreeOnes : ~(level[d] >= l) PROVE FALSE
  OBVIOUS
<1>1. /\ \A b \in Unit : b \in Nat /\ level[b] \in Level
      /\ FreeOnes \subseteq Unit /\ Blocks = inUse \cup FreeOnes
  BY BlocksAre DEF Blocks
<1>2. \A d \in FreeOnes : level[d] \in Level /\ level[d] \in Nat /\ level[d] < l
  <2>1. ASSUME NEW d \in FreeOnes PROVE level[d] \in Level /\ level[d] \in Nat /\ level[d] < l
    <3>1. level[d] \in Level
      BY <1>1
    <3>2. level[d] \in Nat /\ l \in Nat /\ ~(level[d] >= l)
      BY <3>1, LevelsAre
    <3>. QED  BY <3>1, <3>2
  <2>. QED  BY <2>1
\* A unit of the region is in a free block, which begins in the region.
<1>3. ASSUME NEW u \in Unit, At(u, l) = a
      PROVE  \E d \in FreeOnes : In(u, d) /\ At(d, l) = a
  <2>1. PICK d \in FreeOnes : In(u, d)
    BY <1>1, <1>3 DEF IInv, Covered
  <2>2. level[d] \in Level /\ level[d] \in Nat /\ level[d] < l /\ u \in Nat /\ l \in Nat
    BY <1>1, <1>2, <2>1, LevelsAre
  <2>3. At(At(u, level[d]), l) = At(u, l)
    BY <2>2, BeginsLower
  <2>. QED  BY <1>3, <2>1, <2>3 DEF In
<1>. DEFINE T == {k \in Nat : \E d \in FreeOnes : level[d] = k /\ At(d, l) = a}
<1>4. T # {} /\ T \in SUBSET Nat
  <2>1. PICK d \in FreeOnes : At(d, l) = a
    BY <1>3
  <2>2. level[d] \in T
    BY <1>1, <2>1, LevelsAre
  <2>. QED  BY <2>2
<1>5. PICK k \in T : \A n \in T : k <= n
  <2>. HIDE DEF T
  <2>. QED  BY <1>4, LeastNatural
<1>6. PICK d \in FreeOnes : level[d] = k /\ At(d, l) = a
  OBVIOUS
<1>7. d \in Unit /\ d \in Nat /\ k \in Level /\ k < l /\ k # Top /\ At(d, k) = d /\ k + 1 \in Level
      /\ k + 1 <= l
  <2>1. d \in Unit /\ d \in Nat /\ k \in Level /\ k < l
    BY <1>1, <1>2, <1>6
  <2>2. In(d, d)
    BY <1>1 DEF IInv, Aligned
  <2>. QED  BY <1>6, <2>1, <2>2, LevelsAre DEF In
<1>. DEFINE e == BuddyOf(d, k)
<1>8. e \in Unit /\ e # d /\ At(e, k) = e /\ At(e, k + 1) = At(d, k + 1)
  BY <1>7, HalvesOf
<1>. HIDE DEF e
<1>9. e \in Nat /\ At(e, l) = a
  BY <1>1, <1>6, <1>7, <1>8, Nested
<1>10. PICK f \in FreeOnes : In(e, f) /\ At(f, l) = a
  BY <1>3, <1>8, <1>9
<1>11. level[f] \in T /\ level[f] \in Level /\ f \in Unit
  BY <1>1, <1>10, LevelsAre
<1>12. k <= level[f]
  <2>. HIDE DEF T
  <2>. QED  BY <1>5, <1>11
<1>13. CASE level[f] = k
  <2>1. f = e
    BY <1>8, <1>10, <1>13 DEF In
  <2>. QED  BY <1>6, <1>7, <1>10, <1>13, <2>1 DEF IInv, Joined, e
<1>14. CASE level[f] # k
  <2>1. k + 1 <= level[f]
    BY <1>7, <1>11, <1>12, <1>14, LevelsAre
  <2>2. At(e, level[f]) = At(d, level[f])
    BY <1>7, <1>8, <1>9, <1>11, <2>1, Nested
  <2>3. In(d, f) /\ In(d, d)
    BY <1>6, <1>7, <1>10, <2>2 DEF In
  <2>4. f = d
    BY <1>1, <1>7, <2>3 DEF IInv, Apart
  <2>. QED  BY <1>6, <1>14, <2>4
<1>. QED  BY <1>13, <1>14

\* A block that is there is on the list of its level.
LEMMA InvariantHidesNone == IInv => NoHiddenBlock
<1>. SUFFICES ASSUME IInv, NEW l \in Level, NEW a \in Unit, a % Pow2[l] = 0,
                     \A b \in inUse : Extent(b) \cap (a .. a + Pow2[l] - 1) = {}
              PROVE  Available(l) # {}
  BY DEF NoHiddenBlock
<1>1. a \in Nat /\ Pow2[l] \in Nat \ {0}
  BY AtEnds, PowIs, LevelsAre
<1>2. At(a, l) = a
  BY <1>1 DEF At
<1>3. ASSUME NEW u \in Unit, At(u, l) = a, NEW b \in inUse, In(u, b) PROVE FALSE
  <2>1. u \in Nat /\ a <= u /\ u < a + Pow2[l]
    BY <1>1, <1>3, AtIs, AtEnds
  <2>2. u \in a .. a + Pow2[l] - 1
    BY <1>1, <2>1
  <2>3. u \in Extent(b)
    BY <1>3, ExtentIs DEF Blocks
  <2>. QED  BY <2>2, <2>3
<1>4. PICK d \in FreeOnes : level[d] >= l
  BY <1>2, <1>3, FreeRegion
<1>5. level[d] \in Level /\ d \in Range(levelsList[level[d]])
  BY BlocksAre
<1>6. levelsList[level[d]] # <<>>
  BY <1>5 DEF Range
<1>. QED  BY <1>4, <1>5, <1>6 DEF Available

-----------------------------------------------------------------------------
(***************************************************************************)
(* The lists.                                                              *)
(***************************************************************************)
\* listPop takes the last block that came.
LEMMA PopIs ==
  ASSUME NEW S, NEW s \in Seq(S), s # <<>>, Distinct(s)
  PROVE  LET rest == SubSeq(s, 1, Len(s) - 1) IN
         /\ s[Len(s)] \in Range(s) /\ rest \in Seq(S) /\ Distinct(rest)
         /\ Range(rest) = Range(s) \ {s[Len(s)]}
<1>. DEFINE rest == SubSeq(s, 1, Len(s) - 1)
<1>1. Len(s) \in Nat /\ Len(s) >= 1 /\ DOMAIN s = 1 .. Len(s)
  OBVIOUS
<1>2. rest \in Seq(S) /\ DOMAIN rest = 1 .. Len(s) - 1 /\ \A i \in 1 .. Len(s) - 1 : rest[i] = s[i]
  BY <1>1
<1>. HIDE DEF rest
<1>3. s[Len(s)] \in Range(s)
  BY <1>1 DEF Range
<1>4. Distinct(rest)
  BY <1>1, <1>2 DEF Distinct
<1>5. ASSUME NEW y \in Range(rest) PROVE y \in Range(s) /\ y # s[Len(s)]
  <2>1. PICK i \in 1 .. Len(s) - 1 : y = s[i]
    BY <1>2, <1>5 DEF Range
  <2>. QED  BY <1>1, <2>1 DEF Range, Distinct
<1>6. ASSUME NEW y \in Range(s), y # s[Len(s)] PROVE y \in Range(rest)
  <2>1. PICK i \in 1 .. Len(s) : y = s[i]
    BY <1>1 DEF Range
  <2>2. i \in 1 .. Len(s) - 1
    BY <1>1, <1>6, <2>1
  <2>. QED  BY <1>2, <2>1, <2>2 DEF Range
<1>. QED  BY <1>2, <1>3, <1>4, <1>5, <1>6 DEF rest

\* listRemove takes the block it is told to.
LEMMA WithoutIs ==
  ASSUME NEW S, NEW s \in Seq(S), Distinct(s), NEW u \in Range(s)
  PROVE  /\ Without(s, u) \in Seq(S) /\ Distinct(Without(s, u))
         /\ Range(Without(s, u)) = Range(s) \ {u}
<1>1. Len(s) \in Nat /\ DOMAIN s = 1 .. Len(s)
  OBVIOUS
<1>2. \E i \in DOMAIN s : s[i] = u
  BY DEF Range
<1>3. PICK i \in 1 .. Len(s) : s[i] = u /\ Without(s, u) = SubSeq(s, 1, i - 1) \o SubSeq(s, i + 1, Len(s))
  BY <1>1, <1>2 DEF Without
<1>. DEFINE p == SubSeq(s, 1, i - 1)
            q == SubSeq(s, i + 1, Len(s))
<1>4. p \in Seq(S) /\ Len(p) = i - 1 /\ \A k \in 1 .. i - 1 : p[k] = s[k]
  BY <1>1
<1>5. q \in Seq(S) /\ Len(q) = Len(s) - i /\ \A k \in 1 .. Len(s) - i : q[k] = s[i + k]
  <2>1. \A k \in i + 1 .. Len(s) : s[k] \in S
    BY <1>1
  <2>2. /\ q \in Seq(S) /\ Len(q) = IF i + 1 <= Len(s) THEN Len(s) - (i + 1) + 1 ELSE 0
        /\ \A k \in 1 .. Len(s) - (i + 1) + 1 : q[k] = s[i + 1 + k - 1]
    BY <1>1, <2>1, SubSeqProperties
  <2>. HIDE DEF q
  <2>3. Len(q) = Len(s) - i
    <3>1. PICK n \in Nat : n = Len(s) /\ i \in 1 .. n
      BY <1>1
    <3>2. (IF i + 1 <= n THEN n - (i + 1) + 1 ELSE 0) = n - i
      BY <3>1
    <3>3. Len(q) = IF i + 1 <= n THEN n - (i + 1) + 1 ELSE 0
      BY <2>2, <3>1, Zenon
    <3>. QED  BY <3>1, <3>2, <3>3
  <2>4. ASSUME NEW k \in 1 .. Len(s) - i PROVE q[k] = s[i + k]
    <3>1. k \in 1 .. Len(s) - (i + 1) + 1 /\ i + 1 + k - 1 = i + k
      BY <1>1
    <3>. QED  BY <2>2, <3>1
  <2>. QED  BY <2>2, <2>3, <2>4
<1>. HIDE DEF p, q
<1>. DEFINE r == p \o q
<1>6. r \in Seq(S) /\ Len(r) = Len(s) - 1
  <2>1. r \in Seq(S) /\ Len(r) = Len(p) + Len(q)
    BY <1>4, <1>5, ConcatProperties
  <2>. QED  BY <1>1, <1>4, <1>5, <2>1
<1>7. \A k \in 1 .. Len(s) - 1 : r[k] = IF k < i THEN s[k] ELSE s[k + 1]
  <2>1. ASSUME NEW k \in 1 .. Len(s) - 1 PROVE r[k] = IF k < i THEN s[k] ELSE s[k + 1]
    <3>1. CASE k < i
      <4>1. k \in 1 .. i - 1 /\ k <= Len(p)
        BY <1>1, <1>4, <3>1
      <4>2. r[k] = p[k]
        BY <1>4, <1>5, <4>1
      <4>. QED  BY <1>4, <3>1, <4>1, <4>2
    <3>2. CASE ~(k < i)
      <4>1. k - (i - 1) \in 1 .. Len(s) - i /\ k > Len(p) /\ k <= Len(p) + Len(q)
            /\ i + (k - (i - 1)) = k + 1
        BY <1>1, <1>4, <1>5, <3>2
      <4>2. r[k] = q[k - (i - 1)]
        BY <1>4, <1>5, <4>1
      <4>3. q[k - (i - 1)] = s[i + (k - (i - 1))]
        BY <1>5, <4>1
      <4>. QED  BY <3>2, <4>1, <4>2, <4>3
    <3>. QED  BY <3>1, <3>2
  <2>. QED  BY <2>1
<1>. HIDE DEF r
<1>8. DOMAIN r = 1 .. Len(s) - 1
  BY <1>6
<1>9. Distinct(r)
  BY <1>1, <1>7, <1>8 DEF Distinct
<1>10. ASSUME NEW y \in Range(r) PROVE y \in Range(s) /\ y # u
  <2>1. PICK k \in 1 .. Len(s) - 1 : y = r[k]
    BY <1>8, <1>10 DEF Range
  <2>2. PICK j \in 1 .. Len(s) : y = s[j] /\ j # i
    BY <1>1, <1>7, <2>1
  <2>. QED  BY <1>1, <1>3, <2>2 DEF Range, Distinct
<1>11. ASSUME NEW y \in Range(s), y # u PROVE y \in Range(r)
  <2>1. PICK j \in 1 .. Len(s) : y = s[j] /\ j # i
    BY <1>1, <1>3, <1>11 DEF Range
  <2>2. CASE j < i
    <3>1. j \in 1 .. Len(s) - 1 /\ r[j] = y
      BY <1>1, <1>7, <2>1, <2>2
    <3>. QED  BY <1>8, <3>1 DEF Range
  <2>3. CASE ~(j < i)
    <3>1. j - 1 \in 1 .. Len(s) - 1 /\ ~(j - 1 < i) /\ j - 1 + 1 = j
      BY <1>1, <2>1, <2>3
    <3>2. r[j - 1] = y
      BY <1>7, <2>1, <3>1
    <3>. QED  BY <1>8, <3>1, <3>2 DEF Range
  <2>. QED  BY <2>2, <2>3
<1>. QED  BY <1>3, <1>6, <1>9, <1>10, <1>11 DEF p, q, r

-----------------------------------------------------------------------------
(***************************************************************************)
(* Splitting and joining.  The block at c of level L, and the buddy on     *)
(* each level from L to T - 1 of the block that c is in, are together the  *)
(* block of level T that c is in: mallocCust makes the family out of the   *)
(* block, freeCust the block out of the family.                            *)
(***************************************************************************)
Sib(c, k) == BuddyOf(At(c, k), k)
Family(c, L, T) == {c} \cup {Sib(c, k) : k \in L .. T - 1}

\* g gives each of them its level.
Levelled(g, c, L, T) == g[c] = L /\ \A k \in L .. T - 1 : g[Sib(c, k)] = k

\* A buddy is next to the block it is the buddy of, and in the same block of a higher level.
LEMMA SibIs ==
  ASSUME NEW c \in Unit, NEW k \in Level, NEW T \in Level, k < T
  PROVE  /\ k # Top /\ At(c, k) \in Unit /\ Sib(c, k) \in Unit /\ At(Sib(c, k), k) = Sib(c, k)
         /\ Sib(c, k) # At(c, k) /\ BuddyOf(Sib(c, k), k) = At(c, k)
         /\ \A u \in Unit : At(u, k) = Sib(c, k) =>
              \A m \in Level : k < m => At(u, m) = At(c, m)
         /\ \A u \in Unit : At(u, k + 1) = At(c, k + 1) => At(u, k) \in {At(c, k), Sib(c, k)}
<1>1. k # Top /\ k \in Nat /\ c \in Nat /\ k + 1 \in Level
  BY LevelsAre, AtEnds
<1>2. At(c, k) \in Unit /\ At(At(c, k), k) = At(c, k) /\ At(At(c, k), k + 1) = At(c, k + 1)
  <2>1. At(c, k) \in Nat /\ At(c, k) <= c
    BY <1>1, AtIs
  <2>2. At(c, k) \in Unit
    BY <1>1, <2>1, PowIs, LevelsAre DEF Unit
  <2>3. At(At(c, k), k) = At(c, k)
    BY <1>1, AtOf
  <2>. QED  BY <1>1, <2>2, <2>3, BeginsLower, LevelsAre
<1>3. /\ Sib(c, k) \in Unit /\ Sib(c, k) # At(c, k) /\ At(Sib(c, k), k) = Sib(c, k)
      /\ BuddyOf(Sib(c, k), k) = At(c, k) /\ At(Sib(c, k), k + 1) = At(c, k + 1)
      /\ \A u \in Unit : At(u, k + 1) = At(c, k + 1) => At(u, k) \in {At(c, k), Sib(c, k)}
  BY <1>1, <1>2, HalvesOf DEF Sib
<1>4. ASSUME NEW u \in Unit, At(u, k) = Sib(c, k), NEW m \in Level, k < m
      PROVE  At(u, m) = At(c, m)
  <2>1. u \in Nat /\ Sib(c, k) \in Nat /\ k <= k + 1 /\ k + 1 <= m
    <3>1. u \in Nat /\ Sib(c, k) \in Nat /\ m \in Nat
      BY <1>3, AtEnds, LevelsAre
    <3>. QED  BY <1>1, <1>4, <3>1
  <2>2. At(u, k + 1) = At(c, k + 1)
    BY <1>1, <1>3, <1>4, <2>1, Nested
  <2>. QED  BY <1>1, <2>1, <2>2, Nested
<1>. QED  BY <1>1, <1>2, <1>3, <1>4

\* A unit is in the block if it is in one of the family, and then in one only.
LEMMA FamilyIs ==
  ASSUME NEW c \in Unit, NEW L \in Level, NEW T \in Level, L <= T, At(c, L) = c,
         NEW g, Levelled(g, c, L, T)
  PROVE  /\ At(c, T) \in Family(c, L, T) /\ At(At(c, T), T) = At(c, T)
         /\ \A b \in Family(c, L, T) :
              /\ b \in Unit /\ g[b] \in Level /\ L <= g[b] /\ At(b, g[b]) = b
              /\ (b = c /\ g[b] = L) \/ (b # c /\ g[b] < T /\ b = Sib(c, g[b]))
         /\ \A u \in Unit, b \in Family(c, L, T) : At(u, g[b]) = b => At(u, T) = At(c, T)
         /\ \A u \in Unit : At(u, T) = At(c, T) => \E b \in Family(c, L, T) : At(u, g[b]) = b
         /\ \A u \in Unit, a, b \in Family(c, L, T) :
              At(u, g[a]) = a /\ At(u, g[b]) = b => a = b
<1>. DEFINE F == Family(c, L, T)
<1>1. /\ c \in Nat /\ L \in Nat /\ T \in Nat /\ \A u \in Unit : u \in Nat
      /\ \A k \in L .. T - 1 : k \in Level /\ k < T /\ k + 1 \in Level /\ L <= k
  BY AtEnds, LevelsAre DEF Level
<1>2. \A k \in L .. T - 1 :
        /\ At(c, k) \in Unit /\ Sib(c, k) \in Unit /\ At(Sib(c, k), k) = Sib(c, k)
        /\ Sib(c, k) # At(c, k)
        /\ \A u \in Unit : At(u, k) = Sib(c, k) =>
             \A m \in Level : k < m => At(u, m) = At(c, m)
        /\ \A u \in Unit : At(u, k + 1) = At(c, k + 1) => At(u, k) \in {At(c, k), Sib(c, k)}
  BY <1>1, SibIs
<1>3. \A u \in Unit : At(u, L) = c => \A m \in Level : L <= m => At(u, m) = At(c, m)
  BY <1>1, Nested
<1>4. \A k \in L .. T - 1 : Sib(c, k) # c
  <2>1. ASSUME NEW k \in L .. T - 1, Sib(c, k) = c PROVE FALSE
    BY <1>2, <2>1
  <2>. QED  BY <2>1
<1>5. ASSUME NEW b \in F
      PROVE  /\ b \in Unit /\ g[b] \in Level /\ L <= g[b] /\ At(b, g[b]) = b
             /\ (b = c /\ g[b] = L) \/ (b # c /\ g[b] \in L .. T - 1 /\ b = Sib(c, g[b]))
  <2>1. CASE b = c
    BY <1>1, <2>1 DEF Levelled
  <2>2. CASE b # c
    <3>1. PICK k \in L .. T - 1 : b = Sib(c, k)
      BY <1>5, <2>2 DEF Family
    <3>2. g[b] = k
      BY <3>1 DEF Levelled
    <3>. QED  BY <1>1, <1>2, <2>2, <3>1, <3>2
  <2>. QED  BY <2>1, <2>2
<1>6. ASSUME NEW u \in Unit, NEW b \in F, At(u, g[b]) = b PROVE At(u, T) = At(c, T)
  BY <1>1, <1>2, <1>3, <1>5, <1>6
<1>7. ASSUME NEW u \in Unit, At(u, T) = At(c, T) PROVE \E b \in F : At(u, g[b]) = b
  <2>. DEFINE S == {k \in L .. T : At(u, k) = At(c, k)}
  <2>1. S \in SUBSET Nat /\ S # {} /\ T \in S
    BY <1>1, <1>7
  <2>2. PICK k \in S : \A n \in S : k <= n
    <3>. HIDE DEF S
    <3>. QED  BY <2>1, LeastNatural
  <2>3. CASE k = L
    <3>1. At(u, g[c]) = c /\ c \in F
      BY <2>3 DEF Levelled, Family
    <3>. QED  BY <3>1
  <2>4. CASE k # L
    <3>1. k - 1 \in L .. T - 1 /\ k - 1 + 1 = k /\ k - 1 \notin S
      BY <1>1, <2>2, <2>4
    <3>2. PICK j \in L .. T - 1 : j + 1 = k /\ j \notin S
      BY <3>1
    <3>3. At(u, j + 1) = At(c, j + 1) /\ At(u, j) # At(c, j)
      BY <1>1, <2>2, <3>2
    <3>4. At(u, j) = Sib(c, j)
      BY <1>2, <3>3
    <3>5. g[Sib(c, j)] = j /\ Sib(c, j) \in F
      BY DEF Levelled, Family
    <3>. QED  BY <3>4, <3>5
  <2>. QED  BY <2>3, <2>4
<1>8. ASSUME NEW u \in Unit, NEW k \in L .. T - 1, At(u, k) = Sib(c, k), NEW b \in F,
             At(u, g[b]) = b, ~(g[b] < k)
      PROVE  b = Sib(c, k)
  <2>1. CASE g[b] = k
    BY <1>8, <2>1
  <2>2. CASE g[b] # k
    <3>1. k < g[b]
      BY <1>1, <1>5, <1>8, <2>2, LevelsAre
    <3>2. At(u, g[b]) = At(c, g[b])
      BY <1>2, <1>5, <1>8, <3>1
    <3>3. b # c
      BY <1>1, <1>5, <3>1
    <3>4. g[b] \in L .. T - 1 /\ b = Sib(c, g[b])
      BY <1>5, <3>3
    <3>. QED  BY <1>2, <1>8, <3>2, <3>4
  <2>. QED  BY <2>1, <2>2
<1>9. ASSUME NEW u \in Unit, NEW b \in F, At(u, L) = c, At(u, g[b]) = b PROVE b = c
  BY <1>1, <1>2, <1>3, <1>5, <1>9
<1>10. ASSUME NEW u \in Unit, NEW a \in F, NEW b \in F, At(u, g[a]) = a, At(u, g[b]) = b
       PROVE  a = b
  <2>1. CASE a = c
    BY <1>5, <1>9, <1>10, <2>1
  <2>2. CASE b = c
    BY <1>5, <1>9, <1>10, <2>2
  <2>3. CASE a # c /\ b # c
    <3>1. g[a] \in L .. T - 1 /\ a = Sib(c, g[a]) /\ g[b] \in L .. T - 1 /\ b = Sib(c, g[b])
      BY <1>5, <2>3
    <3>2. CASE ~(g[b] < g[a])
      BY <1>8, <1>10, <3>1, <3>2
    <3>3. CASE ~(g[a] < g[b])
      BY <1>8, <1>10, <3>1, <3>3
    <3>. QED  BY <1>1, <3>1, <3>2, <3>3
  <2>. QED  BY <2>1, <2>2, <2>3
<1>11. At(At(c, T), T) = At(c, T) /\ At(c, T) \in Unit
  <2>1. At(c, T) \in Nat /\ At(c, T) <= c
    BY <1>1, AtIs
  <2>. QED  BY <1>1, <2>1, AtOf, PowIs, LevelsAre DEF Unit
<1>12. At(c, T) \in F
  <2>1. PICK b \in F : At(At(c, T), g[b]) = b
    BY <1>7, <1>11
  <2>2. g[b] \in Level /\ g[b] <= T
    BY <1>1, <1>5
  <2>3. At(At(c, T), g[b]) = At(c, T)
    BY <1>1, <2>2, BeginsLower
  <2>. QED  BY <2>1, <2>3
<1>13. \A b \in F : g[b] \in L .. T - 1 => g[b] < T
  BY <1>1
<1>. QED  BY <1>5, <1>6, <1>7, <1>10, <1>11, <1>12, <1>13

\* B are blocks, of the levels that g says, which tile the heap.
Tiled(g, B) ==
  /\ \A b \in B : b \in Unit /\ g[b] \in Level /\ At(b, g[b]) = b
  /\ \A u \in Unit : \E b \in B : At(u, g[b]) = b
  /\ \A u \in Unit, a, b \in B : At(u, g[a]) = a /\ At(u, g[b]) = b => a = b

\* C is B with the family in place of the block.
SplitInto(g, B, h, C, c, L, T) ==
  /\ Tiled(g, B) /\ At(c, L) = c
  /\ At(c, T) \in B /\ g[At(c, T)] = T /\ Levelled(h, c, L, T)
  /\ C = (B \ {At(c, T)}) \cup Family(c, L, T)
  /\ \A b \in C \ Family(c, L, T) : h[b] = g[b]

\* It tiles the heap, and none of the family was a block before.
LEMMA Splits ==
  ASSUME NEW c \in Unit, NEW L \in Level, NEW T \in Level, L <= T,
         NEW g, NEW B, NEW h, NEW C, SplitInto(g, B, h, C, c, L, T)
  PROVE  /\ Tiled(h, C)
         /\ \A b \in Family(c, L, T) \cap B : b = At(c, T)
<1>. DEFINE F == Family(c, L, T)
            n == At(c, T)
<1>1. /\ n \in F /\ At(n, T) = n
      /\ \A b \in F : b \in Unit /\ h[b] \in Level /\ At(b, h[b]) = b
      /\ \A u \in Unit, b \in F : At(u, h[b]) = b => At(u, T) = n
      /\ \A u \in Unit : At(u, T) = n => \E b \in F : At(u, h[b]) = b
      /\ \A u \in Unit, a, b \in F : At(u, h[a]) = a /\ At(u, h[b]) = b => a = b
  BY FamilyIs DEF SplitInto
<1>2. /\ \A b \in B : b \in Unit /\ g[b] \in Level /\ At(b, g[b]) = b
      /\ \A u \in Unit : \E b \in B : At(u, g[b]) = b
      /\ \A u \in Unit, a, b \in B : At(u, g[a]) = a /\ At(u, g[b]) = b => a = b
  BY DEF Tiled, SplitInto
<1>. HIDE DEF F, n
<1>3. n \in B /\ g[n] = T /\ C = (B \ {n}) \cup F /\ \A b \in C \ F : h[b] = g[b]
  BY DEF F, n, SplitInto
<1>4. \A b \in F \cap B : b = n
  BY <1>1, <1>2, <1>3
<1>5. \A b \in C : (b \in F /\ b \in C) \/ (b \in B /\ b # n /\ b \notin F /\ h[b] = g[b])
  BY <1>3, <1>4
<1>6. ASSUME NEW b \in C PROVE b \in Unit /\ h[b] \in Level /\ At(b, h[b]) = b
  BY <1>1, <1>2, <1>5
<1>7. ASSUME NEW u \in Unit PROVE \E b \in C : At(u, h[b]) = b
  <2>1. PICK b \in B : At(u, g[b]) = b
    BY <1>2
  <2>2. CASE b = n
    BY <1>1, <1>3, <2>1, <2>2
  <2>3. CASE b # n
    <3>1. b \notin F /\ b \in C
      BY <1>3, <1>4, <2>3
    <3>. QED  BY <1>3, <2>1, <3>1
  <2>. QED  BY <2>2, <2>3
<1>8. ASSUME NEW u \in Unit, NEW a \in F, NEW b \in B, b # n, At(u, h[a]) = a, At(u, g[b]) = b
      PROVE  FALSE
  <2>1. At(u, g[n]) = n
    BY <1>1, <1>3, <1>8
  <2>. QED  BY <1>2, <1>3, <1>8, <2>1
<1>9. ASSUME NEW u \in Unit, NEW a \in C, NEW b \in C, At(u, h[a]) = a, At(u, h[b]) = b
      PROVE  a = b
  <2>1. CASE a \in F /\ b \in F
    BY <1>1, <1>9, <2>1
  <2>2. CASE a \in F /\ b \notin F
    BY <1>5, <1>8, <1>9, <2>2
  <2>3. CASE a \notin F /\ b \in F
    BY <1>5, <1>8, <1>9, <2>3
  <2>4. CASE a \notin F /\ b \notin F
    BY <1>2, <1>5, <1>9, <2>4
  <2>. QED  BY <2>1, <2>2, <2>3, <2>4
<1>. QED  BY <1>4, <1>6, <1>7, <1>9 DEF Tiled, F, n

\* C is B with the block in place of the family.
MergedInto(g, B, h, C, c, L, T) ==
  /\ Tiled(g, B) /\ At(c, L) = c
  /\ Family(c, L, T) \subseteq B /\ Levelled(g, c, L, T) /\ h[At(c, T)] = T
  /\ C = (B \ Family(c, L, T)) \cup {At(c, T)}
  /\ \A b \in B \ Family(c, L, T) : h[b] = g[b]

\* It tiles the heap.
LEMMA Merges ==
  ASSUME NEW c \in Unit, NEW L \in Level, NEW T \in Level, L <= T,
         NEW g, NEW B, NEW h, NEW C, MergedInto(g, B, h, C, c, L, T)
  PROVE  Tiled(h, C)
<1>. DEFINE F == Family(c, L, T)
            n == At(c, T)
<1>1. /\ n \in F /\ At(n, T) = n
      /\ \A u \in Unit, b \in F : At(u, g[b]) = b => At(u, T) = n
      /\ \A u \in Unit : At(u, T) = n => \E b \in F : At(u, g[b]) = b
  BY FamilyIs DEF MergedInto
<1>2. /\ \A b \in B : b \in Unit /\ g[b] \in Level /\ At(b, g[b]) = b
      /\ \A u \in Unit : \E b \in B : At(u, g[b]) = b
      /\ \A u \in Unit, a, b \in B : At(u, g[a]) = a /\ At(u, g[b]) = b => a = b
  BY DEF Tiled, MergedInto
<1>. HIDE DEF F, n
<1>3. /\ F \subseteq B /\ h[n] = T /\ C = (B \ F) \cup {n}
      /\ \A b \in B \ F : h[b] = g[b]
  BY DEF F, n, MergedInto
<1>4. \A b \in C : b = n \/ (b \in B /\ b \notin F /\ h[b] = g[b])
  BY <1>3
<1>5. ASSUME NEW b \in C PROVE b \in Unit /\ h[b] \in Level /\ At(b, h[b]) = b
  BY <1>1, <1>2, <1>3, <1>4
<1>6. ASSUME NEW u \in Unit PROVE \E b \in C : At(u, h[b]) = b
  <2>1. PICK b \in B : At(u, g[b]) = b
    BY <1>2
  <2>2. CASE b \in F
    <3>1. At(u, h[n]) = n /\ n \in C
      BY <1>1, <1>3, <2>1, <2>2
    <3>. QED  BY <3>1
  <2>3. CASE b \notin F
    BY <1>3, <2>1, <2>3
  <2>. QED  BY <2>2, <2>3
<1>7. ASSUME NEW u \in Unit, NEW b \in B, b \notin F, At(u, T) = n, At(u, g[b]) = b
      PROVE  FALSE
  BY <1>1, <1>2, <1>3, <1>7
<1>8. ASSUME NEW u \in Unit, NEW a \in C, NEW b \in C, At(u, h[a]) = a, At(u, h[b]) = b
      PROVE  a = b
  <2>1. CASE a = n /\ b # n
    BY <1>3, <1>4, <1>7, <1>8, <2>1
  <2>2. CASE a # n /\ b = n
    BY <1>3, <1>4, <1>7, <1>8, <2>2
  <2>3. CASE a # n /\ b # n
    BY <1>2, <1>4, <1>8, <2>3
  <2>. QED  BY <2>1, <2>2, <2>3
<1>. QED  BY <1>5, <1>6, <1>8 DEF Tiled, n

\* The buddies of the blocks that c is in are all different, and none is at c.
LEMMA SibsDiffer ==
  ASSUME NEW c \in Unit, NEW T \in Level, NEW k \in Level, k < T
  PROVE  /\ Sib(c, k) # c
         /\ \A j \in Level : j < T /\ Sib(c, j) = Sib(c, k) => j = k
<1>1. k \in Nat /\ c \in Nat /\ \A j \in Level : j \in Nat
  BY AtEnds, LevelsAre
<1>2. ASSUME NEW i \in Level, NEW j \in Level, i < j, j < T, Sib(c, i) = Sib(c, j) PROVE FALSE
  <2>1. i \in Nat /\ j \in Nat /\ T \in Nat
    BY LevelsAre
  <2>2. i < T
    BY <1>2, <2>1
  <2>3. Sib(c, i) \in Unit /\ At(Sib(c, i), i) = Sib(c, i)
    BY <2>2, SibIs
  <2>4. At(Sib(c, i), j) = At(c, j)
    BY <1>2, <2>2, <2>3, SibIs
  <2>5. At(Sib(c, j), j) = Sib(c, j) /\ Sib(c, j) # At(c, j)
    BY <1>2, SibIs
  <2>. QED  BY <1>2, <2>4, <2>5
<1>3. ASSUME NEW j \in Level, j < T, Sib(c, j) = Sib(c, k) PROVE j = k
  <2>1. ~(j < k) /\ ~(k < j)
    BY <1>2, <1>3
  <2>. QED  BY <1>1, <2>1
<1>4. Sib(c, k) # c
  <2>1. At(Sib(c, k), k) = Sib(c, k) /\ Sib(c, k) # At(c, k)
    BY SibIs
  <2>. QED  BY <2>1
<1>. QED  BY <1>3, <1>4

\* The least number of a set.
LEMMA MinIs ==
  ASSUME NEW T \in SUBSET Nat, T # {}
  PROVE  Min(T) \in T /\ \A n \in T : Min(T) <= n
BY LeastNatural DEF Min

\* And the greatest.
LEMMA MaxIs ==
  ASSUME NEW N \in Nat, NEW T \in SUBSET (0 .. N), T # {}
  PROVE  Max(T) \in T /\ \A n \in T : n <= Max(T)
BY GreatestNatural DEF Max

\* What the invariant says of the tiles.
LEMMA InvariantTiled ==
  ASSUME IInv
  PROVE  Tiled(level, Blocks)
BY BlocksAre DEF IInv, Aligned, Covered, Apart, In, Tiled

-----------------------------------------------------------------------------
(***************************************************************************)
(* mallocCust                                                              *)
(***************************************************************************)
\* The free block r of level A becomes the family of level m, and r is in use.
Taken(r, m, A) ==
  /\ level' \in [Unit -> Level] /\ free' \in [Unit -> {0, 1}]
  /\ Levelled(level', r, m, A)
  /\ free'[r] = 0 /\ \A k \in m .. A - 1 : free'[Sib(r, k)] = 1
  /\ \A u \in Unit \ Family(r, m, A) : level'[u] = level[u] /\ free'[u] = free[u]
  /\ levelsList' = [l \in Level |->
       IF l = A THEN SubSeq(levelsList[A], 1, Len(levelsList[A]) - 1)
       ELSE IF l \in m .. A - 1 THEN Append(levelsList[l], Sib(r, l))
       ELSE levelsList[l]]
  /\ inUse' = inUse \cup {r}
  /\ lost' = lost

\* The ideal level of a request that is not too large is a level, or one too many.
LEMMA IdealIs ==
  ASSUME NEW nbytes \in Requests, ~TooLarge(nbytes)
  PROVE  IdealLevel(RealBytes(nbytes)) \in 0 .. Levels
<1>. DEFINE S == {l \in 0 .. Levels : MinAlloc * Pow2[l] >= RealBytes(nbytes)}
<1>1. RealBytes(nbytes) \in Nat
  BY BuddyAssumption DEF RealBytes, HeaderSize
<1>2. PICK P \in Nat \ {0} : P = Pow2[Top] /\ Pow2[Levels] = 2 * P
  <2>1. Top + 1 = Levels
    BY LevelsAre DEF Top
  <2>2. Pow2[Top] \in Nat \ {0} /\ Pow2[Top + 1] = 2 * Pow2[Top]
    BY PowIs, LevelsAre
  <2>. QED  BY <2>1, <2>2
<1>3. MinAlloc * Pow2[Levels] >= RealBytes(nbytes)
  BY <1>1, <1>2 DEF TooLarge, MinAlloc
<1>4. S \in SUBSET Nat /\ S # {}
  BY <1>3, LevelsAre
<1>5. Min(S) \in S
  <2>. HIDE DEF S
  <2>. QED  BY <1>4, MinIs
<1>. QED  BY <1>5 DEF IdealLevel

\* What mallocCust does: the block it takes is free, and it takes it from its list.
LEMMA MallocIs ==
  ASSUME IInv, NEW nbytes \in Requests, Malloc(nbytes)
  PROVE  \E m \in Level, A \in Level, r \in FreeOnes :
           /\ m <= A /\ level[r] = A
           /\ levelsList[A] # <<>> /\ r = levelsList[A][Len(levelsList[A])]
           /\ Taken(r, m, A)
<1>. DEFINE m == IdealLevel(RealBytes(nbytes))
            A == Min(Available(m))
            r == levelsList[A][Len(levelsList[A])]
            UpperAt(u) == {l \in m .. A - 1 : u = BuddyOf(r, l)}
<1>1. m \in Nat /\ ~TooLarge(nbytes)
  BY IdealIs, LevelsAre DEF Malloc
<1>2. /\ Available(m) # {}
      /\ level' = [u \in Unit |-> IF u = r THEN m
                                  ELSE IF UpperAt(u) # {} THEN Min(UpperAt(u)) ELSE level[u]]
      /\ free' = [u \in Unit |-> IF u = r THEN 0
                                 ELSE IF UpperAt(u) # {} THEN 1 ELSE free[u]]
      /\ levelsList' = [l \in Level |->
           IF l = A THEN SubSeq(levelsList[A], 1, Len(levelsList[A]) - 1)
           ELSE IF l \in m .. A - 1 THEN Append(levelsList[l], BuddyOf(r, l)) ELSE levelsList[l]]
      /\ inUse' = inUse \cup {r}
      /\ lost' = lost
  BY DEF Malloc
<1>. HIDE DEF m
<1>3. A \in Level /\ m <= A /\ levelsList[A] # <<>>
  <2>1. Available(m) \in SUBSET Nat /\ Available(m) # {}
    BY <1>2, LevelsAre DEF Available
  <2>2. A \in Available(m)
    BY <2>1, MinIs
  <2>. QED  BY <1>1, <2>2, LevelsAre DEF Available
<1>. HIDE DEF A
<1>4. r \in FreeOnes /\ level[r] = A
  <2>1. levelsList[A] \in Seq(Unit) /\ Distinct(levelsList[A])
        /\ Range(levelsList[A]) = {u \in FreeOnes : level[u] = A}
    BY <1>3, BlocksAre
  <2>2. r \in Range(levelsList[A])
    BY <1>3, <2>1, PopIs
  <2>. QED  BY <2>1, <2>2
<1>. HIDE DEF r
<1>5. m \in Level /\ A \in Nat /\ \A k \in m .. A - 1 : k \in Level /\ k < A /\ k <= A /\ k \in Nat
  BY <1>1, <1>3, LevelsAre DEF Level
<1>6. r \in Unit /\ r \in Nat /\ At(r, A) = r
  BY <1>4, BlocksAre DEF IInv, Aligned, In, Blocks
<1>7. \A k \in m .. A - 1 : Sib(r, k) = BuddyOf(r, k)
  <2>1. \A k \in m .. A - 1 : At(r, k) = r
    BY <1>3, <1>5, <1>6, BeginsLower
  <2>. QED  BY <2>1 DEF Sib
<1>8. ASSUME NEW k \in m .. A - 1
      PROVE  /\ Sib(r, k) # r /\ Sib(r, k) \in Unit /\ UpperAt(Sib(r, k)) = {k}
  <2>1. Sib(r, k) # r /\ \A j \in Level : j < A /\ Sib(r, j) = Sib(r, k) => j = k
    BY <1>3, <1>5, <1>6, SibsDiffer
  <2>2. Sib(r, k) \in Unit
    BY <1>3, <1>5, <1>6, SibIs
  <2>3. UpperAt(Sib(r, k)) = {k}
    BY <1>5, <1>7, <2>1
  <2>. QED  BY <2>1, <2>2, <2>3
<1>9. \A k \in m .. A - 1 : Min({k}) = k
  <2>1. ASSUME NEW k \in m .. A - 1 PROVE Min({k}) = k
    <3>1. {k} \in SUBSET Nat /\ {k} # {}
      BY <1>5
    <3>. QED  BY <3>1, MinIs
  <2>. QED  BY <2>1
<1>10. \A u \in Unit \ Family(r, m, A) : u # r /\ UpperAt(u) = {}
  BY <1>7 DEF Family
<1>11. \A u \in Unit : UpperAt(u) # {} => \E k \in m .. A - 1 : u = Sib(r, k)
  BY <1>7
<1>. HIDE DEF UpperAt
<1>12. level' \in [Unit -> Level] /\ free' \in [Unit -> {0, 1}]
  <2>1. level \in [Unit -> Level] /\ free \in [Unit -> {0, 1}]
    BY DEF IInv, TypeOK
  <2>2. \A u \in Unit : UpperAt(u) # {} => Min(UpperAt(u)) \in Level
    BY <1>5, <1>8, <1>9, <1>11
  <2>. QED  BY <1>2, <1>5, <2>1, <2>2
<1>13. Levelled(level', r, m, A) /\ free'[r] = 0 /\ \A k \in m .. A - 1 : free'[Sib(r, k)] = 1
  BY <1>2, <1>6, <1>8, <1>9 DEF Levelled
<1>14. \A u \in Unit \ Family(r, m, A) : level'[u] = level[u] /\ free'[u] = free[u]
  BY <1>2, <1>10
<1>15. levelsList' = [l \in Level |->
         IF l = A THEN SubSeq(levelsList[A], 1, Len(levelsList[A]) - 1)
         ELSE IF l \in m .. A - 1 THEN Append(levelsList[l], Sib(r, l)) ELSE levelsList[l]]
  BY <1>2, <1>7
<1>16. Taken(r, m, A)
  BY <1>2, <1>12, <1>13, <1>14, <1>15 DEF Taken
<1>17. r = levelsList[A][Len(levelsList[A])]
  BY DEF r
<1>. QED  BY <1>3, <1>4, <1>5, <1>16, <1>17

\* It keeps the invariant.
LEMMA TakenKeeps ==
  ASSUME IInv, NEW m \in Level, NEW A \in Level, NEW r \in FreeOnes,
         m <= A, level[r] = A, levelsList[A] # <<>>, r = levelsList[A][Len(levelsList[A])],
         Taken(r, m, A)
  PROVE  IInv'
<1>. DEFINE F == Family(r, m, A)
<1>1. /\ r \in Unit /\ At(r, A) = r /\ At(r, m) = r /\ r \in Blocks /\ r \in Nat
      /\ \A k \in m .. A - 1 : k \in Level /\ k < A /\ k <= A /\ k # Top
  <2>1. r \in Unit /\ At(r, A) = r /\ r \in Blocks /\ r \in Nat
    BY BlocksAre DEF IInv, Aligned, In, Blocks
  <2>2. At(r, m) = r
    BY <2>1, BeginsLower
  <2>3. \A k \in m .. A - 1 : k \in Level /\ k < A /\ k <= A /\ k # Top
    <3>1. m \in Nat /\ A \in Nat /\ A <= Top /\ Levels \in Nat
      BY LevelsAre
    <3>. QED  BY <3>1 DEF Level, Top
  <2>. QED  BY <2>1, <2>2, <2>3
<1>2. /\ r \in F
      /\ \A k \in m .. A - 1 : Sib(r, k) \in F /\ Sib(r, k) \in Unit /\ Sib(r, k) # r
                               /\ BuddyOf(Sib(r, k), k) = r
      /\ \A b \in F : b \in Unit /\ (b # r => \E k \in m .. A - 1 : b = Sib(r, k))
  <2>1. \A k \in m .. A - 1 : At(r, k) = r
    BY <1>1, BeginsLower, LevelsAre
  <2>2. \A k \in m .. A - 1 : Sib(r, k) \in Unit /\ BuddyOf(Sib(r, k), k) = r /\ Sib(r, k) # r
    BY <1>1, <2>1, SibIs
  <2>. QED  BY <1>1, <2>2 DEF Family
<1>3. /\ level' \in [Unit -> Level] /\ free' \in [Unit -> {0, 1}]
      /\ level'[r] = m /\ free'[r] = 0
      /\ \A k \in m .. A - 1 : level'[Sib(r, k)] = k /\ free'[Sib(r, k)] = 1
      /\ \A u \in Unit \ F : level'[u] = level[u] /\ free'[u] = free[u]
      /\ inUse' = inUse \cup {r} /\ lost' = lost
  BY DEF Taken, Levelled
<1>4. FreeOnes' = (FreeOnes \ {r}) \cup (F \ {r})
  <2>1. \A u \in Unit : free'[u] = 1 <=> (u \in FreeOnes \ {r}) \/ u \in F \ {r}
    <3>1. ASSUME NEW u \in Unit, u \in F PROVE free'[u] = 1 <=> u # r
      BY <1>2, <1>3, <3>1
    <3>2. ASSUME NEW u \in Unit, u \notin F
          PROVE  /\ free'[u] = 1 <=> u \in FreeOnes
                 /\ u # r
      BY <1>2, <1>3, <3>2 DEF FreeOnes
    <3>. QED  BY <3>1, <3>2
  <2>2. FreeOnes \subseteq Unit /\ F \subseteq Unit
    BY <1>2 DEF FreeOnes
  <2>. QED  BY <2>1, <2>2 DEF FreeOnes
<1>5. Blocks' = (Blocks \ {r}) \cup F
  BY <1>2, <1>3, <1>4 DEF Blocks
<1>6. Tiled(level', Blocks') /\ \A b \in F \cap Blocks : b = r
  <2>. DEFINE B == Blocks
              C == Blocks'
              h == level'
  <2>1. Tiled(level, B) /\ At(r, A) = r /\ level[At(r, A)] = A /\ At(r, A) \in B
    BY <1>1, InvariantTiled
  <2>2. C = (B \ {At(r, A)}) \cup Family(r, m, A) /\ Levelled(h, r, m, A)
    BY <1>1, <1>5 DEF Taken
  <2>3. \A b \in C \ Family(r, m, A) : h[b] = level[b]
    BY <1>3, <1>5, BlocksAre
  <2>. HIDE DEF B, C, h
  <2>5. SplitInto(level, B, h, C, r, m, A)
    BY <1>1, <2>1, <2>2, <2>3 DEF SplitInto
  <2>4. Tiled(h, C) /\ \A b \in Family(r, m, A) \cap B : b = At(r, A)
    BY <1>1, <2>5, Splits
  <2>. QED  BY <1>1, <2>4 DEF B, C, h
<1>. HIDE DEF F
<1>7. \A u \in FreeOnes : u # r => u \notin F /\ level'[u] = level[u] /\ free'[u] = free[u]
  BY <1>3, <1>6, BlocksAre DEF Blocks
<1>8. /\ levelsList' \in [Level -> Seq(Unit)]
      /\ Listed'
  <2>1. ASSUME NEW l \in Level
        PROVE  /\ levelsList'[l] \in Seq(Unit) /\ Distinct(levelsList'[l])
               /\ Range(levelsList'[l]) = {u \in FreeOnes' : level'[u] = l}
    <3>1. levelsList[l] \in Seq(Unit) /\ Distinct(levelsList[l])
          /\ Range(levelsList[l]) = {u \in FreeOnes : level[u] = l}
      BY BlocksAre
    <3>2. {u \in FreeOnes' : level'[u] = l}
            = {u \in FreeOnes : level[u] = l /\ u # r} \cup {u \in F \ {r} : level'[u] = l}
      BY <1>4, <1>7
    <3>3. CASE l = A
      <4>1. levelsList'[l] = SubSeq(levelsList[l], 1, Len(levelsList[l]) - 1)
        BY <3>3 DEF Taken
      <4>2. {u \in F \ {r} : level'[u] = l} = {}
        <5>1. \A k \in m .. A - 1 : k # l
          BY <1>1, <3>3, LevelsAre
        <5>. QED  BY <1>2, <1>3, <5>1
      <4>3. /\ levelsList'[l] \in Seq(Unit) /\ Distinct(levelsList'[l])
            /\ Range(levelsList'[l]) = Range(levelsList[l]) \ {r}
        BY <3>1, <3>3, <4>1, PopIs
      <4>. QED  BY <3>1, <3>2, <4>2, <4>3
    <3>4. CASE l \in m .. A - 1
      <4>1. l # A /\ levelsList'[l] = Append(levelsList[l], Sib(r, l))
        BY <1>1, <3>4, LevelsAre DEF Taken
      <4>2. {u \in F \ {r} : level'[u] = l} = {Sib(r, l)}
        BY <1>2, <1>3, <3>4
      <4>3. Sib(r, l) \in Unit /\ Sib(r, l) \notin Range(levelsList[l])
        BY <1>2, <1>7, <3>1, <3>4
      <4>4. Range(levelsList[l]) = {u \in FreeOnes : level[u] = l /\ u # r}
        BY <3>1, <4>1
      <4>5. Append(levelsList[l], Sib(r, l)) \in Seq(Unit)
        BY <3>1, <4>3
      <4>6. Range(Append(levelsList[l], Sib(r, l))) = Range(levelsList[l]) \cup {Sib(r, l)}
        BY <3>1, <4>3, RangeAppend
      <4>7. Distinct(Append(levelsList[l], Sib(r, l)))
        BY <3>1, <4>3, DistinctAppend
      <4>. QED  BY <3>2, <4>1, <4>2, <4>4, <4>5, <4>6, <4>7
    <3>5. CASE l # A /\ l \notin m .. A - 1
      <4>1. levelsList'[l] = levelsList[l]
        BY <3>5 DEF Taken
      <4>2. {u \in F \ {r} : level'[u] = l} = {}
        BY <1>2, <1>3, <3>5
      <4>. QED  BY <3>1, <3>2, <3>5, <4>1, <4>2
    <3>. QED  BY <3>3, <3>4, <3>5
  <2>2. levelsList' = [l \in Level |-> levelsList'[l]]
    BY DEF Taken
  <2>. QED  BY <2>1, <2>2 DEF Listed
<1>9. TypeOK'
  BY <1>1, <1>3, <1>8 DEF IInv, TypeOK
<1>10. \A b \in inUse' : free'[b] = 0
  <2>1. ASSUME NEW b \in inUse, b # r PROVE free'[b] = 0
    <3>1. b \in Unit /\ b \notin F
      BY <1>6, <2>1, BlocksAre DEF Blocks
    <3>. QED  BY <1>3, <3>1 DEF IInv
  <2>. QED  BY <1>3, <2>1
<1>11. Aligned' /\ Covered' /\ Apart'
  BY <1>6 DEF Tiled, Aligned, Covered, Apart, In
<1>12. Joined'
  <2>. SUFFICES ASSUME NEW a \in FreeOnes', NEW b \in FreeOnes', level'[a] = level'[b],
                       level'[a] # Top, b = BuddyOf(a, level'[a])
                PROVE  FALSE
    BY DEF Joined
  <2>1. /\ a # r /\ a \in Unit /\ (a \in F \/ (a \in FreeOnes /\ level'[a] = level[a]))
        /\ b # r /\ b \in Unit /\ (b \in F \/ (b \in FreeOnes /\ level'[b] = level[b]))
    BY <1>2, <1>4, <1>7, BlocksAre
  <2>2. level'[a] \in Level /\ At(a, level'[a]) = a /\ BuddyOf(b, level'[a]) = a
    <3>1. level'[a] \in Level /\ At(a, level'[a]) = a
      <4>1. a \in Blocks'
        BY DEF Blocks
      <4>. QED  BY <1>6, <4>1 DEF Tiled
    <3>. QED  BY <2>1, <3>1, HalvesOf
  <2>3. CASE a \in F
    <3>1. PICK k \in m .. A - 1 : a = Sib(r, k)
      BY <1>2, <2>1, <2>3
    <3>. QED  BY <1>2, <1>3, <2>1, <3>1
  <2>4. CASE b \in F
    <3>1. PICK k \in m .. A - 1 : b = Sib(r, k)
      BY <1>2, <2>1, <2>4
    <3>. QED  BY <1>2, <1>3, <2>1, <2>2, <3>1
  <2>5. CASE a \notin F /\ b \notin F
    BY <2>1, <2>5 DEF IInv, Joined
  <2>. QED  BY <2>3, <2>4, <2>5
<1>. QED  BY <1>8, <1>9, <1>10, <1>11, <1>12 DEF IInv

-----------------------------------------------------------------------------
(***************************************************************************)
(* freeCust                                                                *)
(***************************************************************************)
\* The block c, in use, and its free buddies become the free block of level T, whose
\* buddy is not free.
Freed(c, T) ==
  /\ \A k \in level[c] .. T - 1 : level[Sib(c, k)] = k /\ free[Sib(c, k)] = 1
  /\ T # Top => ~(level[Sib(c, T)] = T /\ free[Sib(c, T)] = 1)
  /\ level' \in [Unit -> Level] /\ free' \in [Unit -> {0, 1}]
  /\ level'[At(c, T)] = T /\ free'[At(c, T)] = 1
  /\ \A u \in Family(c, level[c], T) \ {At(c, T)} : free'[u] = 0
  /\ \A u \in Unit \ Family(c, level[c], T) : level'[u] = level[u] /\ free'[u] = free[u]
  /\ levelsList' = [l \in Level |->
       LET kept == IF l \in level[c] .. T - 1 THEN Without(levelsList[l], Sib(c, l)) ELSE levelsList[l]
       IN  IF l = T THEN Append(kept, At(c, T)) ELSE kept]
  /\ inUse' = inUse \ {c}
  /\ lost' = lost

\* What freeCust does: it goes up as far as the buddies are free.
LEMMA FreeIs ==
  ASSUME IInv, NEW c \in inUse, Free(c)
  PROVE  \E T \in Level : level[c] <= T /\ Freed(c, T)
<1>. DEFINE L == level[c]
            S == {l \in L .. Top : \A k \in L .. l - 1 : Joins(c, k)}
            T == Reached(c)
            n == At(c, T)
            joined == {BuddyOf(At(c, l), l) : l \in L .. T - 1}
            gone == (joined \cup {c}) \ {n}
<1>1. /\ c \in Unit /\ c \in Nat /\ L \in Level /\ L \in Nat /\ L <= Top /\ Top \in Nat /\ At(c, L) = c
  BY BlocksAre, LevelsAre DEF IInv, Aligned, In, Blocks
<1>2. /\ level' = [u \in Unit |-> IF u \in gone THEN 0 ELSE IF u = n THEN T ELSE level[u]]
      /\ free' = [u \in Unit |-> IF u \in gone THEN 0 ELSE IF u = n THEN 1 ELSE free[u]]
      /\ levelsList' = [l \in Level |->
           LET kept == IF l \in L .. T - 1 THEN Without(levelsList[l], Sib(c, l)) ELSE levelsList[l]
           IN  IF l = T THEN Append(kept, n) ELSE kept]
      /\ inUse' = inUse \ {c}
      /\ lost' = lost
  BY DEF Free, Sib
<1>3. T \in S /\ \A l \in S : l <= T
  <2>1. S \in SUBSET (0 .. Top) /\ L \in S
    BY <1>1
  <2>2. S # {}
    BY <2>1
  <2>3. T = Max(S)
    BY DEF Reached
  <2>. HIDE DEF S, T
  <2>. QED  BY <1>1, <2>1, <2>2, <2>3, MaxIs
<1>. HIDE DEF T
<1>4. T \in Level /\ L <= T /\ T \in Nat /\ \A k \in L .. T - 1 : Joins(c, k)
  <2>1. T \in L .. Top /\ \A k \in L .. T - 1 : Joins(c, k)
    BY <1>3
  <2>2. T \in Nat /\ T <= Top /\ L <= T
    BY <1>1, <2>1
  <2>3. Top = Levels - 1 /\ Levels \in Nat
    BY LevelsAre DEF Top
  <2>. QED  BY <2>1, <2>2, <2>3 DEF Level
<1>5. T # Top => ~Joins(c, T)
  <2>. SUFFICES ASSUME T # Top, Joins(c, T) PROVE FALSE
    OBVIOUS
  <2>1. T <= Top
    BY <1>4, LevelsAre
  <2>2. T + 1 \in L .. Top
    BY <1>1, <1>4, <2>1
  <2>3. \A k \in L .. (T + 1) - 1 : k \in L .. T - 1 \/ k = T
    BY <1>1, <1>4
  <2>4. \A k \in L .. (T + 1) - 1 : Joins(c, k)
    BY <1>4, <2>3
  <2>5. T + 1 \in S
    BY <2>2, <2>4
  <2>6. T + 1 <= T
    <3>. HIDE DEF S
    <3>. QED  BY <1>3, <2>5
  <2>. QED  BY <1>4, <2>6
<1>6. /\ \A k \in L .. T - 1 : level[Sib(c, k)] = k /\ free[Sib(c, k)] = 1
      /\ T # Top => ~(level[Sib(c, T)] = T /\ free[Sib(c, T)] = 1)
  BY <1>4, <1>5 DEF Joins, Sib
<1>7. gone = Family(c, L, T) \ {n}
  BY DEF Family, Sib
<1>8. n \in Unit
  <2>1. n \in Nat /\ n <= c
    BY <1>1, <1>4, AtIs
  <2>. QED  BY <1>1, <2>1, PowIs, LevelsAre DEF Unit
<1>9. n \in Family(c, L, T)
  <2>. DEFINE g == level
  <2>1. L \in Level /\ L <= T
    BY <1>1, <1>4
  <2>2. Levelled(g, c, L, T)
    BY <1>6 DEF Levelled
  <2>. HIDE DEF g, L
  <2>. QED  BY <1>1, <1>4, <2>1, <2>2, FamilyIs
<1>. HIDE DEF gone, n
<1>10. level' \in [Unit -> Level] /\ free' \in [Unit -> {0, 1}]
  <2>1. level \in [Unit -> Level] /\ free \in [Unit -> {0, 1}] /\ 0 \in Level
    BY AtEnds DEF IInv, TypeOK
  <2>. QED  BY <1>2, <1>4, <2>1
<1>11. level'[n] = T /\ free'[n] = 1
  BY <1>2, <1>7, <1>8
<1>12. \A u \in Family(c, L, T) : u \in Unit
  <2>1. \A k \in L .. T - 1 : k \in Level /\ k < T
    <3>1. Levels \in Nat /\ T <= Levels - 1
      BY <1>4, LevelsAre DEF Level
    <3>. QED  BY <1>1, <1>4, <3>1 DEF Level
  <2>2. \A k \in L .. T - 1 : Sib(c, k) \in Unit
    BY <1>1, <1>4, <2>1, SibIs
  <2>. QED  BY <1>1, <2>2 DEF Family
<1>13. \A u \in Family(c, L, T) \ {n} : free'[u] = 0
  BY <1>2, <1>7, <1>12
<1>14. \A u \in Unit \ Family(c, L, T) : level'[u] = level[u] /\ free'[u] = free[u]
  BY <1>2, <1>7, <1>9
<1>15. Freed(c, T)
  BY <1>2, <1>6, <1>10, <1>11, <1>13, <1>14 DEF Freed, n
<1>. QED  BY <1>4, <1>15

\* It keeps the invariant.
LEMMA FreedKeeps ==
  ASSUME IInv, NEW c \in inUse, NEW T \in Level, level[c] <= T, Freed(c, T)
  PROVE  IInv'
<1>. DEFINE L == level[c]
            F == Family(c, L, T)
            n == At(c, T)
<1>1. /\ c \in Unit /\ c \in Nat /\ L \in Level /\ L \in Nat /\ T \in Nat /\ L <= T /\ At(c, L) = c
      /\ \A k \in L .. T - 1 : k \in Level /\ k < T /\ k \in Nat
  <2>1. c \in Unit /\ c \in Nat /\ L \in Level /\ L \in Nat /\ T \in Nat /\ At(c, L) = c
    BY BlocksAre, LevelsAre DEF IInv, Aligned, In, Blocks
  <2>2. \A k \in L .. T - 1 : k \in Level /\ k < T /\ k \in Nat
    <3>1. Levels \in Nat /\ T <= Levels - 1
      BY LevelsAre DEF Level
    <3>. QED  BY <2>1, <3>1 DEF Level
  <2>. QED  BY <2>1, <2>2
<1>2. /\ level' \in [Unit -> Level] /\ free' \in [Unit -> {0, 1}]
      /\ level'[n] = T /\ free'[n] = 1
      /\ \A u \in F \ {n} : free'[u] = 0
      /\ \A u \in Unit \ F : level'[u] = level[u] /\ free'[u] = free[u]
      /\ inUse' = inUse \ {c} /\ lost' = lost
      /\ \A k \in L .. T - 1 : level[Sib(c, k)] = k /\ free[Sib(c, k)] = 1
      /\ T # Top => ~(level[Sib(c, T)] = T /\ free[Sib(c, T)] = 1)
  BY DEF Freed
<1>. HIDE DEF L
<1>3. Levelled(level, c, L, T)
  BY <1>2 DEF Levelled, L
<1>4. n \in F /\ At(n, T) = n
  <2>. DEFINE g == level
  <2>1. Levelled(g, c, L, T)
    BY <1>3
  <2>. HIDE DEF g
  <2>. QED  BY <1>1, <2>1, FamilyIs
<1>5. /\ \A b \in F : b \in Unit /\ (b = c \/ (b \in FreeOnes /\ \E k \in L .. T - 1 : b = Sib(c, k)))
      /\ \A k \in L .. T - 1 : Sib(c, k) \in F /\ Sib(c, k) \in FreeOnes
      /\ c \in F /\ c \notin FreeOnes
  <2>1. \A k \in L .. T - 1 : Sib(c, k) \in Unit
    BY <1>1, SibIs
  <2>2. c \notin FreeOnes
    BY BlocksAre
  <2>. QED  BY <1>1, <1>2, <2>1, <2>2 DEF Family, FreeOnes
<1>6. F \subseteq Blocks /\ n \in Unit
  BY <1>4, <1>5 DEF Blocks
<1>. HIDE DEF F, n
<1>7. FreeOnes' = (FreeOnes \ F) \cup {n}
  <2>1. \A u \in Unit : free'[u] = 1 <=> (u \in FreeOnes /\ u \notin F) \/ u = n
    <3>1. ASSUME NEW u \in Unit, u \in F PROVE free'[u] = 1 <=> u = n
      BY <1>2, <3>1
    <3>2. ASSUME NEW u \in Unit, u \notin F PROVE u # n /\ (free'[u] = 1 <=> u \in FreeOnes)
      BY <1>2, <1>4, <3>2 DEF FreeOnes
    <3>. QED  BY <3>1, <3>2
  <2>2. FreeOnes \subseteq Unit
    BY DEF FreeOnes
  <2>. QED  BY <1>6, <2>1, <2>2 DEF FreeOnes
<1>8. Blocks' = (Blocks \ F) \cup {n} /\ \A b \in inUse : b # c => b \notin F
  <2>1. \A b \in inUse : b # c => b \notin F
    BY <1>5, BlocksAre
  <2>. QED  BY <1>2, <1>5, <1>7, <2>1 DEF Blocks
<1>9. Tiled(level', Blocks')
  <2>. DEFINE B == Blocks
              C == Blocks'
              g == level
              h == level'
  <2>1. Tiled(g, B) /\ Levelled(g, c, L, T)
    BY <1>3, InvariantTiled
  <2>2. C = (B \ F) \cup {n} /\ F \subseteq B /\ h[n] = T
    BY <1>2, <1>6, <1>8
  <2>3. \A b \in B \ F : h[b] = g[b]
    BY <1>2, BlocksAre
  <2>. HIDE DEF B, C, g, h
  <2>4. MergedInto(g, B, h, C, c, L, T)
    BY <1>1, <2>1, <2>2, <2>3 DEF MergedInto, F, n
  <2>5. Tiled(h, C)
    BY <1>1, <2>4, Merges
  <2>. QED  BY <2>5 DEF C, h
<1>10. \A u \in FreeOnes : u \notin F => level'[u] = level[u] /\ u # n
  BY <1>2, <1>4, BlocksAre
<1>11. levelsList' \in [Level -> Seq(Unit)] /\ Listed'
  <2>1. ASSUME NEW l \in Level
        PROVE  /\ levelsList'[l] \in Seq(Unit) /\ Distinct(levelsList'[l])
               /\ Range(levelsList'[l]) = {u \in FreeOnes' : level'[u] = l}
    <3>. DEFINE old == levelsList[l]
                kept == {u \in FreeOnes : level[u] = l /\ u \notin F}
    <3>1. old \in Seq(Unit) /\ Distinct(old) /\ Range(old) = {u \in FreeOnes : level[u] = l}
      BY BlocksAre
    <3>2. {u \in FreeOnes' : level'[u] = l} = kept \cup {u \in {n} : l = T}
      BY <1>2, <1>7, <1>10
    <3>3. CASE l \in L .. T - 1
      <4>1. l # T /\ levelsList'[l] = Without(old, Sib(c, l))
        <5>1. l # T
          BY <1>1, <3>3
        <5>. QED  BY <3>3, <5>1 DEF Freed, L
      <4>2. Sib(c, l) \in Range(old)
        BY <1>2, <1>5, <3>1, <3>3
      <4>3. kept = Range(old) \ {Sib(c, l)}
        BY <1>2, <1>5, <3>1, <3>3
      <4>. HIDE DEF old, kept
      <4>4. /\ Without(old, Sib(c, l)) \in Seq(Unit) /\ Distinct(Without(old, Sib(c, l)))
            /\ Range(Without(old, Sib(c, l))) = Range(old) \ {Sib(c, l)}
        BY <3>1, <4>2, WithoutIs
      <4>. QED  BY <3>2, <4>1, <4>3, <4>4
    <3>4. CASE l \notin L .. T - 1 /\ l # T
      <4>1. levelsList'[l] = old
        BY <3>4 DEF Freed, L
      <4>2. kept = Range(old)
        BY <1>2, <1>5, <3>1, <3>4
      <4>. QED  BY <3>1, <3>2, <3>4, <4>1, <4>2
    <3>5. CASE l = T
      <4>1. l \notin L .. T - 1
        BY <1>1, <3>5
      <4>2. levelsList'[l] = Append(old, n)
        BY <3>5, <4>1 DEF Freed, L, n
      <4>3. kept = Range(old)
        BY <1>2, <1>5, <3>1, <4>1
      <4>. HIDE DEF old
      <4>4. n \notin Range(old) /\ n \in Unit
        BY <1>4, <1>6, <4>3
      <4>. HIDE DEF kept
      <4>5. Append(old, n) \in Seq(Unit)
        BY <3>1, <4>4
      <4>6. Range(Append(old, n)) = Range(old) \cup {n} /\ Distinct(Append(old, n))
        BY <3>1, <4>4, RangeAppend, DistinctAppend
      <4>. QED  BY <3>2, <3>5, <4>2, <4>3, <4>5, <4>6
    <3>. QED  BY <3>3, <3>4, <3>5
  <2>2. levelsList' = [l \in Level |-> levelsList'[l]]
    BY DEF Freed
  <2>. QED  BY <2>1, <2>2 DEF Listed
<1>12. TypeOK'
  BY <1>2, <1>11 DEF IInv, TypeOK
<1>13. \A b \in inUse' : free'[b] = 0
  <2>1. ASSUME NEW b \in inUse, b # c PROVE free'[b] = 0
    <3>1. b \in Unit /\ b \notin F
      BY <1>8, <2>1, BlocksAre
    <3>. QED  BY <1>2, <2>1, <3>1 DEF IInv
  <2>. QED  BY <1>2, <2>1
<1>14. Aligned' /\ Covered' /\ Apart'
  BY <1>9 DEF Tiled, Aligned, Covered, Apart, In
\* The block that was made has no free buddy.
<1>15. ASSUME NEW b \in FreeOnes', b # n, level'[b] = T, T # Top, b = BuddyOf(n, T) PROVE FALSE
  <2>1. b \in FreeOnes /\ level[b] = T
    BY <1>7, <1>10, <1>15
  <2>2. b = Sib(c, T)
    BY <1>15 DEF Sib, n
  <2>. QED  BY <1>2, <1>15, <2>1, <2>2 DEF FreeOnes
<1>16. Joined'
  <2>. SUFFICES ASSUME NEW a \in FreeOnes', NEW b \in FreeOnes', level'[a] = level'[b],
                       level'[a] # Top, b = BuddyOf(a, level'[a])
                PROVE  FALSE
    BY DEF Joined
  <2>1. a \in Unit /\ level'[a] \in Level /\ At(a, level'[a]) = a
    <3>1. a \in Blocks'
      BY DEF Blocks
    <3>. QED  BY <1>9, <3>1 DEF Tiled
  <2>2. b # a /\ BuddyOf(b, level'[a]) = a
    BY <2>1, HalvesOf
  <2>3. CASE a = n
    BY <1>2, <1>15, <2>2, <2>3
  <2>4. CASE b = n
    BY <1>2, <1>15, <2>2, <2>4
  <2>5. CASE a # n /\ b # n
    BY <1>7, <1>10, <2>5 DEF IInv, Joined
  <2>. QED  BY <2>3, <2>4, <2>5
<1>. QED  BY <1>11, <1>12, <1>13, <1>14, <1>16 DEF IInv

-----------------------------------------------------------------------------
(***************************************************************************)
(* The specification.                                                      *)
(***************************************************************************)
\* One free block, the heap.
LEMMA InitKeeps == Init => IInv
<1>. SUFFICES ASSUME Init PROVE IInv
  OBVIOUS
<1>1. /\ 0 \in Unit /\ 0 \in Level /\ Top \in Level /\ \A u \in Unit : At(u, Top) = 0
  BY AtEnds, LevelsAre
<1>2. /\ level = [u \in Unit |-> IF u = 0 THEN Top ELSE 0]
      /\ free = [u \in Unit |-> IF u = 0 THEN 1 ELSE 0]
      /\ levelsList = [l \in Level |-> IF l = Top THEN <<0>> ELSE <<>>]
      /\ inUse = {} /\ lost = FALSE
  BY DEF Init
<1>3. level[0] = Top /\ FreeOnes = {0} /\ Blocks = {0}
  BY <1>1, <1>2 DEF FreeOnes, Blocks
<1>4. <<0>> \in Seq(Unit) /\ Range(<<0>>) = {0} /\ Distinct(<<0>>)
  BY <1>1 DEF Range, Distinct
<1>5. <<>> \in Seq(Unit) /\ Range(<<>>) = {} /\ Distinct(<<>>)
  BY DEF Range, Distinct
<1>6. TypeOK
  BY <1>1, <1>2, <1>4, <1>5 DEF TypeOK
<1>7. Listed
  BY <1>2, <1>3, <1>4, <1>5 DEF Listed
<1>8. Aligned /\ Covered /\ Apart
  BY <1>1, <1>3 DEF Aligned, Covered, Apart, In
<1>9. Joined
  BY <1>3 DEF Joined
<1>. QED  BY <1>2, <1>6, <1>7, <1>8, <1>9 DEF IInv

\* Every call keeps the invariant.
LEMMA StepKeeps == IInv /\ [Next]_vars => IInv'
<1>. SUFFICES ASSUME IInv, [Next]_vars PROVE IInv'
  OBVIOUS
<1>1. ASSUME NEW nbytes \in Requests, Malloc(nbytes) PROVE IInv'
  BY <1>1, MallocIs, TakenKeeps
<1>2. ASSUME NEW nbytes \in Requests, MallocExhausted(nbytes) PROVE IInv'
  BY <1>2 DEF MallocExhausted, IInv, TypeOK, Listed, Aligned, Covered, Apart, Joined, In,
              Blocks, FreeOnes
<1>3. ASSUME NEW b \in inUse, Free(b) PROVE IInv'
  BY <1>3, FreeIs, FreedKeeps
<1>4. CASE UNCHANGED vars
  BY <1>4 DEF vars, IInv, TypeOK, Listed, Aligned, Covered, Apart, Joined, In, Blocks, FreeOnes
<1>. QED  BY <1>1, <1>2, <1>3, <1>4 DEF Next

\* The invariant.
LEMMA Invariant == Spec => []IInv
<1>. QED  BY InitKeeps, StepKeeps, PTL DEF Spec

\* Whatever programs allocate and free, in any order, until a request comes that no
\* block is left for: a header that says free is in the list of its level, once,
\* and a block in use in none (mallocCust and freeCust of buddy.c, for every heap).
THEOREM HeadersStayTrue == Spec => []HeadersMatchLists
<1>. QED  BY Invariant, InvariantLists, PTL

\* Every byte of the heap is always in one block, which begins where its buddy can be
\* found by flipping a bit: no two blocks handed out overlap, and none is ever lost.
THEOREM BuddiesTile == Spec => []HeapIsTiled
<1>. QED  BY Invariant, InvariantTiles, PTL

\* mallocCust finds no block of a level only when every place for one is in use: the
\* joining of freeCust, which goes up while the buddy is free, leaves no two free buddies.
THEOREM NothingIsHidden == Spec => []NoHiddenBlock
<1>. QED  BY Invariant, InvariantHidesNone, PTL
===============================================================================
