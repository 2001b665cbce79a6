--------------------------------- MODULE TextProofs ---------------------------------
(***************************************************************************)
(* What is done with text, for every number, every line and every key.     *)
(*                                                                         *)
(* The conversions: a number that either library writes reads back,        *)
(* whatever the number and the base; strtok cuts a line into its words,    *)
(* whatever the line.                                                      *)
(*                                                                         *)
(* The shell: what it keeps of the keys is the line that was typed, and    *)
(* what it does with a line is what Prompt says of the words of that line. *)
(*                                                                         *)
(* The operators of both are folds and recursive functions, and each is    *)
(* shown to be a run: a sequence of values, of which the next one is a     *)
(* function of the last.  Induction along the run then says what the fold  *)
(* is.                                                                     *)
(***************************************************************************)
EXTENDS Shell, Conversions, DataLemmas, SequenceTheorems

\* A set of numbers up to N has a greatest one, and without it they are below that one.
LEMMA MaxIs ==
  ASSUME NEW N \in Nat, NEW u \in SUBSET (1 .. N), u # {}
  PROVE  /\ Max(u) \in u /\ \A y \in u : y <= Max(u)
         /\ u \ {Max(u)} \in SUBSET (1 .. Max(u) - 1)
<1>1. u \in SUBSET (0 .. N)
  OBVIOUS
<1>2. PICK m \in u : \A y \in u : y <= m
  BY <1>1, GreatestNatural
<1>3. \A x, y \in u : (x >= y) <=> (y <= x)
  OBVIOUS
<1>4. Max(u) \in u /\ \A y \in u : y <= Max(u)
  BY <1>2, <1>3 DEF Max
<1>5. PICK M \in 1 .. N : M = Max(u)
  BY <1>4
<1>6. ASSUME NEW y \in u \ {M} PROVE y \in 1 .. M - 1
  <2>1. y \in 1 .. N /\ y # M /\ y <= M
    BY <1>4, <1>5
  <2>. QED  BY <2>1
<1>. QED  BY <1>4, <1>5, <1>6

\* The greatest of the first n numbers.
LEMMA MaxOfInterval ==
  ASSUME NEW n \in Nat
  PROVE  1 .. n + 1 # {} /\ Max(1 .. n + 1) = n + 1 /\ (1 .. n + 1) \ {n + 1} = 1 .. n
<1>. DEFINE N == n + 1
            u == 1 .. N
<1>1. N \in Nat /\ u # {} /\ u \in SUBSET (1 .. N) /\ N \in u /\ \A y \in u : y <= N
  OBVIOUS
<1>2. u \ {N} = 1 .. n
  OBVIOUS
<1>. HIDE DEF N, u
<1>3. Max(u) \in u /\ \A y \in u : y <= Max(u)
  BY <1>1, MaxIs
<1>4. Max(u) = N
  <2>1. PICK M \in u : M = Max(u)
    BY <1>3
  <2>2. M \in Nat /\ N <= M /\ M <= N
    BY <1>1, <1>3, <2>1
  <2>. QED  BY <1>1, <2>1, <2>2
<1>. QED  BY <1>1, <1>2, <1>4 DEF N, u

\* What a fold from the left makes of each set of places up to n, f[k][v] being what it
\* makes of v at place k.
LeftFold(g, f, x, n) ==
  \A u \in SUBSET (1 .. n) : g[u] = IF u = {} THEN x ELSE f[Max(u)][g[u \ {Max(u)}]]

HasLeftFold(V, f, x, n) == \E g \in [SUBSET (1 .. n) -> V] : LeftFold(g, f, x, n)

\* There is such a function.
LEMMA LeftFoldExists ==
  ASSUME NEW N \in Nat, NEW V, NEW x \in V, NEW f, \A k \in 1 .. N, v \in V : f[k][v] \in V
  PROVE  HasLeftFold(V, f, x, N)
<1>. DEFINE T == {n \in Nat : n <= N => HasLeftFold(V, f, x, n)}
<1>1. 0 \in T
  <2>. DEFINE g == [u \in SUBSET (1 .. 0) |-> x]
  <2>1. g \in [SUBSET (1 .. 0) -> V] /\ \A u \in SUBSET (1 .. 0) : u = {} /\ g[u] = x
    OBVIOUS
  <2>. HIDE DEF g
  <2>. QED  BY <2>1 DEF LeftFold, HasLeftFold
<1>2. ASSUME NEW n \in Nat, n \in T PROVE n + 1 \in T
  <2>. SUFFICES ASSUME n + 1 <= N
                PROVE  HasLeftFold(V, f, x, n + 1)
    OBVIOUS
  <2>0. n <= N
    OBVIOUS
  <2>1. PICK g \in [SUBSET (1 .. n) -> V] : LeftFold(g, f, x, n)
    BY <1>2, <2>0 DEF HasLeftFold
  <2>. DEFINE m == n + 1
              h == [u \in SUBSET (1 .. m) |-> IF m \in u THEN f[m][g[u \ {m}]] ELSE g[u]]
  <2>2. ASSUME NEW u \in SUBSET (1 .. m) PROVE u \ {m} \in SUBSET (1 .. n)
    <3>1. ASSUME NEW y \in u \ {m} PROVE y \in 1 .. n
      BY <2>2
    <3>. QED  BY <3>1
  <2>3. ASSUME NEW u \in SUBSET (1 .. n) PROVE u \in SUBSET (1 .. m) /\ m \notin u
    <3>1. ASSUME NEW y \in u PROVE y \in 1 .. m /\ y # m
      BY <2>3
    <3>. QED  BY <3>1
  <2>4. m \in 1 .. N /\ m \in Nat
    OBVIOUS
  <2>. HIDE DEF m
  <2>5. \A u \in SUBSET (1 .. m) : u \ {m} \in SUBSET (1 .. n) /\ (m \notin u => u \in SUBSET (1 .. n))
    <3>1. \A u : m \notin u => u \ {m} = u
      OBVIOUS
    <3>. QED  BY <2>2, <3>1
  <2>6. \A u \in SUBSET (1 .. m) : h[u] \in V
    BY <2>5, <2>4
  <2>7. h \in [SUBSET (1 .. m) -> V]
    BY <2>6
  <2>8. ASSUME NEW u \in SUBSET (1 .. m)
        PROVE  h[u] = IF u = {} THEN x ELSE f[Max(u)][h[u \ {Max(u)}]]
    <3>1. CASE m \in u
      <4>1. u # {} /\ Max(u) \in u /\ \A y \in u : y <= Max(u)
        BY <3>1, <2>4, MaxIs
      <4>2. Max(u) = m
        <5>1. PICK M \in 1 .. m : M = Max(u)
          BY <4>1
        <5>2. m <= M
          BY <3>1, <4>1, <5>1
        <5>. QED  BY <2>4, <5>1, <5>2
      <4>3. h[u] = f[m][g[u \ {m}]] /\ u \ {m} \in SUBSET (1 .. n)
        BY <3>1, <2>5
      <4>4. h[u \ {m}] = g[u \ {m}]
        BY <4>3, <2>3
      <4>. QED  BY <4>1, <4>2, <4>3, <4>4
    <3>2. CASE m \notin u
      <4>1. u \in SUBSET (1 .. n) /\ h[u] = g[u]
        BY <3>2, <2>5
      <4>2. u \ {Max(u)} \in SUBSET (1 .. n)
        BY <4>1
      <4>3. h[u \ {Max(u)}] = g[u \ {Max(u)}]
        BY <4>2, <2>3
      <4>. QED  BY <4>1, <4>3, <2>1 DEF LeftFold
    <3>. QED  BY <3>1, <3>2
  <2>. HIDE DEF h
  <2>. QED  BY <2>7, <2>8 DEF m, LeftFold, HasLeftFold
<1>. HIDE DEF T
<1>3. N \in T
  BY <1>1, <1>2, NatSetInduction
<1>. QED  BY <1>3 DEF T

-----------------------------------------------------------------------------
(***************************************************************************)
(* Words.                                                                  *)
(***************************************************************************)
\* How many places of S are not above i.
UpTo(S, i) == Cardinality({j \in S : j <= i})

\* It counts, and grows with each place of S.
LEMMA UpToGrows ==
  ASSUME NEW L \in Nat, NEW S \in SUBSET (1 .. L), NEW i \in Nat, NEW j \in S, i < j
  PROVE  UpTo(S, i) \in Nat /\ UpTo(S, j) \in Nat /\ UpTo(S, i) < UpTo(S, j)
<1>. DEFINE A == {k \in S : k <= i}
            B == {k \in S : k <= j}
<1>1. IsFiniteSet(1 .. L)
  BY FS_Interval
<1>2. IsFiniteSet(B)
  <2>1. B \subseteq 1 .. L
    OBVIOUS
  <2>. QED  BY <1>1, <2>1, FS_Subset
<1>0. \A k \in S : k \in Nat
  OBVIOUS
<1>3. A \subseteq B /\ j \in B /\ j \notin A
  <2>1. (\A k \in S : k <= i => k <= j) /\ j <= j /\ ~ (j <= i)
    BY <1>0
  <2>. QED  BY <2>1
<1>. HIDE DEF A, B
<1>4. IsFiniteSet(A) /\ Cardinality(A) \in Nat /\ Cardinality(B) \in Nat
  BY <1>2, <1>3, FS_Subset, FS_CardinalityType
<1>5. Cardinality(A) < Cardinality(B)
  <2>1. A # B
    BY <1>3
  <2>2. A \in SUBSET B
    BY <1>3
  <2>3. Cardinality(A) <= Cardinality(B) /\ (Cardinality(B) = Cardinality(A) => B = A)
    BY <1>2, <2>2, FS_Subset
  <2>. QED  BY <1>4, <2>1, <2>3
<1>. QED  BY <1>4, <1>5 DEF A, B, UpTo

\* The next place adds one if it is in S, and nothing otherwise.
LEMMA UpToNext ==
  ASSUME NEW L \in Nat, NEW S \in SUBSET (1 .. L), NEW i \in Nat
  PROVE  /\ UpTo(S, i) \in Nat
         /\ i >= L => UpTo(S, i) = Cardinality(S)
         /\ i + 1 \in S => UpTo(S, i + 1) = UpTo(S, i) + 1
         /\ i + 1 \notin S => UpTo(S, i + 1) = UpTo(S, i)
<1>. DEFINE A == {k \in S : k <= i}
            B == {k \in S : k <= i + 1}
<1>1. IsFiniteSet(1 .. L)
  BY FS_Interval
<1>2. A \subseteq 1 .. L
  OBVIOUS
<1>3. IsFiniteSet(A) /\ Cardinality(A) \in Nat
  BY <1>1, <1>2, FS_Subset, FS_CardinalityType
<1>0. \A k \in S : k \in Nat /\ k <= L
  OBVIOUS
<1>4. i >= L => A = S
  <2>1. i >= L => \A k \in S : k <= i
    BY <1>0
  <2>. QED  BY <2>1
<1>5. i + 1 \notin A /\ B = IF i + 1 \in S THEN A \cup {i + 1} ELSE A
  <2>1. \A k \in S : k <= i + 1 <=> k <= i \/ k = i + 1
    BY <1>0
  <2>2. ~ (i + 1 <= i)
    OBVIOUS
  <2>. QED  BY <2>1, <2>2
<1>. HIDE DEF A, B
<1>6. Cardinality(A \cup {i + 1}) = Cardinality(A) + 1
  BY <1>3, <1>5, FS_AddElement
<1>. QED  BY <1>3, <1>4, <1>5, <1>6 DEF A, B, UpTo

\* The nth start is the one up to which there are n.
LEMMA StartIs ==
  ASSUME NEW C, NEW str \in Seq(C), NEW delim, NEW i \in Starts(str, delim)
  PROVE  i = Start(str, delim, UpTo(Starts(str, delim), i))
<1>. DEFINE S == Starts(str, delim)
            n == UpTo(S, i)
            s == Start(str, delim, n)
<1>1. Len(str) \in Nat /\ S \in SUBSET (1 .. Len(str))
  BY DEF Starts
<1>2. s \in S /\ UpTo(S, s) = n
  <2>1. s = CHOOSE k \in S : UpTo(S, k) = n
    BY DEF Start, UpTo
  <2>2. \E k \in S : UpTo(S, k) = n
    OBVIOUS
  <2>. HIDE DEF n, S, s
  <2>. QED  BY <2>1, <2>2
<1>3. i \in S /\ n = UpTo(S, i)
  OBVIOUS
<1>. HIDE DEF n, S, s
<1>6. s \in Nat /\ i \in Nat
  BY <1>1, <1>2, <1>3
<1>4. ~ (s < i)
  <2>1. s < i => UpTo(S, s) < UpTo(S, i) /\ UpTo(S, i) \in Nat
    BY <1>1, <1>3, <1>6, UpToGrows
  <2>. QED  BY <1>2, <1>3, <2>1
<1>5. ~ (i < s)
  <2>1. i < s => UpTo(S, i) < UpTo(S, s) /\ UpTo(S, i) \in Nat
    BY <1>1, <1>2, <1>6, UpToGrows
  <2>. QED  BY <1>2, <1>3, <2>1
<1>7. s = i
  BY <1>4, <1>5, <1>6
<1>. QED  BY <1>7 DEF s, n, S

\* A word ends.
LEMMA EndIs ==
  ASSUME NEW C, NEW str \in Seq(C), NEW delim, NEW i \in DOMAIN str, str[i] # delim
  PROVE  LET e == End(str, delim, i) IN
         /\ e \in i .. Len(str) /\ \A k \in i .. e : str[k] # delim
         /\ e = Len(str) \/ str[e + 1] = delim
<1>. DEFINE L == Len(str)
            Ends(j) == (\A k \in i .. j : str[k] # delim) /\ (j = L \/ str[j + 1] = delim)
            T == {j \in i .. L : j = L \/ str[j + 1] = delim}
<1>1. L \in Nat /\ i \in 1 .. L /\ L \in T /\ T \in SUBSET Nat
  OBVIOUS
<1>2. PICK m \in T : \A n \in T : m <= n
  BY <1>1, LeastNatural
<1>3. ASSUME NEW k \in i .. m, str[k] = delim PROVE FALSE
  <2>1. k # i /\ k - 1 \in i .. L /\ (k - 1) + 1 = k
    BY <1>1, <1>2, <1>3
  <2>2. k - 1 \in T
    BY <1>3, <2>1
  <2>3. m <= k - 1
    BY <1>2, <2>2
  <2>. QED  BY <1>1, <1>2, <2>3
<1>4. m \in i .. L /\ Ends(m)
  BY <1>2, <1>3
<1>5. \E j \in i .. L : Ends(j)
  BY <1>4
<1>6. End(str, delim, i) = CHOOSE j \in i .. L : Ends(j)
  BY DEF End
<1>. QED  BY <1>5, <1>6

\* And only in one place.
LEMMA EndOnly ==
  ASSUME NEW C, NEW str \in Seq(C), NEW delim, NEW i \in DOMAIN str, NEW e \in i .. Len(str),
         \A k \in i .. e : str[k] # delim, e = Len(str) \/ str[e + 1] = delim
  PROVE  End(str, delim, i) = e
<1>1. i \in i .. e /\ str[i] # delim
  OBVIOUS
<1>. DEFINE d == End(str, delim, i)
<1>2. d \in i .. Len(str) /\ (\A k \in i .. d : str[k] # delim) /\ (d = Len(str) \/ str[d + 1] = delim)
  BY <1>1, EndIs
<1>. HIDE DEF d
<1>3. Len(str) \in Nat /\ i \in Nat
  OBVIOUS
<1>4. ~ (d < e)
  <2>1. d < e => d + 1 \in i .. e /\ d # Len(str)
    BY <1>2, <1>3
  <2>. QED  BY <2>1, <1>2
<1>5. ~ (e < d)
  <2>1. e < d => e + 1 \in i .. d /\ e # Len(str)
    BY <1>2, <1>3
  <2>. QED  BY <2>1, <1>2
<1>6. d = e
  BY <1>2, <1>3, <1>4, <1>5
<1>. QED  BY <1>6 DEF d

-----------------------------------------------------------------------------
(***************************************************************************)
(* tokenizeBuffer, turn by turn.                                           *)
(***************************************************************************)
TokenStart(source, token) ==
  [memory |-> source, dest |-> IF source[1] \in {token, NUL} THEN <<>> ELSE <<1>>, full |-> FALSE]

\* What is there after the turns at the places of each set of them.
TokenFold(g, source, token, max, places) ==
  g = [u \in SUBSET DOMAIN places |->
         IF u = {} THEN TokenStart(source, token)
         ELSE TokenStep(g[u \ {Max(u)}], places[Max(u)], token, max)]

\* The state h[n] after the first n turns.
Turns(h, source, token, max, L) ==
  /\ h[0] = TokenStart(source, token)
  /\ \A n \in Nat : n < L => h[n + 1] = TokenStep(h[n], n + 1, token, max)

TokenState(C) == [memory : Seq(C), dest : Seq(Nat), full : BOOLEAN]

\* A turn keeps its types.
LEMMA TokenStepType ==
  ASSUME NEW C, NUL \in C, NEW s \in TokenState(C), NEW i \in Nat, NEW token, NEW max
  PROVE  TokenStep(s, i, token, max) \in TokenState(C)
<1>. DEFINE cut == [s EXCEPT !.memory[i] = NUL]
<1>1. s.memory \in Seq(C) /\ s.dest \in Seq(Nat) /\ s.full \in BOOLEAN /\ i + 1 \in Nat
  BY DEF TokenState
<1>2. [s.memory EXCEPT ![i] = NUL] \in Seq(C)
  <2>1. PICK m \in Seq(C) : m = s.memory
    BY <1>1
  <2>2. Len(m) \in Nat /\ DOMAIN m = 1 .. Len(m) /\ \A k \in 1 .. Len(m) : m[k] \in C
    OBVIOUS
  <2>. DEFINE t == [k \in 1 .. Len(m) |-> IF k = i THEN NUL ELSE m[k]]
  <2>3. t \in Seq(C)
    BY <2>2
  <2>4. [m EXCEPT ![i] = NUL] = t
    BY <2>2
  <2>. QED  BY <2>1, <2>3, <2>4
<1>3. cut \in TokenState(C)
  BY <1>2 DEF TokenState
<1>4. [cut EXCEPT !.full = TRUE] \in TokenState(C)
  BY <1>3 DEF TokenState
<1>5. [cut EXCEPT !.dest = Append(@, i + 1)] \in TokenState(C)
  <2>1. cut.dest \in Seq(Nat)
    BY <1>3 DEF TokenState
  <2>2. Append(cut.dest, i + 1) \in Seq(Nat)
    BY <1>1, <2>1
  <2>. HIDE DEF cut
  <2>. QED  BY <1>3, <2>2 DEF TokenState
<1>. QED  BY <1>3, <1>4, <1>5 DEF TokenStep

\* Those turns make what tokenizeBuffer answers.
Tokenizes(h, source, token, max, L) ==
  /\ Turns(h, source, token, max, L)
  /\ tokenizeBuffer(token, source, max)
       = [n \in DOMAIN h[L].dest |-> CString(h[L].memory, h[L].dest[n])]

\* The fold is those turns.
LEMMA TokenizeTurns ==
  ASSUME NEW C, NUL \in C, NEW source \in Seq(C), NEW token, NEW max,
         NEW L \in Nat, EndOf(source, 1) = L + 1
  PROVE  \E h : Tokenizes(h, source, token, max, L)
<1>. DEFINE places == [i \in 1 .. L |-> i]
            V == TokenState(C)
            x == TokenStart(source, token)
            f == [k \in 1 .. L |-> [v \in V |-> TokenStep(v, k, token, max)]]
            g == CHOOSE g : TokenFold(g, source, token, max, places)
<1>1. DOMAIN places = 1 .. L /\ \A i \in 1 .. L : places[i] = i
  OBVIOUS
<1>2. x \in V
  BY DEF TokenStart, TokenState
<1>3. \A k \in 1 .. L, v \in V : f[k][v] = TokenStep(v, k, token, max) /\ f[k][v] \in V
  BY TokenStepType
<1>. HIDE DEF f, V
<1>4. HasLeftFold(V, f, x, L)
  BY <1>2, <1>3, LeftFoldExists
<1>5. PICK e \in [SUBSET (1 .. L) -> V] : LeftFold(e, f, x, L)
  BY <1>4 DEF HasLeftFold
<1>6. ASSUME NEW u \in SUBSET (1 .. L)
      PROVE  e[u] = IF u = {} THEN x ELSE TokenStep(e[u \ {Max(u)}], places[Max(u)], token, max)
  <2>1. u # {} => Max(u) \in 1 .. L /\ u \ {Max(u)} \in SUBSET (1 .. L)
    BY MaxIs
  <2>2. u # {} => e[u \ {Max(u)}] \in V
    BY <2>1
  <2>3. e[u] = IF u = {} THEN x ELSE f[Max(u)][e[u \ {Max(u)}]]
    BY <1>5 DEF LeftFold
  <2>. QED  BY <1>1, <1>3, <2>1, <2>2, <2>3
<1>. HIDE DEF places, x
<1>7. TokenFold(e, source, token, max, places)
  BY <1>1, <1>6 DEF TokenFold, x
<1>8. TokenFold(g, source, token, max, places)
  BY <1>7
<1>9. tokenizeBuffer(token, source, max)
        = [n \in DOMAIN g[1 .. L].dest |-> CString(g[1 .. L].memory, g[1 .. L].dest[n])]
  <2>1. EndOf(source, 1) - 1 = L
    OBVIOUS
  <2>2. places = [i \in 1 .. EndOf(source, 1) - 1 |-> i]
    BY <2>1 DEF places
  <2>3. FoldLeft(LAMBDA s, i : TokenStep(s, i, token, max), TokenStart(source, token), places)
          = g[DOMAIN places]
    BY Zenon DEF FoldLeft, MapThenFoldSet, TokenFold
  <2>4. tokenizeBuffer(token, source, max)
          = LET end == FoldLeft(LAMBDA s, i : TokenStep(s, i, token, max), TokenStart(source, token), places)
            IN [n \in DOMAIN end.dest |-> CString(end.memory, end.dest[n])]
    BY <2>2, Zenon DEF tokenizeBuffer, TokenStart
  <2>. HIDE DEF g
  <2>. QED  BY <1>1, <2>3, <2>4, Zenon
<1>. HIDE DEF g
<1>10. \A u \in SUBSET (1 .. L) :
         g[u] = IF u = {} THEN x ELSE TokenStep(g[u \ {Max(u)}], places[Max(u)], token, max)
  BY <1>1, <1>8 DEF TokenFold, x
<1>. DEFINE h == [n \in 0 .. L |-> g[1 .. n]]
<1>11. h[0] = x
  <2>1. 1 .. 0 = {} /\ h[0] = g[1 .. 0] /\ {} \in SUBSET (1 .. L)
    OBVIOUS
  <2>. HIDE DEF h
  <2>. QED  BY <1>10, <2>1
<1>12. ASSUME NEW n \in Nat, n < L PROVE h[n + 1] = TokenStep(h[n], n + 1, token, max)
  <2>1. 1 .. n + 1 # {} /\ Max(1 .. n + 1) = n + 1 /\ (1 .. n + 1) \ {n + 1} = 1 .. n
    BY MaxOfInterval
  <2>2. n + 1 \in 1 .. L /\ n + 1 \in 0 .. L /\ n \in 0 .. L /\ 1 .. n + 1 \in SUBSET (1 .. L)
    BY <1>12
  <2>3. g[1 .. n + 1] = TokenStep(g[1 .. n], n + 1, token, max)
    BY <1>1, <1>10, <2>1, <2>2
  <2>. QED  BY <2>2, <2>3
<1>13. h[L] = g[1 .. L]
  OBVIOUS
<1>14. Turns(h, source, token, max, L)
  <2>. HIDE DEF h
  <2>. QED  BY <1>11, <1>12 DEF Turns, x
<1>. HIDE DEF h
<1>15. Tokenizes(h, source, token, max, L)
  BY <1>9, <1>13, <1>14 DEF Tokenizes
<1>. QED  BY <1>15

\* A line at the beginning of the memory, with its end behind it.
LineAt(C, source, token, L) ==
  /\ NUL \in C /\ source \in Seq(C) /\ token # NUL /\ L \in Nat /\ L + 1 \in DOMAIN source
  /\ source[L + 1] = NUL /\ \A k \in 1 .. L : source[k] # NUL

\* After n turns: the delimiters up to place f are ends of words, f being n unless there
\* were more words than fit, and dest has the starts of words up to the next place.
TokenLoop(s, n, source, token, max, L) ==
  LET S == Starts(SubSeq(source, 1, L), token) IN
  \E f \in 0 .. n :
    /\ s.memory = [i \in DOMAIN source |-> IF i <= f /\ source[i] = token THEN NUL ELSE source[i]]
    /\ s.full \in BOOLEAN /\ s.dest \in Seq(S) /\ Len(s.dest) <= max
    /\ \A m \in DOMAIN s.dest : UpTo(S, s.dest[m]) = m
    /\ ~ s.full => f = n /\ Len(s.dest) = UpTo(S, n + 1)
    /\ s.full => f # 0 /\ source[f] = token /\ Len(s.dest) = max /\ UpTo(S, f) = max /\ f + 1 \in S

\* Where words of the line start, in the memory.
LEMMA StartsInMemory ==
  ASSUME NEW C, NEW source, NEW token, NEW L, LineAt(C, source, token, L)
  PROVE  LET S == Starts(SubSeq(source, 1, L), token) IN
         /\ S \in SUBSET (1 .. L)
         /\ 1 \in S <=> source[1] \notin {token, NUL}
         /\ \A k \in 1 .. L : k + 1 \in S <=> source[k] = token /\ source[k + 1] \notin {token, NUL}
<1>. DEFINE text == SubSeq(source, 1, L)
            S == Starts(text, token)
<1>1. L \in Nat /\ source \in Seq(C) /\ L + 1 \in 1 .. Len(source) /\ Len(source) \in Nat
  BY DEF LineAt
<1>2. text \in Seq(C) /\ DOMAIN text = 1 .. L /\ \A k \in 1 .. L : text[k] = source[k]
  BY <1>1
<1>. HIDE DEF text
<1>3. S = {k \in 1 .. L : source[k] # token /\ (k = 1 \/ text[k - 1] = token)}
  BY <1>2 DEF Starts
<1>4. \A k \in 1 .. L : k # 1 => text[k - 1] = source[k - 1]
  BY <1>1, <1>2
<1>5. S = {k \in 1 .. L : source[k] # token /\ (k = 1 \/ source[k - 1] = token)}
  BY <1>3, <1>4
<1>. HIDE DEF S
<1>6. 1 \in S <=> source[1] \notin {token, NUL}
  <2>1. 1 \in 1 .. L \/ 1 = L + 1
    BY <1>1
  <2>. QED  BY <1>1, <1>5, <2>1 DEF LineAt
<1>7. ASSUME NEW k \in 1 .. L
      PROVE  k + 1 \in S <=> source[k] = token /\ source[k + 1] \notin {token, NUL}
  <2>1. k + 1 \in 1 .. L \/ k + 1 = L + 1
    BY <1>1
  <2>2. (k + 1) - 1 = k /\ k + 1 # 1 /\ L + 1 \notin 1 .. L
    BY <1>1
  <2>. QED  BY <1>1, <1>5, <2>1, <2>2 DEF LineAt
<1>. QED  BY <1>5, <1>6, <1>7 DEF S, text

\* It is so before the first turn.
LEMMA TokenLoopStarts ==
  ASSUME NEW C, NEW source, NEW token, NEW L, LineAt(C, source, token, L), NEW max \in Nat, max >= 1
  PROVE  TokenLoop(TokenStart(source, token), 0, source, token, max, L)
<1>. DEFINE S == Starts(SubSeq(source, 1, L), token)
            s == TokenStart(source, token)
<1>1. S \in SUBSET (1 .. L) /\ (1 \in S <=> source[1] \notin {token, NUL})
  BY StartsInMemory
<1>2. L \in Nat /\ source \in Seq(C)
  BY DEF LineAt
<1>. HIDE DEF S
<1>3. UpTo(S, 0) = 0
  <2>1. \A j \in S : ~ (j <= 0)
    BY <1>1
  <2>2. {j \in S : j <= 0} = {}
    BY <2>1
  <2>. QED  BY <2>2, FS_EmptySet DEF UpTo
<1>4. UpTo(S, 1) = IF 1 \in S THEN 1 ELSE 0
  <2>1. \A i \in Nat : UpTo(S, i + 1) = IF i + 1 \in S THEN UpTo(S, i) + 1 ELSE UpTo(S, i)
    BY <1>1, <1>2, UpToNext
  <2>. QED  BY <1>3, <2>1
<1>5. s.memory = [i \in DOMAIN source |-> IF i <= 0 /\ source[i] = token THEN NUL ELSE source[i]]
  BY <1>2 DEF TokenStart
<1>6. s.full = FALSE /\ s.dest = IF 1 \in S THEN <<1>> ELSE <<>>
  BY <1>1 DEF TokenStart
<1>. HIDE DEF s
<1>7. s.dest \in Seq(S) /\ Len(s.dest) = UpTo(S, 1) /\ \A m \in DOMAIN s.dest : UpTo(S, s.dest[m]) = m
  <2>1. CASE 1 \in S
    <3>1. <<1>> \in Seq(S) /\ Len(<<1>>) = 1 /\ DOMAIN <<1>> = {1} /\ <<1>>[1] = 1
      BY <2>1
    <3>. QED  BY <1>4, <1>6, <2>1, <3>1
  <2>2. CASE 1 \notin S
    BY <1>4, <1>6, <2>2
  <2>. QED  BY <2>1, <2>2
<1>8. Len(s.dest) <= max
  BY <1>4, <1>7
<1>9. 0 \in 0 .. 0 /\ 0 + 1 = 1
  OBVIOUS
<1>. QED  BY <1>5, <1>6, <1>7, <1>8, <1>9 DEF TokenLoop, S, s

\* And after each.
LEMMA TokenLoopStep ==
  ASSUME NEW C, NEW source, NEW token, NEW L, LineAt(C, source, token, L), NEW max \in Nat,
         NEW n \in Nat, n < L, NEW s, TokenLoop(s, n, source, token, max, L)
  PROVE  TokenLoop(TokenStep(s, n + 1, token, max), n + 1, source, token, max, L)
<1>. DEFINE S == Starts(SubSeq(source, 1, L), token)
            k == n + 1
            t == TokenStep(s, k, token, max)
            Cut(f) == [i \in DOMAIN source |-> IF i <= f /\ source[i] = token THEN NUL ELSE source[i]]
            OK(r, f) ==
              /\ r.memory = Cut(f)
              /\ r.full \in BOOLEAN /\ r.dest \in Seq(S) /\ Len(r.dest) <= max
              /\ \A m \in DOMAIN r.dest : UpTo(S, r.dest[m]) = m
            Full(r, f) == r.full => /\ f # 0 /\ source[f] = token /\ Len(r.dest) = max
                                    /\ UpTo(S, f) = max /\ f + 1 \in S
<1>1. /\ S \in SUBSET (1 .. L)
      /\ \A i \in 1 .. L : i + 1 \in S <=> source[i] = token /\ source[i + 1] \notin {token, NUL}
  BY StartsInMemory
<1>2. L \in Nat /\ source \in Seq(C) /\ L + 1 \in DOMAIN source /\ DOMAIN source = 1 .. Len(source)
      /\ Len(source) \in Nat /\ token # NUL
  BY DEF LineAt
<1>3. PICK f \in 0 .. n : OK(s, f) /\ Full(s, f) /\ (~ s.full => f = n /\ Len(s.dest) = UpTo(S, k))
  BY DEF TokenLoop
<1>4. SUFFICES \E d \in 0 .. k : OK(t, d) /\ Full(t, d) /\ (~ t.full => d = k /\ Len(t.dest) = UpTo(S, k + 1))
  BY DEF TokenLoop
<1>5. k \in 1 .. L /\ k \in Nat /\ k \in DOMAIN source /\ k + 1 \in DOMAIN source /\ f \in Nat /\ f <= n /\ f < k
  BY <1>2
<1>6. UpTo(S, k) \in Nat /\ UpTo(S, k + 1) = IF k + 1 \in S THEN UpTo(S, k) + 1 ELSE UpTo(S, k)
  <2>1. L \in Nat /\ S \in SUBSET (1 .. L) /\ k \in Nat
    BY <1>1, <1>2, <1>5
  <2>. HIDE DEF S, k
  <2>2. /\ UpTo(S, k) \in Nat
        /\ k + 1 \in S => UpTo(S, k + 1) = UpTo(S, k) + 1
        /\ k + 1 \notin S => UpTo(S, k + 1) = UpTo(S, k)
    BY <2>1, UpToNext
  <2>. QED  BY <2>2
<1>7. k + 1 \in S <=> source[k] = token /\ source[k + 1] \notin {token, NUL}
  BY <1>1, <1>5
<1>. HIDE DEF S, k
<1>8. CASE s.full
  <2>1. t = s
    BY <1>8 DEF TokenStep
  <2>2. f \in 0 .. k
    BY <1>5
  <2>. HIDE DEF t, OK, Full
  <2>. QED  BY <1>3, <1>8, <2>1, <2>2
<1>9. CASE ~ s.full
  <2>1. s.memory = Cut(f) /\ Len(s.dest) = UpTo(S, k) /\ f = n
    BY <1>3, <1>9
  <2>2. s.memory[k] = source[k] /\ s.memory[k + 1] = source[k + 1]
    BY <1>5, <2>1
  <2>3. k \in 0 .. k
    BY <1>5
  <2>4. CASE source[k] # token
    <3>1. t = s /\ UpTo(S, k + 1) = UpTo(S, k)
      BY <1>6, <1>7, <2>2, <2>4 DEF TokenStep
    <3>2. Cut(k) = Cut(f)
      <4>1. ASSUME NEW i \in DOMAIN source PROVE (i <= k /\ source[i] = token) <=> (i <= f /\ source[i] = token)
        BY <1>2, <1>5, <2>1, <2>4 DEF k
      <4>. QED  BY <4>1
    <3>3. OK(s, k)
      BY <1>3, <2>1, <3>2
    <3>4. Full(s, k)
      BY <1>9
    <3>. HIDE DEF t, OK, Full
    <3>. QED  BY <1>9, <2>1, <2>3, <3>1, <3>3, <3>4
  <2>5. CASE source[k] = token
    <3>. DEFINE cut == [s EXCEPT !.memory[k] = NUL]
    <3>1. cut.memory = Cut(k) /\ cut.dest = s.dest /\ cut.full = FALSE
      <4>1. [s.memory EXCEPT ![k] = NUL] = Cut(k)
        <5>1. ASSUME NEW i \in DOMAIN source
              PROVE  (i <= k /\ source[i] = token) <=> (i = k \/ (i <= f /\ source[i] = token))
          BY <1>2, <1>5, <2>1, <2>5 DEF k
        <5>2. DOMAIN s.memory = DOMAIN source
          BY <2>1
        <5>. QED  BY <1>5, <2>1, <5>1, <5>2
      <4>. QED  BY <4>1, <1>9, <1>3
    <3>2. OK(cut, k)
      BY <1>3, <3>1
    <3>3. CASE source[k + 1] \in {token, NUL}
      <4>1. t = cut /\ UpTo(S, k + 1) = UpTo(S, k)
        BY <1>6, <1>7, <1>9, <2>2, <2>5, <3>3 DEF TokenStep
      <4>2. Full(cut, k)
        BY <3>1
      <4>. HIDE DEF t, OK, Full, cut
      <4>. QED  BY <2>1, <2>3, <3>1, <3>2, <4>1, <4>2
    <3>4. CASE source[k + 1] \notin {token, NUL} /\ Len(s.dest) >= max
      <4>1. t = [cut EXCEPT !.full = TRUE]
        BY <1>9, <2>2, <2>5, <3>1, <3>4 DEF TokenStep
      <4>2. t.full = TRUE /\ t.memory = Cut(k) /\ t.dest = s.dest
        BY <3>1, <4>1
      <4>3. Len(s.dest) = max /\ k + 1 \in S
        BY <1>3, <1>6, <1>7, <2>1, <2>5, <3>4
      <4>. HIDE DEF t, cut
      <4>4. OK(t, k)
        BY <1>3, <4>2
      <4>5. UpTo(S, k) = max /\ k # 0
        BY <1>5, <2>1, <4>3
      <4>6. Full(t, k)
        BY <2>5, <4>2, <4>3, <4>5
      <4>. QED  BY <2>3, <4>2, <4>4, <4>6
    <3>5. CASE source[k + 1] \notin {token, NUL} /\ ~ (Len(s.dest) >= max)
      <4>1. t = [cut EXCEPT !.dest = Append(@, k + 1)]
        BY <1>9, <2>2, <2>5, <3>1, <3>5 DEF TokenStep
      <4>2. t.full = FALSE /\ t.memory = Cut(k) /\ t.dest = Append(s.dest, k + 1)
        BY <3>1, <4>1
      <4>3. k + 1 \in S /\ UpTo(S, k + 1) = Len(s.dest) + 1
        BY <1>6, <1>7, <2>1, <2>5, <3>5
      <4>4. PICK d \in Seq(S) : d = s.dest
        BY <1>3
      <4>5. PICK x \in S : x = k + 1
        BY <4>3
      <4>5a. PICK e \in Seq(S) : e = Append(d, x)
        BY AppendProperties
      <4>5b. /\ Len(e) = Len(d) + 1 /\ Len(d) \in Nat
             /\ e[Len(d) + 1] = x /\ \A m \in 1 .. Len(d) : e[m] = d[m]
        BY <4>5a, AppendProperties
      <4>6. ASSUME NEW m \in DOMAIN e PROVE UpTo(S, e[m]) = m
        <5>1. CASE m = Len(d) + 1
          BY <4>3, <4>4, <4>5, <4>5b, <5>1
        <5>2. CASE m # Len(d) + 1
          <6>1. m \in DOMAIN d /\ e[m] = d[m]
            BY <4>5b, <5>2
          <6>. QED  BY <1>3, <4>4, <6>1
        <5>. QED  BY <5>1, <5>2
      <4>7. Len(e) <= max
        BY <3>5, <4>4, <4>5b
      <4>. HIDE DEF t, cut
      <4>8. OK(t, k) /\ Full(t, k)
        BY <4>2, <4>4, <4>5, <4>5a, <4>6, <4>7
      <4>. QED  BY <2>3, <4>2, <4>3, <4>4, <4>5, <4>5a, <4>5b, <4>8
    <3>. QED  BY <3>3, <3>4, <3>5
  <2>. QED  BY <2>4, <2>5
<1>. QED  BY <1>3, <1>8, <1>9

\* Where a string ends.
LEMMA EndOfIs ==
  ASSUME NEW C, NEW memory \in Seq(C), NEW i \in DOMAIN memory, NEW j \in i .. Len(memory),
         memory[j] = NUL, \A k \in i .. j - 1 : memory[k] # NUL
  PROVE  EndOf(memory, i) = j
<1>. DEFINE Ends(m) == memory[m] = NUL /\ \A k \in i .. m - 1 : memory[k] # NUL
            e == EndOf(memory, i)
<1>1. e = CHOOSE m \in i .. Len(memory) : Ends(m)
  BY DEF EndOf
<1>2. e \in i .. Len(memory) /\ Ends(e)
  <2>1. j \in i .. Len(memory) /\ Ends(j)
    OBVIOUS
  <2>. HIDE DEF e, Ends
  <2>. QED  BY <1>1, <2>1
<1>. HIDE DEF e
<1>3. Len(memory) \in Nat /\ i \in Nat /\ j \in Nat /\ e \in Nat
  BY <1>2
<1>4. ~ (e < j)
  <2>1. e < j => e \in i .. j - 1
    BY <1>2, <1>3
  <2>. QED  BY <2>1, <1>2
<1>5. ~ (j < e)
  <2>1. j < e => j \in i .. e - 1
    BY <1>2, <1>3
  <2>. QED  BY <2>1, <1>2
<1>6. e = j
  BY <1>3, <1>4, <1>5
<1>. QED  BY <1>6 DEF e

\* The words of a line, the first max of them.
FirstWords(argv, C, text, token, max) ==
  LET words == Words(text, token) IN
  /\ argv \in Seq(Seq(C) \ {<<>>})
  /\ argv = SubSeq(words, 1, IF Len(words) < max THEN Len(words) ELSE max)

\* tokenizeBuffer cuts a line into them.
LEMMA TokenizedWords ==
  ASSUME NEW C, NEW source, NEW token, NEW L, LineAt(C, source, token, L), NEW max \in Nat, max >= 1
  PROVE  FirstWords(tokenizeBuffer(token, source, max), C, SubSeq(source, 1, L), token, max)
<1>. DEFINE text == SubSeq(source, 1, L)
            S == Starts(text, token)
            N == Cardinality(S)
            words == Words(text, token)
<1>1. /\ L \in Nat /\ source \in Seq(C) /\ L + 1 \in 1 .. Len(source) /\ Len(source) \in Nat
      /\ NUL \in C /\ token # NUL /\ source[L + 1] = NUL /\ \A k \in 1 .. L : source[k] # NUL
  BY DEF LineAt
<1>2. text \in Seq(C) /\ Len(text) = L /\ \A k \in 1 .. L : text[k] = source[k]
  BY <1>1
<1>3. S \in SUBSET (1 .. L)
  BY StartsInMemory
<1>4. EndOf(source, 1) = L + 1
  BY <1>1, EndOfIs
<1>5. PICK h : Tokenizes(h, source, token, max, L)
  <2>1. L \in Nat /\ source \in Seq(C) /\ NUL \in C
    BY <1>1
  <2>. QED  BY <2>1, <1>4, TokenizeTurns, Zenon
<1>6. TokenLoop(h[L], L, source, token, max, L)
  <2>. DEFINE T == {n \in Nat : n <= L => TokenLoop(h[n], n, source, token, max, L)}
  <2>1. 0 \in T
    BY <1>5, TokenLoopStarts DEF Turns, Tokenizes
  <2>2. ASSUME NEW n \in Nat, n \in T PROVE n + 1 \in T
    <3>. SUFFICES ASSUME n + 1 <= L
                  PROVE  TokenLoop(h[n + 1], n + 1, source, token, max, L)
      OBVIOUS
    <3>1. n < L /\ n <= L
      BY <1>1
    <3>2. TokenLoop(h[n], n, source, token, max, L)
      BY <2>2, <3>1
    <3>3. h[n + 1] = TokenStep(h[n], n + 1, token, max)
      BY <1>5, <3>1 DEF Turns, Tokenizes
    <3>. QED  BY <3>1, <3>2, <3>3, TokenLoopStep
  <2>. HIDE DEF T
  <2>3. L \in T
    BY <1>1, <2>1, <2>2, NatSetInduction
  <2>. QED  BY <2>3 DEF T
<1>7. PICK s : s = h[L]
  OBVIOUS
<1>. DEFINE Cut(f) == [i \in DOMAIN source |-> IF i <= f /\ source[i] = token THEN NUL ELSE source[i]]
<1>8. PICK f \in 0 .. L :
        /\ s.memory = Cut(f) /\ s.full \in BOOLEAN /\ s.dest \in Seq(S) /\ Len(s.dest) <= max
        /\ \A m \in DOMAIN s.dest : UpTo(S, s.dest[m]) = m
        /\ ~ s.full => f = L /\ Len(s.dest) = UpTo(S, L + 1)
        /\ s.full => f # 0 /\ source[f] = token /\ Len(s.dest) = max /\ UpTo(S, f) = max /\ f + 1 \in S
  BY <1>6, <1>7 DEF TokenLoop
<1>9. PICK dest \in Seq(S) : dest = s.dest
  BY <1>8
<1>10. Len(dest) \in Nat /\ DOMAIN dest = 1 .. Len(dest) /\ \A m \in DOMAIN dest : dest[m] \in S
  BY <1>9
<1>11. ASSUME NEW d \in S PROVE /\ d \in DOMAIN text /\ text[d] # token
                                /\ End(text, token, d) \in d .. L
                                /\ \A k \in d .. End(text, token, d) : text[k] # token
                                /\ End(text, token, d) = L \/ text[End(text, token, d) + 1] = token
  <2>1. d \in DOMAIN text /\ text[d] # token
    BY <1>11 DEF Starts
  <2>. HIDE DEF text, S
  <2>. QED  BY <2>1, <1>2, EndIs
<1>12. N \in Nat /\ \A i \in Nat : UpTo(S, i) \in Nat /\ UpTo(S, i) <= N /\ (i >= L => UpTo(S, i) = N)
  <2>1. IsFiniteSet(1 .. L)
    BY <1>1, FS_Interval
  <2>2. IsFiniteSet(S) /\ N \in Nat
    BY <1>3, <2>1, FS_Subset, FS_CardinalityType
  <2>3. ASSUME NEW i \in Nat PROVE UpTo(S, i) <= N
    <3>1. {j \in S : j <= i} \in SUBSET S
      OBVIOUS
    <3>. HIDE DEF S
    <3>. QED  BY <2>2, <3>1, FS_Subset DEF UpTo
  <2>. HIDE DEF S
  <2>. QED  BY <1>1, <1>3, <2>2, <2>3, UpToNext DEF N
<1>13. Len(dest) = IF N < max THEN N ELSE max
  <2>0. L + 1 \in Nat /\ L + 1 >= L
    BY <1>1
  <2>01. UpTo(S, L + 1) = N /\ UpTo(S, f) <= N
    BY <1>8, <1>12, <2>0
  <2>02. s.dest = dest
    BY <1>9
  <2>. HIDE DEF S, N
  <2>1. CASE ~ s.full
    <3>1. Len(dest) = N /\ Len(dest) <= max
      BY <1>8, <2>01, <2>02, <2>1
    <3>. QED  BY <1>12, <3>1
  <2>2. CASE s.full
    <3>1. Len(dest) = max /\ max <= N
      BY <1>8, <2>01, <2>02, <2>2
    <3>. QED  BY <1>12, <3>1
  <2>. QED  BY <1>8, <2>1, <2>2
<1>14. ASSUME NEW m \in DOMAIN dest
       PROVE  CString(s.memory, dest[m]) = Word(text, token, Start(text, token, m))
  <2>1. PICK d \in S : d = dest[m]
    BY <1>10
  <2>2. UpTo(S, d) = m
    BY <1>8, <1>9, <2>1
  <2>3. Start(text, token, m) = d
    BY <1>2, <2>2, StartIs
  <2>4. PICK e \in d .. L : /\ e = End(text, token, d)
                            /\ \A k \in d .. e : text[k] # token
                            /\ e = L \/ text[e + 1] = token
    BY <1>11
  <2>5. d \in Nat /\ d >= 1 /\ f \in Nat /\ f <= L /\ e <= L /\ d <= e /\ e \in Nat /\ m \in Nat /\ m <= Len(dest)
    BY <1>1, <1>3, <1>8, <1>10, <2>1, <2>4
  <2>6. e = L \/ e + 1 <= f
    <3>1. CASE ~ s.full
      BY <1>1, <1>8, <2>5, <3>1
    <3>2. CASE s.full
      <4>1. ~ (f < d)
        <5>1. f < d => UpTo(S, f) < UpTo(S, d)
          BY <1>1, <1>3, <2>1, <2>5, UpToGrows
        <5>. QED  BY <1>8, <1>9, <1>12, <2>2, <2>5, <3>2, <5>1
      <4>2. f \notin d .. e
        BY <1>2, <1>8, <2>4, <2>5, <3>2
      <4>. QED  BY <2>5, <4>1, <4>2
    <3>. QED  BY <1>8, <3>1, <3>2
  <2>7. Cut(f) \in Seq(C) /\ Len(Cut(f)) = Len(source) /\ DOMAIN Cut(f) = 1 .. Len(source)
        /\ \A k \in 1 .. Len(source) : Cut(f)[k] = IF k <= f /\ source[k] = token THEN NUL ELSE source[k]
    BY <1>1
  <2>8. PICK memory \in Seq(C) : memory = s.memory
    BY <1>8, <2>7
  <2>9. /\ Len(memory) = Len(source) /\ DOMAIN memory = 1 .. Len(source)
        /\ \A k \in 1 .. Len(source) : memory[k] = IF k <= f /\ source[k] = token THEN NUL ELSE source[k]
    BY <1>8, <2>7, <2>8
  <2>. HIDE DEF Cut, text, S
  <2>10. \A k \in d .. e : k \in 1 .. L /\ k \in 1 .. Len(source) /\ memory[k] = text[k] /\ memory[k] # NUL
    BY <1>1, <1>2, <2>4, <2>5, <2>9
  <2>11. e + 1 \in d .. Len(memory) /\ memory[e + 1] = NUL
    BY <1>1, <1>2, <2>4, <2>5, <2>6, <2>9
  <2>12. EndOf(memory, d) = e + 1
    <3>1. d \in DOMAIN memory /\ (e + 1) - 1 = e
      BY <1>1, <2>5, <2>9
    <3>. QED  BY <2>10, <2>11, <3>1, EndOfIs
  <2>13. SubSeq(memory, d, e) = SubSeq(text, d, e)
    <3>1. \A k \in 1 .. (1 + e) - d : (k + d) - 1 \in d .. e
      BY <2>5
    <3>. QED  BY <1>2, <2>5, <2>9, <2>10, <3>1
  <2>14. CString(memory, d) = SubSeq(memory, d, e)
    <3>1. (e + 1) - 1 = e
      BY <2>5
    <3>. QED  BY <2>12, <3>1 DEF CString
  <2>. QED  BY <2>1, <2>3, <2>4, <2>8, <2>13, <2>14 DEF Word
<1>15. words = [n \in 1 .. N |-> Word(text, token, Start(text, token, n))]
  BY DEF Words
<1>16. PICK c \in Nat : c = Len(dest) /\ c <= N /\ c = (IF N < max THEN N ELSE max)
  <2>. HIDE DEF N, S
  <2>1. N \in Nat
    BY <1>12
  <2>. QED  BY <1>10, <1>13, <2>1
<1>17. tokenizeBuffer(token, source, max) = [m \in 1 .. c |-> CString(s.memory, dest[m])]
  BY <1>5, <1>7, <1>9, <1>10, <1>16 DEF Tokenizes
<1>18. ASSUME NEW m \in 1 .. c
       PROVE  CString(s.memory, dest[m]) \in Seq(C) \ {<<>>} /\ CString(s.memory, dest[m]) = words[m]
  <2>1. PICK d \in S : d = Start(text, token, m)
    <3>1. m \in DOMAIN dest
      BY <1>10, <1>16
    <3>2. dest[m] \in S /\ UpTo(S, dest[m]) = m
      BY <1>8, <1>9, <1>10, <3>1
    <3>. QED  BY <1>2, <3>2, StartIs
  <2>2. d \in 1 .. L /\ End(text, token, d) \in d .. L
    BY <1>3, <1>11
  <2>3. Word(text, token, d) = SubSeq(text, d, End(text, token, d))
    BY DEF Word
  <2>. HIDE DEF text, S, words
  <2>4. Word(text, token, d) \in Seq(C) /\ Word(text, token, d) # <<>>
    BY <1>1, <1>2, <2>2, <2>3
  <2>5. m \in DOMAIN dest /\ m \in 1 .. N
    BY <1>10, <1>12, <1>16
  <2>. QED  BY <1>14, <1>15, <2>1, <2>4, <2>5
<1>. HIDE DEF words, S, N, text
<1>19. Len(words) = N /\ SubSeq(words, 1, c) = [m \in 1 .. c |-> words[m]]
  <2>. DEFINE V == {words[m] : m \in 1 .. N}
  <2>1. words \in Seq(V) /\ Len(words) = N
    <3>1. N \in Nat /\ \A m \in 1 .. N : words[m] \in V
      BY <1>12
    <3>2. words \in [1 .. N -> V]
      BY <1>15, <3>1
    <3>. HIDE DEF V
    <3>. QED  BY <3>1, <3>2
  <2>. HIDE DEF V
  <2>. QED  BY <1>16, <2>1
<1>20. tokenizeBuffer(token, source, max) \in Seq(Seq(C) \ {<<>>})
  BY <1>16, <1>17, <1>18
<1>21. tokenizeBuffer(token, source, max) = SubSeq(words, 1, c)
  BY <1>17, <1>18, <1>19
<1>. QED  BY <1>16, <1>19, <1>20, <1>21 DEF words, text, FirstWords

-----------------------------------------------------------------------------
(***************************************************************************)
(* Recursive functions.                                                    *)
(***************************************************************************)
\* A function that asks itself at most once: nothing where it stops, where it is x, and
\* elsewhere what op makes of its value at next.
IsRecursion(g, D, stop, x, op, next) ==
  \A v \in D : g[v] = IF stop[v] THEN x[v] ELSE op[v][g[next[v]]]

HasRecursion(D, V, stop, x, op, next) ==
  \E g \in [D -> V] : IsRecursion(g, D, stop, x, op, next)

\* There is one, if what it asks is always of a lower rank.
LEMMA RecursionExists ==
  ASSUME NEW D, NEW V, NEW stop, NEW x, NEW op, NEW next, NEW rank, NEW N \in Nat,
         \A v \in D : rank[v] \in Nat /\ rank[v] < N,
         \A v \in D : stop[v] => x[v] \in V,
         \A v \in D : ~ stop[v] => /\ next[v] \in D /\ rank[next[v]] < rank[v]
                                   /\ \A w \in V : op[v][w] \in V
  PROVE  HasRecursion(D, V, stop, x, op, next)
<1>. DEFINE Under(n) == {v \in D : rank[v] < n}
            T == {n \in Nat : HasRecursion(Under(n), V, stop, x, op, next)}
<1>1. 0 \in T
  <2>1. Under(0) = {}
    OBVIOUS
  <2>. DEFINE g == [v \in {} |-> v]
  <2>2. g \in [{} -> V]
    OBVIOUS
  <2>. HIDE DEF g, Under
  <2>3. HasRecursion(Under(0), V, stop, x, op, next)
    BY <2>1, <2>2 DEF HasRecursion, IsRecursion
  <2>. QED  BY <2>3
<1>2. ASSUME NEW n \in Nat, n \in T PROVE n + 1 \in T
  <2>1. PICK g \in [Under(n) -> V] : IsRecursion(g, Under(n), stop, x, op, next)
    BY <1>2 DEF HasRecursion
  <2>. DEFINE h == [v \in Under(n + 1) |-> IF v \in Under(n) THEN g[v]
                                          ELSE IF stop[v] THEN x[v] ELSE op[v][g[next[v]]]]
  <2>2. \A v \in Under(n) : v \in Under(n + 1) /\ v \in D
    OBVIOUS
  <2>3. \A v \in Under(n + 1) : v \in D /\ (~ stop[v] => next[v] \in Under(n))
    OBVIOUS
  <2>. HIDE DEF Under
  <2>4. \A v \in Under(n + 1) : h[v] \in V
    BY <2>2, <2>3
  <2>5. h \in [Under(n + 1) -> V]
    BY <2>4
  <2>6. ASSUME NEW v \in Under(n + 1)
        PROVE  h[v] = IF stop[v] THEN x[v] ELSE op[v][h[next[v]]]
    <3>1. ~ stop[v] => h[next[v]] = g[next[v]]
      BY <2>2, <2>3
    <3>2. h[v] = IF stop[v] THEN x[v] ELSE op[v][g[next[v]]]
      BY <2>1 DEF IsRecursion
    <3>. QED  BY <3>1, <3>2
  <2>. HIDE DEF h
  <2>7. HasRecursion(Under(n + 1), V, stop, x, op, next)
    BY <2>5, <2>6 DEF HasRecursion, IsRecursion
  <2>. QED  BY <2>7
<1>3. Under(N) = D
  OBVIOUS
<1>. HIDE DEF T
<1>4. N \in T
  BY <1>1, <1>2, NatSetInduction
<1>. QED  BY <1>3, <1>4 DEF T

\* What holds of an element when it holds of all those of a lower rank holds of all.
LEMMA RankInduction ==
  ASSUME NEW D, NEW P, NEW rank, \A v \in D : rank[v] \in Nat,
         \A v \in D : (\A w \in D : rank[w] < rank[v] => w \in P) => v \in P
  PROVE  D \subseteq P
<1>. DEFINE T == {n \in Nat : \A v \in D : rank[v] < n => v \in P}
<1>1. 0 \in T
  OBVIOUS
<1>2. ASSUME NEW n \in Nat, n \in T PROVE n + 1 \in T
  <2>1. ASSUME NEW v \in D, rank[v] < n + 1 PROVE v \in P
    <3>1. \A w \in D : rank[w] < rank[v] => w \in P
      BY <1>2, <2>1
    <3>. QED  BY <3>1
  <2>. QED  BY <2>1
<1>. HIDE DEF T
<1>3. \A n \in Nat : n \in T
  BY <1>1, <1>2, NatSetInduction
<1>4. ASSUME NEW v \in D PROVE v \in P
  <2>1. rank[v] + 1 \in Nat /\ rank[v] < rank[v] + 1
    OBVIOUS
  <2>. QED  BY <1>3, <2>1 DEF T
<1>. QED  BY <1>4

-----------------------------------------------------------------------------
(***************************************************************************)
(* Digits.                                                                 *)
(***************************************************************************)
Hex == {Digit[v + 1] : v \in 0 .. 15}

\* What the digits are.
LEMMA DigitsAre ==
  /\ \A v \in 0 .. 15 : /\ Digit[v + 1] \in Hex /\ DigitValue(Digit[v + 1]) = v
                        /\ DigitValue(LowerDigit[v + 1]) = v
                        /\ IsHex(Digit[v + 1]) /\ IsHex(LowerDigit[v + 1])
  /\ \A v \in 0 .. 9 : Digit[v + 1] \in Decimal
  /\ \A c \in Hex : DigitValue(c) \in 0 .. 15 /\ c = Digit[DigitValue(c) + 1] /\ IsHex(c)
  /\ \A c \in Decimal : c \in Hex /\ DigitValue(c) \in 0 .. 9
  /\ \A v \in 0 .. 15 : Digit[v + 1] = "0" <=> v = 0
  /\ "-" \notin Decimal /\ "." \notin Decimal /\ "0" \in Decimal /\ DigitValue("0") = 0
<1>1. \A v \in 0 .. 15 : v \in {0, 1, 2, 3, 4, 5, 6, 7, 8, 9, 10, 11, 12, 13, 14, 15}
  OBVIOUS
<1>2. ASSUME NEW v \in 0 .. 15, NEW w \in 0 .. 15
      PROVE  /\ Digit[v + 1] = Digit[w + 1] => v = w
             /\ Digit[v + 1] = LowerDigit[w + 1] => v = w
             /\ LowerDigit[v + 1] = LowerDigit[w + 1] => v = w
             /\ LowerDigit[v + 1] = Digit[w + 1] => v = w
  BY <1>1 DEF Digit, LowerDigit
<1>3. ASSUME NEW v \in 0 .. 15
      PROVE  DigitValue(Digit[v + 1]) = v /\ DigitValue(LowerDigit[v + 1]) = v
  <2>. DEFINE Is(c, w) == Digit[w + 1] = c \/ LowerDigit[w + 1] = c
  <2>1. \A c : DigitValue(c) = CHOOSE w \in 0 .. 15 : Is(c, w)
    BY DEF DigitValue
  <2>2. \A w \in 0 .. 15 : (Is(Digit[v + 1], w) <=> w = v) /\ (Is(LowerDigit[v + 1], w) <=> w = v)
    BY <1>2
  <2>. HIDE DEF Is
  <2>. QED  BY <2>1, <2>2
<1>4. \A v \in 0 .. 15 : IsHex(Digit[v + 1]) /\ IsHex(LowerDigit[v + 1])
  <2>1. ASSUME NEW v \in 0 .. 15 PROVE v + 1 \in DOMAIN Digit /\ v + 1 \in DOMAIN LowerDigit
    BY DEF Digit, LowerDigit
  <2>. QED  BY <2>1 DEF IsHex, Range
<1>5. \A v \in 0 .. 9 : Digit[v + 1] \in Decimal
  <2>1. \A v \in 0 .. 9 : v + 1 \in 1 .. 10
    OBVIOUS
  <2>. QED  BY <2>1 DEF Decimal
<1>6. \A c \in Hex : DigitValue(c) \in 0 .. 15 /\ c = Digit[DigitValue(c) + 1] /\ IsHex(c)
  BY <1>3, <1>4 DEF Hex
<1>7. \A c \in Decimal : c \in Hex /\ DigitValue(c) \in 0 .. 9
  <2>1. \A i \in 1 .. 10 : i - 1 \in 0 .. 15 /\ (i - 1) + 1 = i /\ i - 1 \in 0 .. 9
    OBVIOUS
  <2>2. ASSUME NEW c \in Decimal PROVE c \in Hex /\ DigitValue(c) \in 0 .. 9
    <3>1. PICK i \in 1 .. 10 : c = Digit[i]
      BY DEF Decimal
    <3>2. PICK v \in 0 .. 9 : v \in 0 .. 15 /\ c = Digit[v + 1]
      BY <2>1, <3>1
    <3>. QED  BY <1>3, <3>2 DEF Hex
  <2>. QED  BY <2>2
<1>8. \A v \in 0 .. 15 : Digit[v + 1] = "0" <=> v = 0
  <2>1. 0 \in 0 .. 15 /\ Digit[0 + 1] = "0"
    BY DEF Digit
  <2>. QED  BY <1>2, <2>1
<1>9. "-" \notin Decimal /\ "." \notin Decimal /\ "0" \in Decimal /\ DigitValue("0") = 0
  <2>1. \A i \in 1 .. 10 : Digit[i] # "-" /\ Digit[i] # "."
    BY DEF Digit
  <2>2. Digit[1] = "0" /\ 0 \in 0 .. 15 /\ 0 + 1 = 1 /\ 1 \in 1 .. 10
    BY DEF Digit
  <2>3. DigitValue("0") = 0
    BY <1>3, <2>2
  <2>. QED  BY <2>1, <2>2, <2>3 DEF Decimal
<1>. QED  BY <1>3, <1>4, <1>5, <1>6, <1>7, <1>8, <1>9 DEF Hex

\* The digits of a number, from the lowest, one division after another.
IsRemainders(f, value, b) ==
  f = [v \in 0 .. value |-> <<Digit[(v % b) + 1]>> \o (IF v < b THEN <<>> ELSE f[v \div b])]

\* The quotient and the remainder of a division by a base.
LEMMA Divided ==
  ASSUME NEW v \in Nat, NEW b \in 2 .. 16
  PROVE  /\ v \div b \in Nat /\ v % b \in 0 .. b - 1 /\ v % b \in 0 .. 15 /\ v = (v \div b) * b + (v % b)
         /\ v \div b <= v /\ (v >= b => v \div b < v /\ v \div b > 0)
         /\ v < b => v \div b = 0 /\ v % b = v
OBVIOUS

\* The digits that Remainders writes: sequences of hexadecimal digits, one more per division.
LEMMA RemaindersAre ==
  ASSUME NEW value \in Nat, NEW b \in 2 .. 16
  PROVE  \E f \in [0 .. value -> Seq(Hex)] : IsRemainders(f, value, b) /\ Remainders(value, b) = f[value]
<1>. DEFINE D == 0 .. value
            V == Seq(Hex)
            d(v) == <<Digit[(v % b) + 1]>>
            stop == [v \in D |-> v < b]
            x == [v \in D |-> d(v) \o <<>>]
            op == [v \in D |-> [w \in V |-> d(v) \o w]]
            next == [v \in D |-> v \div b]
            rank == [v \in D |-> v]
            from == CHOOSE f : IsRemainders(f, value, b)
<1>1. \A v \in D : d(v) \in V /\ d(v) \o <<>> \in V /\ \A w \in V : d(v) \o w \in V
  <2>1. \A v \in D : Digit[(v % b) + 1] \in Hex
    BY Divided DEF Hex
  <2>2. \A c \in Hex : <<c>> \in Seq(Hex) /\ <<c>> \o <<>> \in Seq(Hex) /\ \A w \in Seq(Hex) : <<c>> \o w \in Seq(Hex)
    OBVIOUS
  <2>. QED  BY <2>1, <2>2
<1>2. \A v \in D : v \in Nat /\ v < value + 1 /\ (v >= b => v \div b \in D /\ v \div b < v)
  <2>1. \A v \in D : v \in Nat /\ v < value + 1
    OBVIOUS
  <2>2. \A v \in D : v >= b => v \div b \in Nat /\ v \div b < v
    BY <2>1, Divided
  <2>. QED  BY <2>1, <2>2
<1>. HIDE DEF d, V
<1>3. /\ \A v \in D : rank[v] \in Nat /\ rank[v] < value + 1
      /\ \A v \in D : stop[v] => x[v] \in V
      /\ \A v \in D : ~ stop[v] => /\ next[v] \in D /\ rank[next[v]] < rank[v]
                                   /\ \A w \in V : op[v][w] \in V
      /\ value + 1 \in Nat
  <2>1. \A v \in D : rank[v] \in Nat /\ rank[v] < value + 1
    BY <1>2
  <2>2. \A v \in D : stop[v] => x[v] \in V
    BY <1>1
  <2>3. ASSUME NEW v \in D, ~ stop[v]
        PROVE  next[v] \in D /\ rank[next[v]] < rank[v] /\ \A w \in V : op[v][w] \in V
    <3>0. ~ (v < b)
      BY <2>3
    <3>1. v >= b
      BY <1>2, <3>0
    <3>2. next[v] = v \div b /\ rank[v] = v /\ v \div b \in D /\ v \div b < v
      BY <1>2, <3>1
    <3>3. rank[next[v]] = v \div b
      BY <3>2
    <3>4. \A w \in V : op[v][w] = d(v) \o w
      OBVIOUS
    <3>. QED  BY <1>1, <3>2, <3>3, <3>4
  <2>. HIDE DEF D, stop, x, op, next, rank
  <2>. QED  BY <2>1, <2>2, <2>3
<1>4. \A g : IsRecursion(g, D, stop, x, op, next)
             <=> \A v \in D : g[v] = IF v < b THEN d(v) \o <<>> ELSE op[v][g[v \div b]]
  BY DEF IsRecursion
<1>5. ASSUME NEW g, \A v \in D : g[v] \in V
      PROVE  IsRecursion(g, D, stop, x, op, next)
             <=> \A v \in D : g[v] = d(v) \o (IF v < b THEN <<>> ELSE g[v \div b])
  <2>1. \A v \in D : ~ (v < b) => v >= b
    BY <1>2
  <2>2. \A v \in D : ~ (v < b) => op[v][g[v \div b]] = d(v) \o g[v \div b]
    BY <1>2, <1>5, <2>1
  <2>. HIDE DEF op, D
  <2>. QED  BY <1>4, <2>2
<1>. HIDE DEF stop, x, op, next, rank, D
<1>6. HasRecursion(D, V, stop, x, op, next)
  BY <1>3, RecursionExists
<1>7. PICK g \in [D -> V] : IsRecursion(g, D, stop, x, op, next)
  BY <1>6 DEF HasRecursion
<1>8. \A v \in D : g[v] = d(v) \o (IF v < b THEN <<>> ELSE g[v \div b])
  BY <1>5, <1>7
<1>9. g = [v \in D |-> d(v) \o (IF v < b THEN <<>> ELSE g[v \div b])]
  BY <1>8
<1>10. IsRemainders(g, value, b)
  BY <1>9 DEF IsRemainders, d, D
<1>11. IsRemainders(from, value, b)
  BY <1>10
<1>12. Remainders(value, b) = from[value]
  BY Zenon DEF Remainders, IsRemainders
<1>. HIDE DEF from
<1>13. from = [v \in D |-> d(v) \o (IF v < b THEN <<>> ELSE from[v \div b])]
  BY <1>11 DEF IsRemainders, d, D
<1>14. \A v \in D : from[v] = d(v) \o (IF v < b THEN <<>> ELSE from[v \div b])
  BY <1>13, Zenon
<1>15. \A v \in D : from[v] \in V
  <2>. DEFINE P == {v \in D : from[v] \in V}
              r == [v \in D |-> v]
  <2>1. ASSUME NEW v \in D, \A w \in D : r[w] < r[v] => w \in P PROVE v \in P
    <3>1. CASE v < b
      BY <1>1, <1>14, <3>1
    <3>2. CASE ~ (v < b)
      <4>1. v \div b \in D /\ v \div b < v
        BY <1>2, <3>2
      <4>2. from[v \div b] \in V
        BY <2>1, <4>1
      <4>. QED  BY <1>1, <1>14, <3>2, <4>2
    <3>. QED  BY <3>1, <3>2
  <2>2. \A v \in D : r[v] \in Nat
    BY <1>2
  <2>. HIDE DEF P, r
  <2>3. D \subseteq P
    BY <2>1, <2>2, RankInduction
  <2>. QED  BY <2>3 DEF P
<1>16. from \in [D -> V]
  BY <1>13, <1>15
<1>. QED  BY <1>11, <1>12, <1>16 DEF V, D

-----------------------------------------------------------------------------
(***************************************************************************)
(* Folds.                                                                  *)
(***************************************************************************)
\* What r is, when x goes through f[1], f[2] and so on up to f[N].
Runs(h, f, x, N) == h[0] = x /\ \A n \in Nat : n < N => h[n + 1] = f[n + 1][h[n]]
ResultOf(r, f, x, V, N) == \E h \in [0 .. N -> V] : Runs(h, f, x, N) /\ r = h[N]

\* A fold from the left is that.
LEMMA LeftFoldRuns ==
  ASSUME NEW N \in Nat, NEW V, NEW x \in V, NEW f, \A k \in 1 .. N, v \in V : f[k][v] \in V,
         NEW g, g[{}] = x,
         \A u \in SUBSET (1 .. N) : u # {} /\ g[u \ {Max(u)}] \in V => g[u] = f[Max(u)][g[u \ {Max(u)}]]
  PROVE  ResultOf(g[1 .. N], f, x, V, N)
<1>. DEFINE h == [n \in 0 .. N |-> g[1 .. n]]
            T == {n \in Nat : n <= N => g[1 .. n] \in V}
<1>1. ASSUME NEW n \in Nat, n < N, g[1 .. n] \in V
      PROVE  g[1 .. n + 1] = f[n + 1][g[1 .. n]] /\ g[1 .. n + 1] \in V
  <2>1. 1 .. n + 1 # {} /\ Max(1 .. n + 1) = n + 1 /\ (1 .. n + 1) \ {n + 1} = 1 .. n
    BY MaxOfInterval
  <2>2. 1 .. n + 1 \in SUBSET (1 .. N) /\ n + 1 \in 1 .. N
    BY <1>1
  <2>3. g[1 .. n + 1] = f[n + 1][g[1 .. n]]
    BY <1>1, <2>1, <2>2
  <2>. QED  BY <1>1, <2>2, <2>3
<1>2. 0 \in T /\ g[1 .. 0] = x
  <2>1. 1 .. 0 = {}
    OBVIOUS
  <2>. QED  BY <2>1
<1>3. ASSUME NEW n \in Nat, n \in T PROVE n + 1 \in T
  BY <1>1, <1>3
<1>. HIDE DEF T
<1>4. \A n \in Nat : n \in T
  BY <1>2, <1>3, NatSetInduction
<1>5. \A n \in 0 .. N : h[n] = g[1 .. n] /\ h[n] \in V
  BY <1>4 DEF T
<1>6. h \in [0 .. N -> V]
  BY <1>5
<1>7. ASSUME NEW n \in Nat, n < N PROVE h[n + 1] = f[n + 1][h[n]]
  <2>1. n \in 0 .. N /\ n + 1 \in 0 .. N
    BY <1>7
  <2>. HIDE DEF h
  <2>. QED  BY <1>1, <1>5, <1>7, <2>1
<1>8. h[0] = x /\ g[1 .. N] = h[N]
  <2>1. 0 \in 0 .. N /\ N \in 0 .. N
    OBVIOUS
  <2>. HIDE DEF h
  <2>. QED  BY <1>2, <1>5, <2>1
<1>. HIDE DEF h
<1>9. Runs(h, f, x, N)
  BY <1>7, <1>8 DEF Runs
<1>. QED  BY <1>6, <1>8, <1>9 DEF ResultOf

\* Two of them that agree on what they do have the same results.
LEMMA SameRuns ==
  ASSUME NEW N \in Nat, NEW f, NEW x, NEW h, NEW k, Runs(h, f, x, N), Runs(k, f, x, N)
  PROVE  \A n \in 0 .. N : h[n] = k[n]
<1>. DEFINE T == {n \in Nat : n <= N => h[n] = k[n]}
<1>1. 0 \in T
  BY DEF Runs
<1>2. ASSUME NEW n \in Nat, n \in T PROVE n + 1 \in T
  BY <1>2 DEF Runs
<1>. HIDE DEF T
<1>3. \A n \in Nat : n \in T
  BY <1>1, <1>2, NatSetInduction
<1>. QED  BY <1>3 DEF T

\* What a numeral does to what is before it, digit by digit.
Horner(str, b) == [k \in DOMAIN str |-> [v \in Int |-> v * b + DigitValue(str[k])]]

ExtendedFold(g, x, str, b) ==
  g = [u \in SUBSET DOMAIN str |-> IF u = {} THEN x ELSE g[u \ {Max(u)}] * b + DigitValue(str[Max(u)])]

\* A digit more takes an integer to an integer.
LEMMA HornerType ==
  ASSUME NEW str \in Seq(Hex), NEW b \in Nat
  PROVE  /\ Len(str) \in Nat /\ DOMAIN str = 1 .. Len(str)
         /\ \A k \in 1 .. Len(str), v \in Int : /\ Horner(str, b)[k][v] = v * b + DigitValue(str[k])
                                                /\ Horner(str, b)[k][v] \in Int
<1>1. Len(str) \in Nat /\ DOMAIN str = 1 .. Len(str) /\ \A k \in 1 .. Len(str) : str[k] \in Hex
  OBVIOUS
<1>2. \A k \in 1 .. Len(str) : DigitValue(str[k]) \in Int
  BY <1>1, DigitsAre
<1>3. \A k \in 1 .. Len(str), v \in Int : Horner(str, b)[k][v] = v * b + DigitValue(str[k])
  BY <1>1 DEF Horner
<1>4. \A k \in 1 .. Len(str), v \in Int : v * b + DigitValue(str[k]) \in Int
  BY <1>2
<1>. QED  BY <1>1, <1>3, <1>4

\* Extended is the run that multiplies and adds from the first digit to the last.
LEMMA ExtendedRuns ==
  ASSUME NEW str \in Seq(Hex), NEW x \in Int, NEW b \in Nat
  PROVE  ResultOf(Extended(x, str, b), Horner(str, b), x, Int, Len(str))
<1>. DEFINE N == Len(str)
            f == Horner(str, b)
            g == CHOOSE g : ExtendedFold(g, x, str, b)
<1>1. /\ N \in Nat /\ DOMAIN str = 1 .. N
      /\ \A k \in 1 .. N, v \in Int : f[k][v] = v * b + DigitValue(str[k]) /\ f[k][v] \in Int
  BY HornerType
<1>. HIDE DEF N, f
<1>2. HasLeftFold(Int, f, x, N)
  BY <1>1, LeftFoldExists
<1>3. PICK e \in [SUBSET (1 .. N) -> Int] : LeftFold(e, f, x, N)
  BY <1>2 DEF HasLeftFold
<1>4. ASSUME NEW u \in SUBSET (1 .. N)
      PROVE  /\ e[u] = IF u = {} THEN x ELSE e[u \ {Max(u)}] * b + DigitValue(str[Max(u)])
             /\ u # {} => Max(u) \in 1 .. N
  <2>1. u # {} => Max(u) \in 1 .. N /\ u \ {Max(u)} \in SUBSET (1 .. N)
    BY <1>1, MaxIs
  <2>2. e[u] = IF u = {} THEN x ELSE f[Max(u)][e[u \ {Max(u)}]]
    BY <1>3 DEF LeftFold
  <2>3. u # {} => e[u \ {Max(u)}] \in Int
    BY <2>1
  <2>. QED  BY <1>1, <2>1, <2>2, <2>3
<1>5. e = [u \in SUBSET (1 .. N) |-> IF u = {} THEN x ELSE e[u \ {Max(u)}] * b + DigitValue(str[Max(u)])]
  BY <1>4
<1>6. ExtendedFold(e, x, str, b)
  BY <1>1, <1>5 DEF ExtendedFold
<1>7. ExtendedFold(g, x, str, b)
  BY <1>6
<1>8. Extended(x, str, b) = g[DOMAIN str]
  BY Zenon DEF Extended, FoldLeft, MapThenFoldSet, ExtendedFold
<1>. HIDE DEF g
<1>9. g = [u \in SUBSET (1 .. N) |-> IF u = {} THEN x ELSE g[u \ {Max(u)}] * b + DigitValue(str[Max(u)])]
  BY <1>1, <1>7 DEF ExtendedFold
<1>10. g[{}] = x
  <2>1. {} \in SUBSET (1 .. N)
    OBVIOUS
  <2>. QED  BY <1>9, <2>1, Zenon
<1>11. ASSUME NEW u \in SUBSET (1 .. N), u # {}, g[u \ {Max(u)}] \in Int
       PROVE  g[u] = f[Max(u)][g[u \ {Max(u)}]]
  <2>1. g[u] = g[u \ {Max(u)}] * b + DigitValue(str[Max(u)])
    BY <1>9, <1>11, Zenon
  <2>. QED  BY <1>1, <1>4, <1>11, <2>1
<1>12. ResultOf(g[1 .. N], f, x, Int, N)
  BY <1>1, <1>10, <1>11, LeftFoldRuns
<1>. QED  BY <1>1, <1>8, <1>12 DEF N, f

\* The run of a numeral, and how it goes on.
LEMMA ExtendedIs ==
  ASSUME NEW str \in Seq(Hex), NEW x \in Int, NEW b \in Nat
  PROVE  /\ Extended(x, str, b) \in Int
         /\ \E h \in [0 .. Len(str) -> Int] :
              /\ h[0] = x /\ Extended(x, str, b) = h[Len(str)]
              /\ \A n \in Nat : n < Len(str) => h[n + 1] = h[n] * b + DigitValue(str[n + 1])
<1>1. PICK h \in [0 .. Len(str) -> Int] :
        Runs(h, Horner(str, b), x, Len(str)) /\ Extended(x, str, b) = h[Len(str)]
  BY ExtendedRuns DEF ResultOf
<1>2. Len(str) \in Nat /\ Len(str) \in 0 .. Len(str)
  OBVIOUS
<1>3. ASSUME NEW n \in Nat, n < Len(str) PROVE h[n + 1] = h[n] * b + DigitValue(str[n + 1])
  <2>1. n + 1 \in 1 .. Len(str) /\ n \in 0 .. Len(str)
    BY <1>2, <1>3
  <2>2. h[n] \in Int /\ h[n + 1] = Horner(str, b)[n + 1][h[n]]
    BY <1>1, <1>3, <2>1 DEF Runs
  <2>. QED  BY <2>1, <2>2, HornerType
<1>. QED  BY <1>1, <1>2, <1>3 DEF Runs

\* No digit changes nothing.
LEMMA ExtendedEmpty ==
  ASSUME NEW x \in Int, NEW b \in Nat
  PROVE  Extended(x, <<>>, b) = x
<1>. DEFINE e == <<>>
<1>1. e \in Seq(Hex) /\ Len(e) = 0
  OBVIOUS
<1>. HIDE DEF e
<1>2. PICK h \in [0 .. Len(e) -> Int] :
        /\ h[0] = x /\ Extended(x, e, b) = h[Len(e)]
        /\ \A n \in Nat : n < Len(e) => h[n + 1] = h[n] * b + DigitValue(e[n + 1])
  BY <1>1, ExtendedIs, Zenon
<1>. QED  BY <1>1, <1>2 DEF e

\* Whatever multiplies and adds the same digits from the same number is Extended.
LEMMA RunIsExtended ==
  ASSUME NEW str \in Seq(Hex), NEW x \in Int, NEW b \in Nat, NEW h, h[0] = x,
         \A n \in 0 .. Len(str) : h[n] \in Int,
         \A n \in Nat : n < Len(str) => h[n + 1] = h[n] * b + DigitValue(str[n + 1])
  PROVE  Extended(x, str, b) = h[Len(str)]
<1>. DEFINE N == Len(str)
<1>1. PICK k \in [0 .. N -> Int] : Runs(k, Horner(str, b), x, N) /\ Extended(x, str, b) = k[N]
  BY ExtendedRuns DEF ResultOf
<1>2. N \in Nat /\ N \in 0 .. N
  OBVIOUS
<1>3. ASSUME NEW n \in Nat, n < N PROVE h[n + 1] = Horner(str, b)[n + 1][h[n]]
  <2>1. n + 1 \in 1 .. N /\ n \in 0 .. N
    BY <1>2, <1>3
  <2>. QED  BY <1>3, <2>1, HornerType
<1>4. Runs(h, Horner(str, b), x, N)
  BY <1>3 DEF Runs
<1>. HIDE DEF N
<1>5. h[N] = k[N]
  BY <1>1, <1>2, <1>4, SameRuns
<1>. QED  BY <1>1, <1>5 DEF N

\* A digit more, at the end.
LEMMA ExtendedAppend ==
  ASSUME NEW str \in Seq(Hex), NEW c \in Hex, NEW x \in Int, NEW b \in Nat
  PROVE  Extended(x, Append(str, c), b) = Extended(x, str, b) * b + DigitValue(c)
<1>. DEFINE s == Append(str, c)
<1>1. /\ s \in Seq(Hex) /\ Len(s) = Len(str) + 1 /\ Len(str) \in Nat /\ s[Len(str) + 1] = c
      /\ \A n \in 1 .. Len(str) : s[n] = str[n]
  OBVIOUS
<1>. HIDE DEF s
<1>2. PICK h \in [0 .. Len(s) -> Int] :
        /\ h[0] = x /\ Extended(x, s, b) = h[Len(s)]
        /\ \A n \in Nat : n < Len(s) => h[n + 1] = h[n] * b + DigitValue(s[n + 1])
  BY <1>1, ExtendedIs
<1>3. \A n \in 0 .. Len(str) : h[n] \in Int
  BY <1>1
<1>4. ASSUME NEW n \in Nat, n < Len(str) PROVE h[n + 1] = h[n] * b + DigitValue(str[n + 1])
  <2>1. n + 1 \in 1 .. Len(str) /\ n < Len(s)
    BY <1>1, <1>4
  <2>. QED  BY <1>1, <1>2, <2>1
<1>5. Extended(x, str, b) = h[Len(str)]
  BY <1>2, <1>3, <1>4, RunIsExtended
<1>6. h[Len(str) + 1] = h[Len(str)] * b + DigitValue(c)
  <2>1. Len(str) < Len(s)
    BY <1>1
  <2>. QED  BY <1>1, <1>2, <2>1
<1>. QED  BY <1>1, <1>2, <1>5, <1>6 DEF s

\* Zeros in front do not count.
LEMMA ExtendedZero ==
  ASSUME NEW str \in Seq(Hex), NEW b \in Nat
  PROVE  <<"0">> \o str \in Seq(Hex) /\ Extended(0, <<"0">> \o str, b) = Extended(0, str, b)
<1>. DEFINE s == <<"0">> \o str
            N == Len(str)
<1>1. "0" \in Hex /\ DigitValue("0") = 0
  BY DigitsAre
<1>2. s \in Seq(Hex) /\ Len(s) = N + 1 /\ N \in Nat /\ s[1] = "0" /\ \A n \in 1 .. N : s[n + 1] = str[n]
  BY <1>1
<1>. HIDE DEF s
<1>3. PICK h \in [0 .. Len(s) -> Int] :
        /\ h[0] = 0 /\ Extended(0, s, b) = h[Len(s)]
        /\ \A n \in Nat : n < Len(s) => h[n + 1] = h[n] * b + DigitValue(s[n + 1])
  <2>1. 0 \in Int /\ s \in Seq(Hex)
    BY <1>2
  <2>. QED  BY <2>1, ExtendedIs, Zenon
<1>. DEFINE k == [n \in 0 .. N |-> h[n + 1]]
<1>4. \A n \in 0 .. N : k[n] = h[n + 1] /\ k[n] \in Int
  BY <1>2
<1>5. k[0] = 0
  <2>1. h[0 + 1] = h[0] * b + DigitValue(s[0 + 1])
    BY <1>2, <1>3
  <2>2. h[1] = 0
    BY <1>1, <1>2, <1>3, <2>1
  <2>. QED  BY <1>2, <2>2
<1>6. ASSUME NEW n \in Nat, n < N PROVE k[n + 1] = k[n] * b + DigitValue(str[n + 1])
  <2>1. n + 1 \in 1 .. N /\ n + 1 \in Nat /\ n + 1 < Len(s) /\ n \in 0 .. N /\ n + 1 \in 0 .. N
    BY <1>2, <1>6
  <2>2. h[(n + 1) + 1] = h[n + 1] * b + DigitValue(s[(n + 1) + 1])
    BY <1>3, <2>1
  <2>. HIDE DEF k
  <2>. QED  BY <1>2, <1>4, <2>1, <2>2
<1>7. k[N] = h[N + 1]
  BY <1>2
<1>. HIDE DEF k
<1>8. Extended(0, str, b) = k[N]
  BY <1>4, <1>5, <1>6, RunIsExtended
<1>. QED  BY <1>2, <1>3, <1>7, <1>8 DEF s

\* Zeros in front of a numeral.
LEMMA ExtendedZeros ==
  ASSUME NEW str \in Seq(Hex), NEW b \in Nat, NEW n \in Int
  PROVE  /\ Zeros(n) \o str \in Seq(Hex) /\ Extended(0, Zeros(n) \o str, b) = Extended(0, str, b)
         /\ Len(Zeros(n)) = IF n <= 0 THEN 0 ELSE n
         /\ Zeros(n) \in Seq(Hex)
<1>. DEFINE T == {k \in Nat : /\ Zeros(k) \in Seq(Hex) /\ Len(Zeros(k)) = k
                              /\ Extended(0, Zeros(k) \o str, b) = Extended(0, str, b)}
<1>1. Zeros(0) = <<>> /\ <<>> \o str = str
  BY DEF Zeros
<1>2. 0 \in T
  <2>1. <<>> \in Seq(Hex) /\ Len(<<>>) = 0
    OBVIOUS
  <2>. QED  BY <1>1, <2>1
<1>3. ASSUME NEW k \in Nat, k \in T PROVE k + 1 \in T
  <2>1. "0" \in Hex
    BY DigitsAre
  <2>2. Zeros(k) \in Seq(Hex) /\ Len(Zeros(k)) = k /\ \A i \in 1 .. k : Zeros(k)[i] = "0"
    <3>1. k <= 0 => k = 0
      OBVIOUS
    <3>. QED  BY <1>3, <3>1 DEF Zeros
  <2>3. Zeros(k + 1) = [i \in 1 .. k + 1 |-> "0"]
    BY DEF Zeros
  <2>4. Zeros(k + 1) \in Seq(Hex) /\ Len(Zeros(k + 1)) = k + 1
    BY <2>1, <2>3
  <2>5. Zeros(k + 1) = <<"0">> \o Zeros(k)
    <3>1. <<"0">> \o Zeros(k) \in Seq(Hex) /\ Len(<<"0">> \o Zeros(k)) = k + 1
          /\ \A i \in 1 .. k + 1 : (<<"0">> \o Zeros(k))[i] = "0"
      BY <2>1, <2>2
    <3>. QED  BY <2>3, <3>1
  <2>6. Zeros(k + 1) \o str = <<"0">> \o (Zeros(k) \o str)
    <3>1. <<"0">> \in Seq(Hex)
      BY <2>1
    <3>2. PICK a \in Seq(Hex) : a = <<"0">>
      BY <3>1
    <3>3. PICK z \in Seq(Hex) : z = Zeros(k)
      BY <2>2
    <3>4. (a \o z) \o str = a \o (z \o str)
      BY ConcatAssociative
    <3>. QED  BY <2>5, <3>2, <3>3, <3>4
  <2>7. Zeros(k) \o str \in Seq(Hex)
    BY <2>2
  <2>8. Extended(0, Zeros(k + 1) \o str, b) = Extended(0, Zeros(k) \o str, b)
    BY <2>6, <2>7, ExtendedZero
  <2>. QED  BY <1>3, <2>4, <2>8
<1>. HIDE DEF T
<1>4. \A k \in Nat : k \in T
  BY <1>2, <1>3, NatSetInduction
<1>5. CASE n <= 0
  <2>1. Zeros(n) = <<>>
    BY <1>5 DEF Zeros
  <2>. QED  BY <1>1, <1>5, <2>1
<1>6. CASE ~ (n <= 0)
  <2>1. n \in Nat
    BY <1>6
  <2>2. Zeros(n) \in Seq(Hex) /\ Len(Zeros(n)) = n /\ Extended(0, Zeros(n) \o str, b) = Extended(0, str, b)
    BY <1>4, <2>1 DEF T
  <2>. QED  BY <1>6, <2>2
<1>. QED  BY <1>5, <1>6

-----------------------------------------------------------------------------
(***************************************************************************)
(* What is written.                                                        *)
(***************************************************************************)
\* Digits come out from the lowest: what is put in front is last when they are reversed.
LEMMA ReverseIs ==
  ASSUME NEW C, NEW low \in Seq(C)
  PROVE  /\ Reverse(low) \in Seq(C) /\ Len(Reverse(low)) = Len(low) /\ Len(low) \in Nat
         /\ Reverse(<<>>) = <<>>
         /\ \A c \in C : Reverse(<<c>> \o low) = Append(Reverse(low), c)
         /\ \A s \in Seq(C) : Reverse(low \o s) = Reverse(s) \o Reverse(low)
<1>1. Reverse(low) \in Seq(C) /\ Len(Reverse(low)) = Len(low) /\ Len(low) \in Nat
      /\ \A i \in 1 .. Len(low) : Reverse(low)[i] = low[(Len(low) - i) + 1]
  BY DEF Reverse
<1>2. Reverse(<<>>) = <<>>
  BY DEF Reverse
<1>3. ASSUME NEW s \in Seq(C) PROVE Reverse(low \o s) = Reverse(s) \o Reverse(low)
  <2>. DEFINE t == low \o s
  <2>1. /\ t \in Seq(C) /\ Len(t) = Len(low) + Len(s) /\ Len(s) \in Nat /\ Len(low) \in Nat
        /\ \A i \in 1 .. Len(t) : t[i] = IF i <= Len(low) THEN low[i] ELSE s[i - Len(low)]
    OBVIOUS
  <2>. HIDE DEF t
  <2>2. Reverse(t) = [i \in 1 .. Len(t) |-> t[(Len(t) - i) + 1]]
    BY DEF Reverse
  <2>3. Reverse(s) \in Seq(C) /\ Len(Reverse(s)) = Len(s)
        /\ \A i \in 1 .. Len(s) : Reverse(s)[i] = s[(Len(s) - i) + 1]
    BY DEF Reverse
  <2>. DEFINE r == Reverse(s) \o Reverse(low)
  <2>4. /\ r \in Seq(C) /\ Len(r) = Len(t)
        /\ \A i \in 1 .. Len(t) : r[i] = IF i <= Len(s) THEN Reverse(s)[i] ELSE Reverse(low)[i - Len(s)]
    <3>1. PICK a \in Seq(C) : a = Reverse(s)
      BY <2>3
    <3>2. PICK z \in Seq(C) : z = Reverse(low)
      BY <1>1
    <3>3. Len(a) = Len(s) /\ Len(z) = Len(low)
      BY <1>1, <2>3, <3>1, <3>2
    <3>4. /\ a \o z \in Seq(C) /\ Len(a \o z) = Len(a) + Len(z)
          /\ \A i \in 1 .. Len(a) + Len(z) : (a \o z)[i] = IF i <= Len(a) THEN a[i] ELSE z[i - Len(a)]
      OBVIOUS
    <3>5. Len(t) = Len(a) + Len(z)
      BY <2>1, <3>3
    <3>6. r = a \o z
      BY <3>1, <3>2
    <3>. HIDE DEF r
    <3>. QED  BY <3>1, <3>2, <3>3, <3>4, <3>5, <3>6
  <2>. HIDE DEF r
  <2>5. ASSUME NEW i \in 1 .. Len(t) PROVE t[(Len(t) - i) + 1] = r[i]
    <3>1. CASE i <= Len(s)
      <4>1. (Len(t) - i) + 1 \in 1 .. Len(t) /\ ~ ((Len(t) - i) + 1 <= Len(low))
            /\ ((Len(t) - i) + 1) - Len(low) = (Len(s) - i) + 1 /\ i \in 1 .. Len(s)
        BY <2>1, <3>1
      <4>. QED  BY <2>1, <2>3, <2>4, <3>1, <4>1
    <3>2. CASE ~ (i <= Len(s))
      <4>1. (Len(t) - i) + 1 \in 1 .. Len(t) /\ (Len(t) - i) + 1 <= Len(low)
            /\ (Len(low) - (i - Len(s))) + 1 = (Len(t) - i) + 1 /\ i - Len(s) \in 1 .. Len(low)
        BY <2>1, <3>2
      <4>. QED  BY <1>1, <2>1, <2>4, <3>2, <4>1
    <3>. QED  BY <3>1, <3>2
  <2>6. r = [i \in 1 .. Len(t) |-> r[i]]
    BY <2>1, <2>4
  <2>7. Reverse(t) = r
    BY <2>2, <2>5, <2>6
  <2>. QED  BY <2>7 DEF t, r
<1>4. ASSUME NEW c \in C PROVE Reverse(<<c>> \o low) = Append(Reverse(low), c)
  <2>. DEFINE t == <<c>> \o low
  <2>1. /\ t \in Seq(C) /\ Len(t) = Len(low) + 1 /\ Len(low) \in Nat
        /\ \A i \in 1 .. Len(t) : t[i] = IF i = 1 THEN c ELSE low[i - 1]
    OBVIOUS
  <2>. HIDE DEF t
  <2>2. Reverse(t) = [i \in 1 .. Len(t) |-> t[(Len(t) - i) + 1]]
    BY DEF Reverse
  <2>. DEFINE r == Append(Reverse(low), c)
  <2>3. /\ r \in Seq(C) /\ Len(r) = Len(t)
        /\ \A i \in 1 .. Len(t) : r[i] = IF i = Len(t) THEN c ELSE Reverse(low)[i]
    BY <1>1, <2>1
  <2>. HIDE DEF r
  <2>4. ASSUME NEW i \in 1 .. Len(t) PROVE t[(Len(t) - i) + 1] = r[i]
    <3>1. (Len(t) - i) + 1 \in 1 .. Len(t) /\ ((Len(t) - i) + 1 = 1 <=> i = Len(t))
          /\ ((Len(t) - i) + 1) - 1 = (Len(low) - i) + 1
      BY <2>1
    <3>2. i # Len(t) => i \in 1 .. Len(low)
      BY <2>1
    <3>. QED  BY <1>1, <2>1, <2>3, <3>1, <3>2
  <2>5. r = [i \in 1 .. Len(t) |-> r[i]]
    BY <2>1, <2>3
  <2>6. Reverse(t) = r
    BY <2>2, <2>4, <2>5
  <2>. QED  BY <2>6 DEF t, r
<1>. QED  BY <1>1, <1>2, <1>3, <1>4

\* What is written reads as the number, in digits of the base and without zeros in front.
LEMMA Written ==
  ASSUME NEW value \in Nat, NEW b \in 2 .. 16
  PROVE  LET w == Reverse(Remainders(value, b)) IN
         /\ Remainders(value, b) \in Seq(Hex) /\ w \in Seq(Hex) /\ w # <<>>
         /\ Extended(0, w, b) = value
         /\ value > 0 => w[1] # "0"
         /\ b = 10 => Remainders(value, b) \in Seq(Decimal) /\ w \in Seq(Decimal)
<1>. DEFINE D == 0 .. value
            Fine(low, v) == /\ low \in Seq(Hex) /\ Reverse(low) # <<>>
                            /\ Extended(0, Reverse(low), b) = v
                            /\ v > 0 => Reverse(low)[1] # "0"
                            /\ b = 10 => low \in Seq(Decimal)
<1>1. PICK f \in [D -> Seq(Hex)] : IsRemainders(f, value, b) /\ Remainders(value, b) = f[value]
  BY RemaindersAre
<1>. DEFINE P == {v \in D : Fine(f[v], v)}
            r == [v \in D |-> v]
<1>2. \A v \in D : v \in Nat /\ r[v] = v /\ f[v] \in Seq(Hex)
  OBVIOUS
<1>3. f = [v \in D |-> <<Digit[(v % b) + 1]>> \o (IF v < b THEN <<>> ELSE f[v \div b])]
  BY <1>1 DEF IsRemainders
<1>. HIDE DEF P, r, Fine
<1>4. ASSUME NEW v \in D, \A w \in D : r[w] < r[v] => w \in P PROVE v \in P
  <2>1. v \in Nat /\ r[v] = v
    BY <1>2
  <2>2. PICK d \in Hex : /\ d = Digit[(v % b) + 1] /\ DigitValue(d) = v % b /\ (v % b # 0 => d # "0")
                         /\ b = 10 => d \in Decimal
    <3>1. v % b \in 0 .. 15 /\ (b = 10 => v % b \in 0 .. 9)
      BY <2>1, Divided
    <3>. QED  BY <3>1, DigitsAre
  <2>. DEFINE rest == IF v < b THEN <<>> ELSE f[v \div b]
  <2>3. f[v] = <<d>> \o rest
    BY <1>3, <2>2, Zenon
  <2>4. /\ rest \in Seq(Hex) /\ Extended(0, Reverse(rest), b) = v \div b /\ (b = 10 => rest \in Seq(Decimal))
        /\ v >= b => v \div b > 0 /\ Reverse(rest) # <<>> /\ Reverse(rest)[1] # "0"
    <3>1. CASE v < b
      <4>1. Reverse(<<>>) = <<>> /\ v \div b = 0 /\ rest = <<>> /\ <<>> \in Seq(Hex) /\ <<>> \in Seq(Decimal)
            /\ ~ (v >= b)
        BY <2>1, <3>1, Divided DEF Reverse
      <4>2. Extended(0, <<>>, b) = 0
        BY ExtendedEmpty
      <4>. QED  BY <4>1, <4>2
    <3>2. CASE ~ (v < b)
      <4>1. v >= b /\ v \div b \in Nat /\ v \div b < v /\ v \div b > 0
        BY <2>1, <3>2, Divided
      <4>2. v \div b \in D /\ r[v \div b] < r[v]
        <5>1. v \div b \in D
          BY <2>1, <4>1
        <5>. QED  BY <1>2, <2>1, <4>1, <5>1
      <4>3. Fine(f[v \div b], v \div b)
        BY <1>4, <4>2 DEF P
      <4>4. rest = f[v \div b]
        BY <3>2
      <4>. HIDE DEF rest
      <4>. QED  BY <4>1, <4>3, <4>4 DEF Fine
    <3>. QED  BY <3>1, <3>2
  <2>. HIDE DEF rest
  <2>5. f[v] \in Seq(Hex)
    BY <1>2
  <2>6. PICK s \in Seq(Hex) : s = Reverse(rest)
    BY <2>4, ReverseIs
  <2>7. Reverse(f[v]) = Append(s, d)
    BY <2>3, <2>4, <2>6, ReverseIs
  <2>8. Extended(0, Reverse(f[v]), b) = v
    <3>1. Extended(0, Append(s, d), b) = Extended(0, s, b) * b + DigitValue(d)
      BY ExtendedAppend
    <3>. QED  BY <2>1, <2>2, <2>4, <2>6, <2>7, <3>1, Divided
  <2>9. Append(s, d) # <<>> /\ Append(s, d)[1] = IF s = <<>> THEN d ELSE s[1]
    <3>. DEFINE t == Append(s, d)
    <3>1. /\ t \in Seq(Hex) /\ Len(t) = Len(s) + 1 /\ Len(s) \in Nat
          /\ t[Len(s) + 1] = d /\ \A i \in 1 .. Len(s) : t[i] = s[i]
      OBVIOUS
    <3>. HIDE DEF t
    <3>2. t # <<>> /\ (s = <<>> <=> Len(s) = 0)
      BY <3>1
    <3>3. CASE s = <<>>
      <4>1. Len(s) + 1 = 1
        BY <3>2, <3>3
      <4>. QED  BY <3>1, <3>2, <3>3, <4>1 DEF t
    <3>4. CASE s # <<>>
      <4>1. 1 \in 1 .. Len(s)
        BY <3>1, <3>2, <3>4
      <4>. QED  BY <3>1, <3>2, <3>4, <4>1 DEF t
    <3>. QED  BY <3>3, <3>4
  <2>10. v > 0 => Reverse(f[v])[1] # "0"
    <3>1. CASE v >= b
      BY <2>4, <2>6, <2>7, <2>9, <3>1
    <3>2. CASE ~ (v >= b)
      <4>0. v < b
        BY <2>1, <3>2
      <4>1. v % b = v /\ v < b
        BY <2>1, <4>0, Divided
      <4>2. rest = <<>>
        BY <4>1 DEF rest
      <4>3. s = <<>>
        BY <2>6, <4>2 DEF Reverse
      <4>. QED  BY <2>2, <2>7, <2>9, <4>1, <4>3
    <3>. QED  BY <3>1, <3>2
  <2>11. b = 10 => f[v] \in Seq(Decimal)
    <3>1. \A c \in Decimal, t \in Seq(Decimal) : <<c>> \o t \in Seq(Decimal)
      OBVIOUS
    <3>. QED  BY <2>2, <2>3, <2>4, <3>1
  <2>12. Fine(f[v], v)
    BY <2>5, <2>7, <2>8, <2>9, <2>10, <2>11 DEF Fine
  <2>. QED  BY <2>12 DEF P
<1>5. \A v \in D : r[v] \in Nat
  BY <1>2
<1>6. value \in D
  OBVIOUS
<1>. HIDE DEF D
<1>7. D \subseteq P
  BY <1>4, <1>5, RankInduction
<1>8. Fine(Remainders(value, b), value)
  BY <1>1, <1>6, <1>7 DEF P
<1>9. Remainders(value, b) \in Seq(Hex) /\ (b = 10 => Remainders(value, b) \in Seq(Decimal))
  BY <1>8 DEF Fine
<1>10. /\ Reverse(Remainders(value, b)) \in Seq(Hex)
       /\ b = 10 => Reverse(Remainders(value, b)) \in Seq(Decimal)
  BY <1>9, ReverseIs
<1>. QED  BY <1>8, <1>9, <1>10 DEF Fine

\* How many digits a number below the cube of 16 has, and how many halvings leave something.
LEMMA FewDigits ==
  ASSUME NEW value \in Nat
  PROVE  value < 4096 => Len(Remainders(value, 16)) \in 1 .. 3
<1>. DEFINE D == 0 .. value
<1>0. PICK b \in 2 .. 16 : b = 16
  OBVIOUS
<1>1. PICK f \in [D -> Seq(Hex)] : IsRemainders(f, value, b) /\ Remainders(value, b) = f[value]
  BY RemaindersAre
<1>2. f = [v \in D |-> <<Digit[(v % b) + 1]>> \o (IF v < b THEN <<>> ELSE f[v \div b])]
  BY <1>1 DEF IsRemainders
<1>3. ASSUME NEW v \in D
      PROVE  /\ v < b => Len(f[v]) = 1
             /\ v >= b => v \div b \in D /\ Len(f[v]) = Len(f[v \div b]) + 1
  <2>1. f[v] = <<Digit[(v % b) + 1]>> \o (IF v < b THEN <<>> ELSE f[v \div b])
    BY <1>2, Zenon
  <2>2. v \in Nat /\ v <= value /\ (v % b) \in 0 .. 15 /\ v \div b \in Nat /\ v \div b <= v
    <3>1. v \in Nat /\ v <= value
      OBVIOUS
    <3>. QED  BY <3>1, Divided
  <2>3. PICK d \in Hex : d = Digit[(v % b) + 1]
    BY <2>2, DigitsAre
  <2>4. CASE v < b
    <3>1. f[v] = <<d>> \o <<>>
      BY <2>1, <2>3, <2>4
    <3>. QED  BY <2>2, <2>4, <3>1
  <2>5. CASE v >= b
    <3>1. v \div b \in D
      BY <2>2
    <3>2. PICK s \in Seq(Hex) : s = f[v \div b]
      BY <3>1
    <3>3. f[v] = <<d>> \o s
      BY <2>1, <2>2, <2>3, <2>5, <3>2
    <3>4. Len(<<d>> \o s) = Len(s) + 1
      OBVIOUS
    <3>. QED  BY <2>2, <2>5, <3>1, <3>2, <3>3, <3>4
  <2>. QED  BY <2>2, <2>4, <2>5
<1>. DEFINE w == value \div b
            u == w \div b
<1>4. value \in D /\ value \in Nat /\ w \in Nat /\ u \in Nat /\ (value < 4096 => u < 16)
  <2>1. w = value \div 16 /\ u = w \div 16
    BY <1>0
  <2>. HIDE DEF w, u
  <2>2. w \in Nat /\ (value < 4096 => w < 256)
    BY <2>1
  <2>. QED  BY <2>1, <2>2
<1>. HIDE DEF D, u
<1>5. value >= 16 => w \in D /\ Len(f[value]) = Len(f[w]) + 1
  BY <1>0, <1>3, <1>4
<1>6. value < 16 => Len(f[value]) = 1
  BY <1>0, <1>3, <1>4
<1>. HIDE DEF w
<1>7. value >= 16 /\ w >= 16 => u \in D /\ Len(f[w]) = Len(f[u]) + 1
  BY <1>0, <1>3, <1>5 DEF u
<1>8. value >= 16 /\ w < 16 => Len(f[w]) = 1
  BY <1>0, <1>3, <1>5
<1>9. value < 4096 /\ value >= 16 /\ w >= 16 => Len(f[u]) = 1
  BY <1>0, <1>3, <1>4, <1>7
<1>10. ASSUME value < 4096 PROVE Len(f[value]) \in {1, 2, 3}
  <2>1. CASE value < 16
    BY <1>6, <2>1
  <2>2. CASE value >= 16 /\ w < 16
    <3>1. Len(f[w]) = 1 /\ Len(f[value]) = Len(f[w]) + 1
      BY <1>5, <1>8, <2>2
    <3>2. Len(f[value]) = 2
      BY <3>1
    <3>. QED  BY <3>2
  <2>3. CASE value >= 16 /\ w >= 16
    <3>1. Len(f[u]) = 1 /\ Len(f[w]) = Len(f[u]) + 1 /\ Len(f[value]) = Len(f[w]) + 1
      BY <1>5, <1>7, <1>9, <1>10, <2>3
    <3>2. Len(f[w]) = 2
      BY <3>1
    <3>3. Len(f[value]) = 3
      BY <3>1, <3>2
    <3>. QED  BY <3>3
  <2>. QED  BY <1>4, <2>1, <2>2, <2>3
<1>. QED  BY <1>0, <1>1, <1>10

-----------------------------------------------------------------------------
(***************************************************************************)
(* strToHex and the powers it takes.                                       *)
(***************************************************************************)
\* The kernel's digits are the user library's.
LEMMA SameDigits ==
  /\ \A c : Kernel!User!DigitValue(c) = DigitValue(c)
  /\ \A c : Kernel!User!IsHex(c) <=> IsHex(c)
  /\ Kernel!User!Decimal = Decimal
<1>1. \A c : Kernel!User!DigitValue(c) = DigitValue(c)
  BY Zenon DEF DigitValue, Kernel!User!DigitValue, Digit, LowerDigit, Kernel!User!Digit,
       Kernel!User!LowerDigit
<1>2. \A c : Kernel!User!IsHex(c) <=> IsHex(c)
  BY Zenon DEF IsHex, Kernel!User!IsHex, Range, Kernel!User!Range, Digit, LowerDigit,
               Kernel!User!Digit, Kernel!User!LowerDigit
<1>3. Kernel!User!Decimal = Decimal
  BY Zenon DEF Decimal, Kernel!User!Decimal, Digit, Kernel!User!Digit
<1>. QED  BY <1>1, <1>2, <1>3

\* The powers of 16, by the multiplications of pow.
IsPow(p, x, y) == p = [n \in 0 .. y |-> IF n = 0 THEN 1 ELSE IF n = 1 THEN x ELSE p[n - 1] * x]

\* The recursion of pow has a solution.
LEMMA PowExists ==
  ASSUME NEW x \in Nat, NEW y \in Nat
  PROVE  \E p \in [0 .. y -> Nat] : IsPow(p, x, y)
<1>. DEFINE f == [k \in Nat |-> [v \in Nat |-> IF k = 1 THEN x ELSE v * x]]
<1>1. PICK g : Iterates(g, f, 1, y)
  BY IterationExists
<1>2. g = [k \in 0 .. y |-> g[k]] /\ \A k \in 0 .. y : g[k] = IF k = 0 THEN 1 ELSE f[k][g[k - 1]]
  BY <1>1 DEF Iterates
<1>. DEFINE T == {n \in Nat : n <= y => g[n] \in Nat}
<1>2a. g[0] = 1
  <2>1. 0 \in 0 .. y
    OBVIOUS
  <2>. QED  BY <1>2, <2>1
<1>3. 0 \in T
  BY <1>2a
<1>4. ASSUME NEW n \in Nat, n \in T PROVE n + 1 \in T
  <2>. SUFFICES ASSUME n + 1 <= y PROVE g[n + 1] \in Nat
    OBVIOUS
  <2>1. g[n] \in Nat /\ n + 1 \in 0 .. y /\ n + 1 # 0 /\ (n + 1) - 1 = n
    BY <1>4
  <2>2. g[n + 1] = f[n + 1][g[n]]
    BY <1>2, <2>1
  <2>3. \A v \in Nat : v * x \in Nat
    OBVIOUS
  <2>. QED  BY <2>1, <2>2, <2>3
<1>. HIDE DEF T
<1>5. \A n \in Nat : n \in T
  BY <1>3, <1>4, NatSetInduction
<1>6. \A n \in 0 .. y : g[n] \in Nat
  BY <1>5 DEF T
<1>7. ASSUME NEW n \in 0 .. y
      PROVE  g[n] = IF n = 0 THEN 1 ELSE IF n = 1 THEN x ELSE g[n - 1] * x
  <2>1. CASE n = 0
    BY <1>2a, <2>1
  <2>2. CASE n # 0
    <3>1. n - 1 \in 0 .. y /\ n \in Nat /\ n - 1 \in Nat
      BY <2>2
    <3>2. g[n] = f[n][g[n - 1]]
      BY <1>2, <2>2
    <3>3. g[n] = IF n = 1 THEN x ELSE g[n - 1] * x
      BY <1>6, <3>1, <3>2
    <3>4. n = 1 \/ n > 1
      BY <2>2
    <3>. QED  BY <2>2, <3>3, <3>4
  <2>. QED  BY <2>1, <2>2
<1>. HIDE DEF f
<1>8. IsPow(g, x, y)
  BY <1>2, <1>7 DEF IsPow
<1>9. g \in [0 .. y -> Nat]
  BY <1>2, <1>6
<1>. QED  BY <1>8, <1>9

\* pow multiplies: the user library's.
LEMMA PowIs ==
  ASSUME NEW x \in Nat, NEW y \in Nat
  PROVE  pow(x, y) \in Nat /\ pow(x, 0) = 1 /\ pow(x, y + 1) = pow(x, y) * x
<1>1. ASSUME NEW z \in Nat PROVE \E p : IsPow(p, x, z) /\ pow(x, z) = p[z]
  <2>. DEFINE p == CHOOSE p : IsPow(p, x, z)
  <2>1. pow(x, z) = p[z]
    BY Zenon DEF pow, IsPow
  <2>2. IsPow(p, x, z)
    BY PowExists
  <2>. HIDE DEF p
  <2>. QED  BY <2>1, <2>2
<1>2. ASSUME NEW z \in Nat, NEW p, IsPow(p, x, z)
      PROVE  /\ p[0] = 1
             /\ \A n \in Nat : n < z => p[n + 1] = IF n = 0 THEN x ELSE p[n] * x
  <2>1. \A n \in 0 .. z : p[n] = IF n = 0 THEN 1 ELSE IF n = 1 THEN x ELSE p[n - 1] * x
    BY <1>2 DEF IsPow
  <2>2. ASSUME NEW n \in Nat, n < z PROVE p[n + 1] = IF n = 0 THEN x ELSE p[n] * x
    <3>1. n + 1 \in 0 .. z /\ n + 1 # 0 /\ (n + 1) - 1 = n /\ (n + 1 = 1 <=> n = 0) /\ (n + 1 > 1 <=> n # 0)
      BY <2>2
    <3>. QED  BY <2>1, <3>1
  <2>. QED  BY <2>1, <2>2
<1>3. ASSUME NEW z \in Nat, NEW w \in Nat, z <= w, NEW p, NEW q, IsPow(p, x, z), IsPow(q, x, w)
      PROVE  \A n \in 0 .. z : p[n] = q[n] /\ p[n] \in Nat
  <2>. DEFINE T == {n \in Nat : n <= z => p[n] = q[n] /\ p[n] \in Nat}
  <2>1. 0 \in T
    BY <1>2, <1>3
  <2>2. ASSUME NEW n \in Nat, n \in T PROVE n + 1 \in T
    <3>1. n + 1 <= z => /\ p[n + 1] = (IF n = 0 THEN x ELSE p[n] * x) /\ p[n] \in Nat
                        /\ q[n + 1] = (IF n = 0 THEN x ELSE q[n] * x) /\ p[n] = q[n]
      BY <1>2, <1>3, <2>2
    <3>2. \A v \in Nat : v * x \in Nat
      OBVIOUS
    <3>. QED  BY <3>1, <3>2
  <2>. HIDE DEF T
  <2>3. \A n \in Nat : n \in T
    BY <2>1, <2>2, NatSetInduction
  <2>. QED  BY <2>3 DEF T
<1>4. PICK p : IsPow(p, x, y) /\ pow(x, y) = p[y]
  BY <1>1
<1>5. PICK q : IsPow(q, x, y + 1) /\ pow(x, y + 1) = q[y + 1]
  <2>1. y + 1 \in Nat
    OBVIOUS
  <2>. QED  BY <1>1, <2>1
<1>6. p[y] = q[y] /\ p[y] \in Nat
  <2>1. y \in 0 .. y /\ y + 1 \in Nat /\ y <= y + 1
    OBVIOUS
  <2>. QED  BY <1>3, <1>4, <1>5, <2>1
<1>7. PICK o : IsPow(o, x, 0) /\ pow(x, 0) = o[0]
  BY <1>1
<1>8. pow(x, 0) = 1
  BY <1>2, <1>7
<1>9. q[y + 1] = IF y = 0 THEN x ELSE q[y] * x
  <2>1. y + 1 \in Nat /\ y < y + 1
    OBVIOUS
  <2>. QED  BY <1>2, <1>5, <2>1
<1>10. y = 0 => p[y] = 1
  BY <1>2, <1>4
<1>11. 1 * x = x
  OBVIOUS
<1>. QED  BY <1>4, <1>5, <1>6, <1>8, <1>9, <1>10, <1>11

\* The kernel's pow is right up to the square.
LEMMA KernelPowIs ==
  ASSUME NEW x \in Nat
  PROVE  Kernel!pow(x, 0) = 1 /\ Kernel!pow(x, 1) = x /\ Kernel!pow(x, 2) = x * x
<1>. DEFINE Is(p, y) == p = [n \in 0 .. y |-> IF n = 0 THEN 1 ELSE IF n = 1 THEN x ELSE p[n - 1] * p[n - 1]]
<1>1. ASSUME NEW y \in 0 .. 2
      PROVE  Kernel!pow(x, y) = IF y = 0 THEN 1 ELSE IF y = 1 THEN x ELSE x * x
  <2>. DEFINE p == CHOOSE p : Is(p, y)
              g == [n \in 0 .. y |-> IF n = 0 THEN 1 ELSE IF n = 1 THEN x ELSE x * x]
  <2>1. Kernel!pow(x, y) = p[y]
    BY Zenon DEF Kernel!pow
  <2>2. Is(g, y)
    <3>1. ASSUME NEW n \in 0 .. y
          PROVE  g[n] = IF n = 0 THEN 1 ELSE IF n = 1 THEN x ELSE g[n - 1] * g[n - 1]
      <4>1. n > 1 => n - 1 = 1 /\ n - 1 \in 0 .. y
        OBVIOUS
      <4>2. n > 1 => g[n - 1] = x
        BY <4>1
      <4>3. g[n] = IF n = 0 THEN 1 ELSE IF n = 1 THEN x ELSE x * x
        OBVIOUS
      <4>4. n = 0 \/ n = 1 \/ n > 1
        OBVIOUS
      <4>. HIDE DEF g
      <4>. QED  BY <4>2, <4>3, <4>4
    <3>2. g = [n \in 0 .. y |-> g[n]]
      OBVIOUS
    <3>. HIDE DEF g
    <3>. QED  BY <3>1, <3>2
  <2>3. Is(p, y)
    <3>. HIDE DEF g, Is
    <3>. QED  BY <2>2
  <2>. HIDE DEF p
  <2>4. \A n \in 0 .. y : p[n] = IF n = 0 THEN 1 ELSE IF n = 1 THEN x ELSE p[n - 1] * p[n - 1]
    BY <2>3
  <2>5. y = 0 => p[y] = 1
    BY <2>4
  <2>6. y >= 1 => p[1] = x
    <3>1. y >= 1 => 1 \in 0 .. y
      OBVIOUS
    <3>. QED  BY <2>4, <3>1
  <2>7. y > 1 => y = 2 /\ p[2] = p[1] * p[1]
    <3>1. y > 1 => y = 2 /\ 2 \in 0 .. y /\ 2 - 1 = 1 /\ 2 > 1
      OBVIOUS
    <3>. QED  BY <2>4, <3>1
  <2>8. y = 0 \/ y = 1 \/ y > 1
    OBVIOUS
  <2>. QED  BY <2>1, <2>5, <2>6, <2>7, <2>8
<1>2. 0 \in 0 .. 2 /\ 1 \in 0 .. 2 /\ 2 \in 0 .. 2 /\ 2 > 1
  OBVIOUS
<1>. QED  BY <1>1, <1>2

\* Digits summed, each times the weight of its place.
Weighted(str, w) == [k \in DOMAIN str |-> [v \in Int |-> v + DigitValue(str[k]) * w[k]]]
WeightedFold(g, str, w) ==
  \A u \in SUBSET (1 .. Len(str)) :
    g[u] = IF u = {} THEN 0 ELSE g[u \ {Max(u)}] + DigitValue(str[Max(u)]) * w[Max(u)]

\* The weights of a numeral.
WeightsOf(w, N, b) == /\ \A i \in 0 .. N : w[i] \in Nat
                      /\ w[N] = 1 /\ \A i \in Nat : i < N => w[i] = w[i + 1] * b

\* There is a sum of the weighted digits.
LEMMA WeightedExists ==
  ASSUME NEW str \in Seq(Hex), NEW b \in Nat, NEW w, WeightsOf(w, Len(str), b)
  PROVE  \E g \in [SUBSET (1 .. Len(str)) -> Int] : WeightedFold(g, str, w)
<1>. DEFINE N == Len(str)
            f == Weighted(str, w)
<1>1. N \in Nat /\ DOMAIN str = 1 .. N /\ \A k \in 1 .. N : DigitValue(str[k]) \in 0 .. 15 /\ w[k] \in Nat
  <2>1. N \in Nat /\ DOMAIN str = 1 .. N /\ \A k \in 1 .. N : str[k] \in Hex /\ k \in 0 .. N
    OBVIOUS
  <2>. QED  BY <2>1, DigitsAre DEF WeightsOf
<1>2. \A k \in 1 .. N, v \in Int : f[k][v] = v + DigitValue(str[k]) * w[k]
  BY <1>1 DEF Weighted
<1>3. \A k \in 1 .. N : DigitValue(str[k]) * w[k] \in Int
  <2>1. \A a \in 0 .. 15, c \in Nat : a * c \in Int
    OBVIOUS
  <2>. QED  BY <1>1, <2>1
<1>4. 0 \in Int /\ \A k \in 1 .. N, v \in Int : f[k][v] \in Int
  <2>. HIDE DEF f, N
  <2>1. \A v, z \in Int : v + z \in Int
    OBVIOUS
  <2>2. ASSUME NEW k \in 1 .. N, NEW v \in Int PROVE f[k][v] \in Int
    BY <1>2, <1>3, <2>1
  <2>. QED  BY <2>2
<1>. HIDE DEF N, f
<1>5. HasLeftFold(Int, f, 0, N)
  BY <1>1, <1>4, LeftFoldExists
<1>6. PICK e \in [SUBSET (1 .. N) -> Int] : LeftFold(e, f, 0, N)
  BY <1>5 DEF HasLeftFold
<1>7. ASSUME NEW u \in SUBSET (1 .. N)
      PROVE  e[u] = IF u = {} THEN 0 ELSE e[u \ {Max(u)}] + DigitValue(str[Max(u)]) * w[Max(u)]
  <2>1. u # {} => Max(u) \in 1 .. N /\ u \ {Max(u)} \in SUBSET (1 .. N)
    BY <1>1, MaxIs
  <2>2. e[u] = IF u = {} THEN 0 ELSE f[Max(u)][e[u \ {Max(u)}]]
    BY <1>6 DEF LeftFold
  <2>3. u # {} => e[u \ {Max(u)}] \in Int
    BY <2>1
  <2>. QED  BY <1>2, <2>1, <2>2, <2>3
<1>. QED  BY <1>6, <1>7 DEF WeightedFold, N

\* Their sum is what the numeral stands for.
LEMMA WeightedIsExtended ==
  ASSUME NEW str \in Seq(Hex), NEW b \in Nat, NEW w, WeightsOf(w, Len(str), b),
         NEW g, WeightedFold(g, str, w)
  PROVE  g[1 .. Len(str)] = Extended(0, str, b)
<1>. DEFINE N == Len(str)
            f == Weighted(str, w)
<1>1. N \in Nat /\ DOMAIN str = 1 .. N /\ \A k \in 1 .. N : DigitValue(str[k]) \in 0 .. 15 /\ w[k] \in Nat
  <2>1. N \in Nat /\ DOMAIN str = 1 .. N /\ \A k \in 1 .. N : str[k] \in Hex /\ k \in 0 .. N
    OBVIOUS
  <2>. QED  BY <2>1, DigitsAre DEF WeightsOf
<1>2. \A k \in 1 .. N, v \in Int : f[k][v] = v + DigitValue(str[k]) * w[k]
  BY <1>1 DEF Weighted
<1>3. \A k \in 1 .. N : DigitValue(str[k]) * w[k] \in Int
  <2>1. \A a \in 0 .. 15, c \in Nat : a * c \in Int
    OBVIOUS
  <2>. QED  BY <1>1, <2>1
<1>4. 0 \in Int /\ \A k \in 1 .. N, v \in Int : f[k][v] \in Int
  <2>. HIDE DEF f, N
  <2>1. \A v, z \in Int : v + z \in Int
    OBVIOUS
  <2>2. ASSUME NEW k \in 1 .. N, NEW v \in Int PROVE f[k][v] \in Int
    BY <1>2, <1>3, <2>1
  <2>. QED  BY <2>2
<1>5. PICK p \in [0 .. N -> Int] :
        /\ p[0] = 0 /\ Extended(0, str, b) = p[N]
        /\ \A n \in Nat : n < N => p[n + 1] = p[n] * b + DigitValue(str[n + 1])
  BY <1>4, ExtendedIs, Zenon
<1>. HIDE DEF N, f
<1>6. g[{}] = 0
  <2>1. {} \in SUBSET (1 .. N)
    OBVIOUS
  <2>. QED  BY <2>1 DEF WeightedFold, N
<1>7. ASSUME NEW u \in SUBSET (1 .. N), u # {}, g[u \ {Max(u)}] \in Int
      PROVE  g[u] = f[Max(u)][g[u \ {Max(u)}]]
  <2>1. Max(u) \in 1 .. N
    BY <1>1, <1>7, MaxIs
  <2>2. g[u] = g[u \ {Max(u)}] + DigitValue(str[Max(u)]) * w[Max(u)]
    BY <1>7 DEF WeightedFold, N
  <2>. QED  BY <1>2, <1>7, <2>1, <2>2
<1>8. ResultOf(g[1 .. N], f, 0, Int, N)
  BY <1>1, <1>4, <1>6, <1>7, LeftFoldRuns
<1>9. PICK h \in [0 .. N -> Int] : Runs(h, f, 0, N) /\ g[1 .. N] = h[N]
  BY <1>8 DEF ResultOf
<1>. DEFINE T == {n \in Nat : n <= N => h[n] = p[n] * w[n]}
<1>10. 0 \in T
  <2>1. h[0] = 0 /\ p[0] = 0 /\ 0 \in 0 .. N /\ w[0] \in Nat
    BY <1>1, <1>5, <1>9 DEF Runs, WeightsOf, N
  <2>2. \A v \in Nat : 0 = 0 * v
    OBVIOUS
  <2>. QED  BY <2>1, <2>2
<1>11. ASSUME NEW n \in Nat, n \in T PROVE n + 1 \in T
  <2>. SUFFICES ASSUME n + 1 <= N PROVE h[n + 1] = p[n + 1] * w[n + 1]
    OBVIOUS
  <2>1. n < N /\ n <= N /\ n \in 0 .. N /\ n + 1 \in 0 .. N /\ n + 1 \in 1 .. N
    BY <1>1
  <2>2. h[n] = p[n] * w[n] /\ h[n] \in Int /\ p[n] \in Int /\ w[n + 1] \in Nat
        /\ w[n] = w[n + 1] * b /\ DigitValue(str[n + 1]) \in Int
    <3>1. h[n] = p[n] * w[n]
      BY <1>11, <2>1
    <3>2. h[n] \in Int /\ p[n] \in Int /\ DigitValue(str[n + 1]) \in Int
      <4>1. \A a \in 0 .. 15 : a \in Int
        OBVIOUS
      <4>. QED  BY <1>1, <2>1, <4>1
    <3>3. w[n + 1] \in Nat /\ w[n] = w[n + 1] * b
      BY <2>1 DEF WeightsOf, N
    <3>. QED  BY <3>1, <3>2, <3>3
  <2>3. h[n + 1] = h[n] + DigitValue(str[n + 1]) * w[n + 1]
    BY <1>2, <1>9, <2>1, <2>2 DEF Runs
  <2>4. p[n + 1] = p[n] * b + DigitValue(str[n + 1])
    BY <1>5, <2>1
  <2>5. \A a, c, d, e \in Int : a * (e * c) + d * e = (a * c + d) * e
    OBVIOUS
  <2>. QED  BY <2>2, <2>3, <2>4, <2>5
<1>. HIDE DEF T
<1>12. \A n \in Nat : n \in T
  BY <1>10, <1>11, NatSetInduction
<1>13. h[N] = p[N] * w[N] /\ w[N] = 1 /\ p[N] \in Int
  <2>1. N <= N /\ N \in 0 .. N
    BY <1>1
  <2>. QED  BY <1>1, <1>12, <2>1 DEF T, WeightsOf, N
<1>. QED  BY <1>5, <1>9, <1>13 DEF N

\* The same sums as a function of their places.
HexFold(e, str, w) ==
  e = [u \in SUBSET (1 .. Len(str)) |->
         IF u = {} THEN 0 ELSE e[u \ {Max(u)}] + DigitValue(str[Max(u)]) * w[Max(u)]]

\* The fold that strToHex takes over the places is that sum.
LEMMA HexFoldIs ==
  ASSUME NEW str \in Seq(Hex), NEW w, WeightsOf(w, Len(str), 16)
  PROVE  /\ \E e : HexFold(e, str, w)
         /\ \A e : HexFold(e, str, w) => e[1 .. Len(str)] = Extended(0, str, 16)
<1>. DEFINE N == Len(str)
<1>0. 16 \in Nat
  OBVIOUS
<1>1. PICK e \in [SUBSET (1 .. N) -> Int] : WeightedFold(e, str, w)
  BY <1>0, WeightedExists
<1>2. HexFold(e, str, w)
  BY <1>1 DEF WeightedFold, HexFold
<1>3. ASSUME NEW g, HexFold(g, str, w) PROVE g[1 .. N] = Extended(0, str, 16)
  <2>1. ASSUME NEW u \in SUBSET (1 .. N)
        PROVE  g[u] = IF u = {} THEN 0 ELSE g[u \ {Max(u)}] + DigitValue(str[Max(u)]) * w[Max(u)]
    BY <1>3, Zenon DEF HexFold
  <2>2. WeightedFold(g, str, w)
    BY <2>1 DEF WeightedFold
  <2>. QED  BY <1>0, <2>2, WeightedIsExtended
<1>. QED  BY <1>2, <1>3

\* So strToHex reads what was written in base 16, in upper or lower case,
LEMMA HexRead ==
  ASSUME NEW str \in Seq(Hex), NEW read, DOMAIN read = DOMAIN str, Len(read) = Len(str),
         \A i \in DOMAIN str : IsHex(read[i]) /\ DigitValue(read[i]) = DigitValue(str[i])
  PROVE  strToHex(read) = [error |-> FALSE, num |-> Extended(0, str, 16)]
<1>. DEFINE places == [i \in DOMAIN read |-> i]
            Folded(e) == e = [u \in SUBSET DOMAIN places |->
                               IF u = {} THEN 0
                               ELSE e[u \ {Max(u)}] + DigitValue(read[places[Max(u)]])
                                                        * pow(16, Len(read) - places[Max(u)])]
            g == CHOOSE e : Folded(e)
            N == Len(str)
            w == [i \in 0 .. N |-> pow(16, N - i)]
<1>1. N \in Nat /\ DOMAIN str = 1 .. N /\ \A k \in 1 .. N : str[k] \in Hex
  OBVIOUS
<1>2. \A i \in DOMAIN read : IsHex(read[i])
  OBVIOUS
<1>3. strToHex(read) = [error |-> FALSE, num |-> g[DOMAIN places]]
  <2>1. FoldLeftDomain(LAMBDA num, i : num + DigitValue(read[i]) * pow(16, Len(read) - i), 0, read) = g[DOMAIN places]
    BY Zenon DEF FoldLeftDomain, FoldLeft, MapThenFoldSet
  <2>. HIDE DEF g
  <2>. QED  BY <1>2, <2>1, Zenon DEF strToHex
<1>4. DOMAIN places = 1 .. N /\ \A i \in 1 .. N : places[i] = i
  BY <1>1
<1>5. WeightsOf(w, N, 16)
  <2>1. \A i \in 0 .. N : w[i] = pow(16, N - i) /\ N - i \in Nat
    BY <1>1
  <2>. HIDE DEF w
  <2>2. \A y \in Nat : pow(16, y) \in Nat /\ pow(16, 0) = 1 /\ pow(16, y + 1) = pow(16, y) * 16
    BY PowIs
  <2>3. ASSUME NEW i \in Nat, i < N PROVE w[i] = w[i + 1] * 16
    <3>1. i \in 0 .. N /\ i + 1 \in 0 .. N /\ N - (i + 1) \in Nat /\ (N - (i + 1)) + 1 = N - i
      BY <1>1, <2>3
    <3>2. w[i] = pow(16, N - i) /\ w[i + 1] = pow(16, N - (i + 1))
      BY <2>1, <3>1
    <3>3. pow(16, (N - (i + 1)) + 1) = pow(16, N - (i + 1)) * 16
      BY <2>2, <3>1
    <3>. QED  BY <3>1, <3>2, <3>3
  <2>4. N \in 0 .. N /\ N - N = 0
    BY <1>1
  <2>5. w[N] = 1
    BY <1>1, <2>1, <2>2, <2>4
  <2>. HIDE DEF N
  <2>. QED  BY <2>1, <2>2, <2>3, <2>5 DEF WeightsOf
<1>6. \A u \in SUBSET (1 .. N) : u # {} => Max(u) \in 1 .. N /\ w[Max(u)] = pow(16, N - Max(u))
  <2>1. \A u \in SUBSET (1 .. N) : u # {} => Max(u) \in 1 .. N
    BY <1>1, MaxIs
  <2>2. \A i \in 1 .. N : w[i] = pow(16, N - i)
    BY <1>1
  <2>. HIDE DEF w, N
  <2>. QED  BY <2>1, <2>2
<1>. HIDE DEF w, places
<1>7. ASSUME NEW e PROVE Folded(e) <=> HexFold(e, str, w)
  <2>1. ASSUME NEW u \in SUBSET (1 .. N), u # {}
        PROVE  DigitValue(read[places[Max(u)]]) * pow(16, Len(read) - places[Max(u)])
                 = DigitValue(str[Max(u)]) * w[Max(u)]
    BY <1>4, <1>6, <2>1
  <2>. QED  BY <1>4, <2>1 DEF HexFold
<1>8. HexFold(g, str, w)
  <2>1. \E e : Folded(e)
    BY <1>5, <1>7, HexFoldIs
  <2>2. Folded(g)
    <3>. HIDE DEF Folded
    <3>. QED  BY <2>1
  <2>. QED  BY <1>7, <2>2
<1>. HIDE DEF g
<1>9. g[1 .. N] = Extended(0, str, 16)
  BY <1>5, <1>8, HexFoldIs
<1>. HIDE DEF N
<1>. QED  BY <1>3, <1>4, <1>9

\* and the kernel's what is no longer than three digits.
LEMMA KernelHexRead ==
  ASSUME NEW str \in Seq(Hex), Len(str) \in 1 .. 3
  PROVE  Kernel!strToHex(str) = [error |-> FALSE, num |-> Extended(0, str, 16)]
<1>. DEFINE places == [i \in DOMAIN str |-> i]
            Folded(e) == e = [u \in SUBSET DOMAIN places |->
                               IF u = {} THEN 0
                               ELSE e[u \ {Max(u)}] + Kernel!User!DigitValue(str[places[Max(u)]])
                                                        * Kernel!pow(16, Len(str) - places[Max(u)])]
            g == CHOOSE e : Folded(e)
            N == Len(str)
            w == [i \in 0 .. N |-> IF N - i = 3 THEN 16 * 16 * 16 ELSE Kernel!pow(16, N - i)]
<1>1. N \in Nat /\ DOMAIN str = 1 .. N /\ \A k \in 1 .. N : str[k] \in Hex
  OBVIOUS
<1>2. \A i \in DOMAIN str : Kernel!User!IsHex(str[i])
  BY <1>1, DigitsAre, SameDigits
<1>3. Kernel!strToHex(str) = [error |-> FALSE, num |-> g[DOMAIN places]]
  <2>1. Kernel!FoldLeftDomain(LAMBDA num, i : num + Kernel!User!DigitValue(str[i]) * Kernel!pow(16, Len(str) - i), 0, str)
          = g[DOMAIN places]
    BY Zenon DEF Kernel!FoldLeftDomain, Kernel!FoldLeft, Kernel!MapThenFoldSet, Kernel!Max, Max
  <2>. HIDE DEF g
  <2>. QED  BY <1>2, <2>1, Zenon DEF Kernel!strToHex
<1>4. DOMAIN places = 1 .. N /\ \A i \in 1 .. N : places[i] = i
  BY <1>1
<1>5. WeightsOf(w, N, 16)
  <2>1. Kernel!pow(16, 0) = 1 /\ Kernel!pow(16, 1) = 16 /\ Kernel!pow(16, 2) = 16 * 16
    <3>1. 16 \in Nat
      OBVIOUS
    <3>. QED  BY <3>1, KernelPowIs
  <2>2. \A i \in 0 .. N : w[i] = IF N - i = 3 THEN 16 * 16 * 16 ELSE Kernel!pow(16, N - i)
    BY Zenon
  <2>. HIDE DEF w
  <2>4. N \in 1 .. 3
    OBVIOUS
  <2>. HIDE DEF N
  <2>3a. \A i \in 0 .. N : N - i = 0 \/ N - i = 1 \/ N - i = 2 \/ N - i = 3
    BY <2>4
  <2>3. \A i \in 0 .. N : w[i] = IF N - i = 0 THEN 1 ELSE IF N - i = 1 THEN 16
                                 ELSE IF N - i = 2 THEN 16 * 16 ELSE 16 * 16 * 16
    BY <2>1, <2>2, <2>3a
  <2>5. w[N] = 1 /\ \A i \in 0 .. N : w[i] \in Nat
    BY <2>3, <2>4
  <2>6. ASSUME NEW i \in Nat, i < N PROVE w[i] = w[i + 1] * 16
    <3>1. i \in 0 .. N /\ i + 1 \in 0 .. N
      BY <2>4, <2>6
    <3>2. (N - i = 1 /\ N - (i + 1) = 0) \/ (N - i = 2 /\ N - (i + 1) = 1) \/ (N - i = 3 /\ N - (i + 1) = 2)
      BY <2>4, <2>6
    <3>. QED  BY <2>3, <3>1, <3>2
  <2>. QED  BY <2>5, <2>6 DEF WeightsOf
<1>6. \A u \in SUBSET (1 .. N) : u # {} => Max(u) \in 1 .. N /\ w[Max(u)] = Kernel!pow(16, N - Max(u))
  <2>1. \A u \in SUBSET (1 .. N) : u # {} => Max(u) \in 1 .. N
    BY <1>1, MaxIs
  <2>2. ASSUME NEW i \in 1 .. N PROVE w[i] = Kernel!pow(16, N - i)
    <3>1. N \in 1 .. 3
      OBVIOUS
    <3>2. i \in 0 .. N /\ N - i # 3
      <4>. HIDE DEF N
      <4>. QED  BY <3>1
    <3>3. w[i] = IF N - i = 3 THEN 16 * 16 * 16 ELSE Kernel!pow(16, N - i)
      BY <3>2, Zenon
    <3>. HIDE DEF w
    <3>. QED  BY <3>2, <3>3, Zenon
  <2>. HIDE DEF w, N
  <2>. QED  BY <2>1, <2>2
<1>. HIDE DEF w, places
<1>7. ASSUME NEW e PROVE Folded(e) <=> HexFold(e, str, w)
  <2>1. ASSUME NEW u \in SUBSET (1 .. N), u # {}
        PROVE  Kernel!User!DigitValue(str[places[Max(u)]]) * Kernel!pow(16, Len(str) - places[Max(u)])
                 = DigitValue(str[Max(u)]) * w[Max(u)]
    BY <1>4, <1>6, <2>1, SameDigits
  <2>. QED  BY <1>4, <2>1 DEF HexFold
<1>8. HexFold(g, str, w)
  <2>1. \E e : Folded(e)
    BY <1>5, <1>7, HexFoldIs
  <2>2. Folded(g)
    <3>. HIDE DEF Folded
    <3>. QED  BY <2>1
  <2>. QED  BY <1>7, <2>2
<1>. HIDE DEF g
<1>9. g[1 .. N] = Extended(0, str, 16)
  BY <1>5, <1>8, HexFoldIs
<1>. HIDE DEF N
<1>. QED  BY <1>3, <1>4, <1>9

-----------------------------------------------------------------------------
(***************************************************************************)
(* Folds from the right, as folds from the left over the mirrored places.  *)
(***************************************************************************)
Mirror(u, N) == {N + 1 - k : k \in u}

\* The least place of a set is the greatest of its mirror.
LEMMA MirrorIs ==
  ASSUME NEW N \in Nat, NEW u \in SUBSET (1 .. N)
  PROVE  /\ Mirror(u, N) \in SUBSET (1 .. N) /\ Mirror(Mirror(u, N), N) = u
         /\ Mirror({}, N) = {}
         /\ u # {} => /\ Min(u) \in 1 .. N /\ Mirror(u, N) # {} /\ Max(Mirror(u, N)) = N + 1 - Min(u)
                      /\ u \ {Min(u)} \in SUBSET (1 .. N)
                      /\ Mirror(u, N) \ {N + 1 - Min(u)} = Mirror(u \ {Min(u)}, N)
<1>. DEFINE m(k) == N + 1 - k
            v == Mirror(u, N)
<1>1. \A k \in 1 .. N : m(k) \in 1 .. N /\ m(m(k)) = k
  OBVIOUS
<1>2. \A w \in SUBSET (1 .. N) : \A k : k \in Mirror(w, N) <=> \E j \in w : k = m(j)
  BY DEF Mirror
<1>3. Mirror({}, N) = {}
  BY DEF Mirror
<1>4. v \in SUBSET (1 .. N)
  BY <1>1, <1>2
<1>. HIDE DEF m, v
<1>5. Mirror(v, N) = u
  <2>1. ASSUME NEW k \in u PROVE k \in Mirror(v, N)
    <3>1. m(k) \in v /\ k = m(m(k))
      BY <1>1, <1>2, <2>1 DEF v
    <3>. QED  BY <1>2, <1>4, <3>1
  <2>2. ASSUME NEW k \in Mirror(v, N) PROVE k \in u
    <3>1. PICK j \in v : k = m(j)
      BY <1>2, <1>4
    <3>2. PICK i \in u : j = m(i)
      BY <1>2 DEF v
    <3>. QED  BY <1>1, <3>1, <3>2
  <2>. QED  BY <2>1, <2>2
<1>6. ASSUME u # {}
      PROVE  /\ Min(u) \in 1 .. N /\ v # {} /\ Max(v) = m(Min(u))
             /\ u \ {Min(u)} \in SUBSET (1 .. N) /\ v \ {m(Min(u))} = Mirror(u \ {Min(u)}, N)
  <2>1. PICK a \in u : \A b \in u : a <= b
    BY <1>6, LeastNatural
  <2>2. Min(u) \in u /\ \A b \in u : Min(u) <= b
    BY <2>1 DEF Min
  <2>3. PICK l \in 1 .. N : l = Min(u)
    BY <2>2
  <2>4. m(l) \in v /\ v # {}
    BY <1>2, <2>2, <2>3 DEF v
  <2>5. Max(v) \in v /\ \A y \in v : y <= Max(v)
    BY <1>4, <2>4, MaxIs
  <2>6. PICK x \in u : Max(v) = m(x)
    BY <1>2, <2>5 DEF v
  <2>7. l <= x /\ m(l) <= m(x) /\ x \in 1 .. N
    BY <2>2, <2>3, <2>4, <2>5, <2>6
  <2>8. x = l
    BY <2>7 DEF m
  <2>9. u \ {l} \in SUBSET (1 .. N)
    OBVIOUS
  <2>10. ASSUME NEW k PROVE k \in v \ {m(l)} <=> k \in Mirror(u \ {l}, N)
    <3>1. k \in v <=> \E j \in u : k = m(j)
      BY <1>2 DEF v
    <3>2. k \in Mirror(u \ {l}, N) <=> \E j \in u \ {l} : k = m(j)
      BY <1>2, <2>9
    <3>3. \A j \in u : m(j) = m(l) => j = l
      BY <1>1, <2>3
    <3>. QED  BY <3>1, <3>2, <3>3
  <2>. QED  BY <2>3, <2>4, <2>6, <2>8, <2>9, <2>10
<1>. QED  BY <1>3, <1>4, <1>5, <1>6 DEF v, m

RightFold(g, f, x, N) ==
  \A u \in SUBSET (1 .. N) : g[u] = IF u = {} THEN x ELSE f[Min(u)][g[u \ {Min(u)}]]

\* The fold from the right has a value.
LEMMA RightFoldExists ==
  ASSUME NEW N \in Nat, NEW V, NEW x \in V, NEW f, \A k \in 1 .. N, v \in V : f[k][v] \in V
  PROVE  \E g \in [SUBSET (1 .. N) -> V] : RightFold(g, f, x, N)
<1>. DEFINE F == [k \in 1 .. N |-> f[N + 1 - k]]
<1>1. \A k \in 1 .. N : N + 1 - k \in 1 .. N /\ F[k] = f[N + 1 - k] /\ N + 1 - (N + 1 - k) = k
  OBVIOUS
<1>. HIDE DEF F
<1>2. \A k \in 1 .. N, v \in V : F[k][v] \in V
  BY <1>1
<1>3. PICK e \in [SUBSET (1 .. N) -> V] : LeftFold(e, F, x, N)
  BY <1>2, LeftFoldExists DEF HasLeftFold
<1>. DEFINE g == [u \in SUBSET (1 .. N) |-> e[Mirror(u, N)]]
<1>4. \A u \in SUBSET (1 .. N) : g[u] = e[Mirror(u, N)] /\ Mirror(u, N) \in SUBSET (1 .. N)
  BY MirrorIs
<1>5. g \in [SUBSET (1 .. N) -> V]
  BY <1>4
<1>. HIDE DEF g
<1>6. ASSUME NEW u \in SUBSET (1 .. N)
      PROVE  g[u] = IF u = {} THEN x ELSE f[Min(u)][g[u \ {Min(u)}]]
  <2>1. CASE u = {}
    <3>1. Mirror(u, N) = {} /\ {} \in SUBSET (1 .. N)
      BY <2>1, MirrorIs
    <3>. QED  BY <1>3, <1>4, <2>1, <3>1 DEF LeftFold
  <2>2. CASE u # {}
    <3>. DEFINE v == Mirror(u, N)
    <3>1. /\ Min(u) \in 1 .. N /\ v # {} /\ Max(v) = N + 1 - Min(u) /\ u \ {Min(u)} \in SUBSET (1 .. N)
          /\ v \ {N + 1 - Min(u)} = Mirror(u \ {Min(u)}, N) /\ v \in SUBSET (1 .. N)
      BY <2>2, MirrorIs
    <3>2. g[u] = e[v] /\ g[u \ {Min(u)}] = e[v \ {Max(v)}]
      BY <1>4, <3>1
    <3>. HIDE DEF v
    <3>3. e[v] = F[Max(v)][e[v \ {Max(v)}]]
      BY <1>3, <3>1 DEF LeftFold
    <3>4. F[Max(v)] = f[Min(u)]
      BY <1>1, <3>1
    <3>. QED  BY <2>2, <3>2, <3>3, <3>4
  <2>. QED  BY <2>1, <2>2
<1>. QED  BY <1>5, <1>6 DEF RightFold

\* A fold from the right goes through the places from N down.
RunsBack(h, f, x, N) == h[0] = x /\ \A n \in Nat : n < N => h[n + 1] = f[N - n][h[n]]
ResultBack(r, f, x, V, N) == \E h \in [0 .. N -> V] : RunsBack(h, f, x, N) /\ r = h[N]

\* It is the run that goes from the last element to the first.
LEMMA RightFoldRuns ==
  ASSUME NEW N \in Nat, NEW V, NEW x \in V, NEW f, \A k \in 1 .. N, v \in V : f[k][v] \in V,
         NEW g, g[{}] = x,
         \A u \in SUBSET (1 .. N) : u # {} /\ g[u \ {Min(u)}] \in V => g[u] = f[Min(u)][g[u \ {Min(u)}]]
  PROVE  ResultBack(g[1 .. N], f, x, V, N)
<1>. DEFINE F == [k \in 1 .. N |-> f[N + 1 - k]]
            e == [u \in SUBSET (1 .. N) |-> g[Mirror(u, N)]]
<1>1. \A k \in 1 .. N : N + 1 - k \in 1 .. N /\ F[k] = f[N + 1 - k] /\ N + 1 - (N + 1 - k) = k
  OBVIOUS
<1>2. \A u \in SUBSET (1 .. N) : e[u] = g[Mirror(u, N)] /\ Mirror(u, N) \in SUBSET (1 .. N)
  BY MirrorIs
<1>. HIDE DEF F, e
<1>3. \A k \in 1 .. N, v \in V : F[k][v] \in V
  BY <1>1
<1>4. e[{}] = x
  <2>1. {} \in SUBSET (1 .. N) /\ Mirror({}, N) = {}
    BY DEF Mirror
  <2>. QED  BY <1>2, <2>1
<1>5. ASSUME NEW u \in SUBSET (1 .. N), u # {}, e[u \ {Max(u)}] \in V PROVE e[u] = F[Max(u)][e[u \ {Max(u)}]]
  <2>. DEFINE v == Mirror(u, N)
  <2>0. v \in SUBSET (1 .. N) /\ Mirror(v, N) = u /\ v # {}
    <3>1. Mirror({}, N) = {}
      BY DEF Mirror
    <3>. QED  BY <1>5, <3>1, MirrorIs
  <2>. HIDE DEF v
  <2>1. /\ Min(v) \in 1 .. N /\ Max(u) = N + 1 - Min(v) /\ v \ {Min(v)} \in SUBSET (1 .. N)
        /\ u \ {Max(u)} = Mirror(v \ {Min(v)}, N)
    BY <2>0, MirrorIs
  <2>2. e[u] = g[v]
    BY <1>2 DEF v
  <2>4. e[u \ {Max(u)}] = g[v \ {Min(v)}]
    <3>1. u \ {Max(u)} \in SUBSET (1 .. N) /\ Mirror(u \ {Max(u)}, N) = v \ {Min(v)}
      BY <2>1, MirrorIs
    <3>. QED  BY <1>2, <3>1
  <2>3. g[v] = f[Min(v)][g[v \ {Min(v)}]]
    BY <1>5, <2>0, <2>4
  <2>5. F[Max(u)] = f[Min(v)]
    BY <1>1, <2>1
  <2>. QED  BY <2>2, <2>3, <2>4, <2>5
<1>6. ResultOf(e[1 .. N], F, x, V, N)
  BY <1>3, <1>4, <1>5, LeftFoldRuns
<1>7. PICK h \in [0 .. N -> V] : Runs(h, F, x, N) /\ e[1 .. N] = h[N]
  BY <1>6 DEF ResultOf
<1>8. e[1 .. N] = g[1 .. N]
  <2>1. Mirror(1 .. N, N) = 1 .. N
    <3>1. ASSUME NEW k \in 1 .. N PROVE k \in Mirror(1 .. N, N)
      BY <1>1 DEF Mirror
    <3>2. ASSUME NEW k \in Mirror(1 .. N, N) PROVE k \in 1 .. N
      BY DEF Mirror
    <3>. QED  BY <3>1, <3>2
  <2>. QED  BY <1>2, <2>1
<1>9. ASSUME NEW n \in Nat, n < N PROVE h[n + 1] = f[N - n][h[n]]
  <2>1. n + 1 \in 1 .. N /\ N + 1 - (n + 1) = N - n
    BY <1>9
  <2>2. F[n + 1] = f[N - n]
    BY <1>1, <2>1
  <2>. QED  BY <1>7, <1>9, <2>2 DEF Runs
<1>. QED  BY <1>7, <1>8, <1>9 DEF Runs, RunsBack, ResultBack

-----------------------------------------------------------------------------
(***************************************************************************)
(* strToInt.                                                               *)
(***************************************************************************)
IntState == [number : Int, mult : Int, stop : BOOLEAN]
IntStart == [number |-> 0, mult |-> 1, stop |-> FALSE]
IntStep(c, s) ==
  IF s.stop THEN s
  ELSE IF c \in Decimal THEN [s EXCEPT !.number = @ + DigitValue(c) * s.mult, !.mult = @ * 10]
  ELSE IF s.number = 0 THEN s
  ELSE [s EXCEPT !.number = IF c = "-" THEN -@ ELSE @, !.stop = TRUE]

\* A step of strToInt keeps the type of what it keeps.
LEMMA IntStepType ==
  ASSUME NEW c, NEW s \in IntState
  PROVE  IntStep(c, s) \in IntState
<1>1. s.number \in Int /\ s.mult \in Int /\ s.stop \in BOOLEAN
  BY DEF IntState
<1>2. c \in Decimal => s.number + DigitValue(c) * s.mult \in Int /\ s.mult * 10 \in Int
  <2>1. c \in Decimal => DigitValue(c) \in 0 .. 9
    BY DigitsAre
  <2>2. \A a, m \in Int, d \in 0 .. 9 : a + d * m \in Int /\ m * 10 \in Int
    OBVIOUS
  <2>. QED  BY <1>1, <2>1, <2>2
<1>3. -s.number \in Int
  BY <1>1
<1>4. c \in Decimal => [s EXCEPT !.number = @ + DigitValue(c) * s.mult, !.mult = @ * 10] \in IntState
  BY <1>2 DEF IntState
<1>5. [s EXCEPT !.number = IF c = "-" THEN -@ ELSE @, !.stop = TRUE] \in IntState
  BY <1>1, <1>3 DEF IntState
<1>. QED  BY <1>4, <1>5 DEF IntStep

\* The states it goes through, from the right.
IntRun(h, str, N) == /\ h[0] = IntStart /\ strToInt(str) = h[N].number
                     /\ \A n \in Nat : n < N => h[n + 1] = IntStep(str[N - n], h[n])

\* strToInt is the run of its steps from the last character to the first.
LEMMA IntRuns ==
  ASSUME NEW N \in Nat, NEW str, DOMAIN str = 1 .. N
  PROVE  \E h \in [0 .. N -> IntState] : IntRun(h, str, N)
<1>. DEFINE Folded(e) == e = [u \in SUBSET DOMAIN str |->
                               IF u = {} THEN IntStart ELSE IntStep(str[Min(u)], e[u \ {Min(u)}])]
            g == CHOOSE e : Folded(e)
            f == [k \in 1 .. N |-> [v \in IntState |-> IntStep(str[k], v)]]
<1>1. strToInt(str) = g[DOMAIN str].number
  <2>1. FoldRight(LAMBDA c, s : IntStep(c, s), str, IntStart) = g[DOMAIN str]
    BY Zenon DEF FoldRight, MapThenFoldSet
  <2>2. strToInt(str) = FoldRight(LAMBDA c, s : IntStep(c, s), str, IntStart).number
    BY Zenon DEF strToInt, IntStep, IntStart
  <2>. HIDE DEF g
  <2>. QED  BY <2>1, <2>2, Zenon
<1>2. \A k \in 1 .. N, v \in IntState : f[k][v] = IntStep(str[k], v) /\ f[k][v] \in IntState
  BY IntStepType
<1>3. IntStart \in IntState
  BY DEF IntStart, IntState
<1>. HIDE DEF f
<1>4. PICK e \in [SUBSET (1 .. N) -> IntState] : RightFold(e, f, IntStart, N)
  BY <1>2, <1>3, RightFoldExists
<1>5. \A u \in SUBSET (1 .. N) : u # {} => Min(u) \in 1 .. N /\ u \ {Min(u)} \in SUBSET (1 .. N)
  BY MirrorIs
<1>6. Folded(e)
  <2>1. ASSUME NEW u \in SUBSET (1 .. N)
        PROVE  e[u] = IF u = {} THEN IntStart ELSE IntStep(str[Min(u)], e[u \ {Min(u)}])
    <3>1. e[u] = IF u = {} THEN IntStart ELSE f[Min(u)][e[u \ {Min(u)}]]
      BY <1>4 DEF RightFold
    <3>2. u # {} => e[u \ {Min(u)}] \in IntState
      BY <1>5
    <3>. QED  BY <1>2, <1>5, <3>1, <3>2
  <2>2. e = [u \in SUBSET (1 .. N) |-> IF u = {} THEN IntStart ELSE IntStep(str[Min(u)], e[u \ {Min(u)}])]
    BY <2>1
  <2>. QED  BY <2>2
<1>7. Folded(g)
  <2>. HIDE DEF Folded
  <2>. QED  BY <1>6
<1>. HIDE DEF g
<1>8. g = [u \in SUBSET (1 .. N) |-> IF u = {} THEN IntStart ELSE IntStep(str[Min(u)], g[u \ {Min(u)}])]
  BY <1>7
<1>9. g[{}] = IntStart
  <2>1. {} \in SUBSET (1 .. N)
    OBVIOUS
  <2>. QED  BY <1>8, <2>1, Zenon
<1>10. ASSUME NEW u \in SUBSET (1 .. N), u # {}, g[u \ {Min(u)}] \in IntState
       PROVE  g[u] = f[Min(u)][g[u \ {Min(u)}]]
  <2>1. g[u] = IntStep(str[Min(u)], g[u \ {Min(u)}])
    BY <1>8, <1>10, Zenon
  <2>. QED  BY <1>2, <1>5, <1>10, <2>1
<1>. HIDE DEF Folded
<1>11. PICK h \in [0 .. N -> IntState] : RunsBack(h, f, IntStart, N) /\ g[1 .. N] = h[N]
  <2>1. ResultBack(g[1 .. N], f, IntStart, IntState, N)
    BY <1>2, <1>3, <1>9, <1>10, RightFoldRuns
  <2>. QED  BY <2>1 DEF ResultBack
<1>12. ASSUME NEW n \in Nat, n < N PROVE h[n + 1] = IntStep(str[N - n], h[n])
  <2>1. N - n \in 1 .. N /\ n \in 0 .. N
    BY <1>12
  <2>2. h[n] \in IntState /\ h[n + 1] = f[N - n][h[n]]
    BY <1>11, <1>12, <2>1 DEF RunsBack
  <2>. QED  BY <1>2, <2>1, <2>2
<1>. QED  BY <1>1, <1>11, <1>12 DEF IntRun, RunsBack

\* strToInt reads decimals, with or without a sign in front.
LEMMA IntRead ==
  ASSUME NEW s \in Seq(Decimal), NEW o \in 0 .. 1, NEW str, DOMAIN str = 1 .. Len(s) + o,
         \A k \in 1 .. Len(s) : str[k + o] = s[k], o = 1 => str[1] = "-"
  PROVE  /\ Extended(0, s, 10) \in Int
         /\ strToInt(str) = IF o = 1 THEN -Extended(0, s, 10) ELSE Extended(0, s, 10)
<1>. DEFINE L == Len(s)
            N == L + o
            E == Extended(0, s, 10)
<1>1. L \in Nat /\ N \in Nat /\ N >= L /\ s \in Seq(Hex) /\ \A k \in 1 .. L : s[k] \in Decimal
  <2>1. \A c \in Decimal : c \in Hex
    BY DigitsAre
  <2>. QED  BY <2>1
<1>2. PICK p \in [0 .. L -> Int] :
        /\ p[0] = 0 /\ E = p[L]
        /\ \A n \in Nat : n < L => p[n + 1] = p[n] * 10 + DigitValue(s[n + 1])
  <2>1. 0 \in Int /\ 10 \in Nat
    OBVIOUS
  <2>. QED  BY <1>1, <2>1, ExtendedIs, Zenon
<1>3. PICK h \in [0 .. N -> IntState] : IntRun(h, str, N)
  BY <1>1, IntRuns
<1>3a. /\ h[0] = IntStart /\ strToInt(str) = h[N].number
       /\ \A n \in Nat : n < N => h[n + 1] = IntStep(str[N - n], h[n])
  BY <1>3 DEF IntRun
<1>4. E \in Int
  BY <1>1, <1>2
<1>. HIDE DEF E, N
<1>. DEFINE Holds(n) == h[n].stop = FALSE /\ E = p[L - n] * h[n].mult + h[n].number
            T == {n \in Nat : n <= L => Holds(n)}
<1>5. 0 \in T
  <2>1. L - 0 = L /\ p[L] \in Int
    BY <1>1
  <2>2. h[0].stop = FALSE /\ h[0].mult = 1 /\ h[0].number = 0
    BY <1>3a DEF IntStart
  <2>. HIDE DEF L
  <2>3. \A a \in Int : a = a * 1 + 0
    OBVIOUS
  <2>. QED  BY <1>2, <2>1, <2>2, <2>3
<1>6. ASSUME NEW n \in Nat, n \in T PROVE n + 1 \in T
  <2>. HIDE DEF Holds
  <2>. SUFFICES ASSUME n + 1 <= L PROVE Holds(n + 1)
    OBVIOUS
  <2>. DEFINE c == s[L - n]
  <2>1. /\ n < N /\ n <= L /\ n \in 0 .. N /\ L - n \in 1 .. L /\ N - n = (L - n) + o
        /\ L - (n + 1) \in Nat /\ (L - (n + 1)) + 1 = L - n /\ L - (n + 1) < L /\ L - (n + 1) \in 0 .. L
    BY <1>1 DEF N
  <2>2. Holds(n)
    BY <1>6, <2>1
  <2>3. str[N - n] = c /\ c \in Decimal
    BY <1>1, <2>1
  <2>4. DigitValue(c) \in 0 .. 9
    BY <2>3, DigitsAre
  <2>5. h[n] \in IntState /\ h[n + 1] = IntStep(c, h[n])
    BY <1>3a, <2>1, <2>3
  <2>6. p[L - n] = p[L - (n + 1)] * 10 + DigitValue(c) /\ p[L - (n + 1)] \in Int
    BY <1>2, <2>1
  <2>. HIDE DEF c, L
  <2>7. PICK a, m, r \in Int : a = h[n].number /\ m = h[n].mult /\ r = p[L - (n + 1)]
    BY <2>5, <2>6 DEF IntState
  <2>8. PICK d \in 0 .. 9 : d = DigitValue(c)
    BY <2>4
  <2>9. h[n + 1].stop = FALSE /\ h[n + 1].number = a + d * m /\ h[n + 1].mult = m * 10
    BY <2>2, <2>3, <2>5, <2>7, <2>8 DEF IntStep, IntState, Holds
  <2>10. (r * 10 + d) * m + a = r * (m * 10) + (a + d * m)
    OBVIOUS
  <2>. QED  BY <2>2, <2>6, <2>7, <2>8, <2>9, <2>10 DEF Holds
<1>7. \A n \in Nat : n \in T
  <2>. HIDE DEF T
  <2>. QED  BY <1>5, <1>6, NatSetInduction
<1>8. h[L].stop = FALSE /\ E = h[L].number /\ h[L] \in IntState
  <2>1. L <= L /\ L - L = 0 /\ L \in 0 .. N
    BY <1>1
  <2>2. Holds(L)
    BY <1>1, <1>7, <2>1
  <2>3. h[L].mult \in Int /\ h[L].number \in Int /\ h[L] \in IntState
    BY <2>1 DEF IntState
  <2>4. \A a, m \in Int : 0 * m + a = a
    OBVIOUS
  <2>. HIDE DEF L
  <2>. QED  BY <1>2, <2>1, <2>2, <2>3, <2>4
<1>. HIDE DEF T, Holds
<1>9. CASE o = 0
  <2>1. N = L
    BY <1>1, <1>9 DEF N
  <2>. QED  BY <1>3a, <1>4, <1>8, <1>9, <2>1 DEF E
<1>10. CASE o = 1
  <2>1. N = L + 1 /\ L < N /\ N - L = 1
    BY <1>1, <1>10 DEF N
  <2>2. h[L + 1] = IntStep("-", h[L])
    BY <1>1, <1>3a, <1>10, <2>1
  <2>3. h[L + 1].number = -E
    <3>1. CASE h[L].number = 0
      <4>1. h[L + 1] = h[L]
        BY <1>8, <2>2, <3>1, DigitsAre DEF IntStep
      <4>2. -0 = 0
        OBVIOUS
      <4>. QED  BY <1>8, <3>1, <4>1, <4>2
    <3>2. CASE h[L].number # 0
      BY <1>8, <2>2, <3>2, DigitsAre DEF IntStep, IntState
    <3>. QED  BY <3>1, <3>2
  <2>. QED  BY <1>3a, <1>4, <1>10, <2>1, <2>3 DEF E
<1>. QED  BY <1>9, <1>10

-----------------------------------------------------------------------------
(***************************************************************************)
(* Signs, points and padding.                                              *)
(***************************************************************************)
\* str is the digits of s, after a '-' if o is 1.
Signed(str, s, o) == str = IF o = 1 THEN <<"-">> \o s ELSE s

\* What it is made of.
LEMMA SignedIs ==
  ASSUME NEW s \in Seq(Decimal), NEW o \in 0 .. 1, NEW str, Signed(str, s, o)
  PROVE  /\ s \in Seq(Hex) /\ Len(s) \in Nat /\ \A k \in 1 .. Len(s) : s[k] \in Decimal
         /\ Len(str) = Len(s) + o /\ DOMAIN str = 1 .. Len(s) + o
         /\ \A k \in 1 .. Len(s) : str[k + o] = s[k]
         /\ o = 1 => str[1] = "-" /\ Tail(str) = s /\ str # <<>>
         /\ o = 0 => str = s /\ (str # <<>> => str[1] # "-")
<1>1. s \in Seq(Hex) /\ Len(s) \in Nat /\ \A k \in 1 .. Len(s) : s[k] \in Decimal
  <2>1. \A c \in Decimal : c \in Hex
    BY DigitsAre
  <2>. QED  BY <2>1
<1>2. CASE o = 0
  <2>1. str = s
    BY <1>2 DEF Signed
  <2>2. str # <<>> => 1 \in 1 .. Len(s)
    BY <2>1
  <2>3. str # <<>> => str[1] # "-"
    BY <1>1, <2>1, <2>2, DigitsAre
  <2>. QED  BY <1>1, <1>2, <2>1, <2>3
<1>3. CASE o = 1
  <2>. DEFINE C == Decimal \cup {"-"}
              t == <<"-">> \o s
  <2>1. s \in Seq(C) /\ "-" \in C
    OBVIOUS
  <2>. HIDE DEF C
  <2>2. t \in Seq(C) /\ Len(t) = Len(s) + 1 /\ t[1] = "-" /\ \A k \in 1 .. Len(s) : t[k + 1] = s[k]
    BY <2>1
  <2>3. str = t
    BY <1>3 DEF Signed
  <2>. HIDE DEF t
  <2>4. t # <<>> /\ DOMAIN t = 1 .. Len(s) + 1
    BY <1>1, <2>2
  <2>5. Tail(t) = s
    <3>1. Tail(t) \in Seq(C) /\ Len(Tail(t)) = Len(s) /\ \A k \in 1 .. Len(s) : Tail(t)[k] = t[k + 1]
      BY <1>1, <2>2, <2>4
    <3>. QED  BY <2>1, <2>2, <3>1
  <2>. QED  BY <1>1, <1>3, <2>2, <2>3, <2>4, <2>5
<1>. QED  BY <1>2, <1>3

\* isNum takes it for a number, and strToDouble and strToInt read it alike.
LEMMA SignedRead ==
  ASSUME NEW s \in Seq(Decimal), NEW o \in 0 .. 1, NEW str, Signed(str, s, o)
  PROVE  LET E == Extended(0, s, 10)
             v == IF o = 1 THEN -E ELSE E
         IN /\ E \in Int /\ strToInt(str) = v /\ strToDouble(str) = [num |-> v, places |-> 0]
            /\ s # <<>> => isNum(str)
<1>. DEFINE E == Extended(0, s, 10)
            v == IF o = 1 THEN -E ELSE E
            points == {i \in DOMAIN s : s[i] = "."}
            sign == IF str # <<>> /\ str[1] = "-" THEN -1 ELSE 1
<1>1. /\ s \in Seq(Hex) /\ Len(s) \in Nat /\ DOMAIN s = 1 .. Len(s) /\ \A k \in 1 .. Len(s) : s[k] \in Decimal
      /\ Len(str) = Len(s) + o /\ DOMAIN str = 1 .. Len(s) + o
      /\ \A k \in 1 .. Len(s) : str[k + o] = s[k]
      /\ o = 1 => str[1] = "-" /\ Tail(str) = s /\ str # <<>>
      /\ o = 0 => str = s /\ (str # <<>> => str[1] # "-")
  BY SignedIs
<1>2. E \in Int /\ strToInt(str) = v
  BY <1>1, IntRead
<1>3. points = {}
  BY <1>1, DigitsAre
<1>4. strToInt(s) = E
  <2>1. DOMAIN s = 1 .. Len(s) + 0 /\ (\A k \in 1 .. Len(s) : s[k + 0] = s[k]) /\ 0 \in 0 .. 1
    BY <1>1
  <2>. QED  BY <2>1, IntRead
<1>5. strToDouble(str) = [num |-> v, places |-> 0]
  <2>1. (IF str # <<>> /\ str[1] = "-" THEN Tail(str) ELSE str) = s /\ sign = IF o = 1 THEN -1 ELSE 1
    BY <1>1
  <2>2. (IF sign = -1 THEN Tail(str) ELSE str) = s
    BY <1>1, <2>1
  <2>3. SubSeq(s, 1, Len(s)) = s
    BY <1>1
  <2>4. SubSeq(s, Len(s) + 2, Len(s)) = <<>> /\ Len(<<>>) = 0
    BY <1>1
  <2>5. Extended(E, <<>>, 10) = E
    <3>1. 10 \in Nat
      OBVIOUS
    <3>. QED  BY <1>2, <3>1, ExtendedEmpty
  <2>6. sign * E = v
    <3>. HIDE DEF E
    <3>1. (-1) * E = -E /\ 1 * E = E
      BY <1>2
    <3>2. CASE o = 1
      BY <2>1, <3>1, <3>2
    <3>3. CASE o = 0
      BY <2>1, <3>1, <3>3
    <3>. HIDE DEF sign, v
    <3>. QED  BY <3>2, <3>3
  <2>. HIDE DEF E, v, sign, points
  <2>7. strToDouble(str) = [num |-> sign * Extended(strToInt(SubSeq(s, 1, Len(s))), SubSeq(s, Len(s) + 2, Len(s)), 10),
                            places |-> Len(SubSeq(s, Len(s) + 2, Len(s)))]
    BY <1>3, <2>2, Zenon DEF strToDouble, sign, points
  <2>. QED  BY <1>4, <2>3, <2>4, <2>5, <2>6, <2>7
<1>6. ASSUME s # <<>> PROVE isNum(str)
  <2>1. (IF str # <<>> /\ str[1] = "-" THEN Tail(str) ELSE str) = s
    BY <1>1
  <2>2. 1 \in 1 .. Len(s) /\ s[1] \in Decimal
    BY <1>1, <1>6
  <2>3. \A i \in DOMAIN s : s[i] \in Decimal \cup {"."}
    BY <1>1
  <2>4. \A i, j \in points : i = j
    BY <1>3
  <2>. DEFINE u == IF str # <<>> /\ str[1] = "-" THEN Tail(str) ELSE str
  <2>5. isNum(str) <=> /\ u # <<>> /\ u[1] \in Decimal
                       /\ \A i \in DOMAIN u : u[i] \in Decimal \cup {"."}
                       /\ \A i, j \in {i \in DOMAIN u : u[i] = "."} : i = j
    BY Zenon DEF isNum
  <2>6. u = s
    BY <2>1, Zenon
  <2>7. {i \in DOMAIN u : u[i] = "."} = points
    BY <2>6, Zenon
  <2>. HIDE DEF u
  <2>. HIDE DEF points
  <2>. QED  BY <1>6, <2>2, <2>3, <2>4, <2>5, <2>6, <2>7
<1>. QED  BY <1>2, <1>5, <1>6

\* And whatever isNum takes for a number, without a point, is such digits.
LEMMA NumberIsSigned ==
  ASSUME NEW C, NEW str \in Seq(C), isNum(str), "." \notin Range(str)
  PROVE  \E s \in Seq(Decimal), o \in 0 .. 1 : Signed(str, s, o)
<1>. DEFINE u == IF str # <<>> /\ str[1] = "-" THEN Tail(str) ELSE str
<1>1. u # <<>> /\ \A i \in DOMAIN u : u[i] \in Decimal \cup {"."}
  BY Zenon DEF isNum
<1>2. u \in Seq(C) /\ \A i \in DOMAIN u : \E j \in DOMAIN str : u[i] = str[j]
  <2>1. CASE str # <<>> /\ str[1] = "-"
    <3>1. u = Tail(str)
      BY <2>1
    <3>. HIDE DEF u
    <3>2. Tail(str) \in Seq(C) /\ DOMAIN Tail(str) = 1 .. Len(str) - 1 /\ Len(str) \in Nat
          /\ \A i \in 1 .. Len(str) - 1 : Tail(str)[i] = str[i + 1] /\ i + 1 \in DOMAIN str
      BY <2>1
    <3>. QED  BY <3>1, <3>2
  <2>2. CASE ~ (str # <<>> /\ str[1] = "-")
    BY <2>2
  <2>. QED  BY <2>1, <2>2
<1>. HIDE DEF u
<1>3. \A i \in DOMAIN u : u[i] \in Decimal
  BY <1>1, <1>2 DEF Range
<1>4. u \in Seq(Decimal)
  <2>1. Len(u) \in Nat /\ DOMAIN u = 1 .. Len(u) /\ u = [i \in 1 .. Len(u) |-> u[i]]
    BY <1>2
  <2>. QED  BY <1>3, <2>1
<1>5. CASE str # <<>> /\ str[1] = "-"
  <2>1. u = Tail(str)
    BY <1>5 DEF u
  <2>2. str = <<"-">> \o u
    <3>0. "-" \in C
      BY <1>5
    <3>1. Len(u) + 1 = Len(str) /\ Len(u) \in Nat /\ \A i \in 1 .. Len(u) : u[i] = str[i + 1]
      BY <1>5, <2>1
    <3>. DEFINE t == <<"-">> \o u
    <3>2. t \in Seq(C) /\ Len(t) = Len(u) + 1 /\ t[1] = "-" /\ \A k \in 2 .. Len(u) + 1 : t[k] = u[k - 1]
      BY <1>2, <3>0
    <3>. HIDE DEF t
    <3>3. ASSUME NEW k \in 1 .. Len(str) PROVE t[k] = str[k]
      <4>1. CASE k = 1
        BY <1>5, <3>2, <4>1
      <4>2. CASE k # 1
        <5>1. k \in 2 .. Len(u) + 1 /\ k - 1 \in 1 .. Len(u) /\ (k - 1) + 1 = k
          BY <3>1, <4>2
        <5>. QED  BY <3>1, <3>2, <5>1
      <4>. QED  BY <4>1, <4>2
    <3>4. str = t
      BY <3>1, <3>2, <3>3
    <3>. QED  BY <3>4 DEF t
  <2>3. Signed(str, u, 1) /\ 1 \in 0 .. 1
    BY <2>2 DEF Signed
  <2>. QED  BY <1>4, <2>3
<1>6. CASE ~ (str # <<>> /\ str[1] = "-")
  <2>1. Signed(str, u, 0) /\ 0 \in 0 .. 1
    BY <1>6 DEF u, Signed
  <2>. QED  BY <1>4, <2>1
<1>. QED  BY <1>5, <1>6

\* Zeros in front make eight characters of it.
LEMMA Padded ==
  ASSUME NEW value \in Nat, NEW b \in 2 .. 16
  PROVE  LET padded == uintToBaseWL(value, b, 8) IN
         /\ Extended(0, padded, b) = value /\ Len(padded) >= 8
         /\ Len(padded) > 8 => padded = uintToBase(value, b)
<1>. DEFINE low == Remainders(value, b)
            k == 8 - Len(low)
<1>1. low \in Seq(Hex) /\ Reverse(low) \in Seq(Hex) /\ Extended(0, Reverse(low), b) = value
  BY Written
<1>2. Len(low) \in Nat /\ Len(Reverse(low)) = Len(low) /\ k \in Int
  BY <1>1, ReverseIs
<1>3. uintToBaseWL(value, b, 8) = Reverse(low \o Zeros(k)) /\ uintToBase(value, b) = Reverse(low)
  BY DEF uintToBaseWL, uintToBase
<1>4. b \in Nat
  OBVIOUS
<1>. HIDE DEF low
<1>5. /\ Zeros(k) \in Seq(Hex) /\ Len(Zeros(k)) = IF k <= 0 THEN 0 ELSE k
      /\ Extended(0, Zeros(k) \o Reverse(low), b) = value
  BY <1>1, <1>2, <1>4, ExtendedZeros
<1>6. Reverse(Zeros(k)) = Zeros(k)
  <2>1. CASE k <= 0
    <3>1. Zeros(k) = <<>>
      BY <2>1 DEF Zeros
    <3>. QED  BY <3>1 DEF Reverse
  <2>2. CASE ~ (k <= 0)
    <3>1. k \in Nat /\ Zeros(k) = [i \in 1 .. k |-> "0"]
      BY <1>2, <2>2 DEF Zeros
    <3>. HIDE DEF k
    <3>2. Reverse(Zeros(k)) = [i \in 1 .. k |-> Zeros(k)[(k - i) + 1]]
      BY <1>5, <2>2 DEF Reverse
    <3>3. \A i \in 1 .. k : (k - i) + 1 \in 1 .. k
      BY <3>1
    <3>4. \A i \in 1 .. k : Zeros(k)[(k - i) + 1] = "0"
      BY <3>1, <3>3, Zenon
    <3>. QED  BY <3>1, <3>2, <3>4
  <2>. QED  BY <2>1, <2>2
<1>7. Reverse(low \o Zeros(k)) = Zeros(k) \o Reverse(low)
  BY <1>1, <1>5, <1>6, ReverseIs
<1>. DEFINE padded == uintToBaseWL(value, b, 8)
<1>8. PICK z \in Seq(Hex) : z = Zeros(k)
  BY <1>5
<1>9. PICK w \in Seq(Hex) : w = Reverse(low)
  BY <1>1
<1>10. padded = z \o w
  BY <1>3, <1>7, <1>8, <1>9
<1>. HIDE DEF padded
<1>11. Len(padded) = Len(z) + Len(w)
  BY <1>10
<1>12. Len(padded) = (IF k <= 0 THEN 0 ELSE k) + Len(low)
  BY <1>2, <1>5, <1>8, <1>9, <1>11
<1>13. Len(padded) >= 8 /\ (Len(padded) > 8 => k <= 0)
  BY <1>2, <1>12
<1>14. k <= 0 => z = <<>>
  BY <1>8 DEF Zeros
<1>15. k <= 0 => padded = w
  <2>1. <<>> \o w = w
    OBVIOUS
  <2>. QED  BY <1>10, <1>14, <2>1
<1>. QED  BY <1>3, <1>5, <1>8, <1>9, <1>10, <1>13, <1>15 DEF padded

\* One digit more than those of the quotient.
LEMMA OneMore ==
  ASSUME NEW value \in Nat, NEW b \in 2 .. 16
  PROVE  \E f : /\ f[value] = Remainders(value, b)
                /\ \A v \in 0 .. value : /\ Len(f[v]) \in Nat /\ Len(f[v]) >= 1
                                         /\ v < b => Len(f[v]) = 1
                                         /\ v >= b => v \div b \in 0 .. value /\ Len(f[v]) = Len(f[v \div b]) + 1
<1>. DEFINE D == 0 .. value
<1>1. PICK f \in [D -> Seq(Hex)] : IsRemainders(f, value, b) /\ Remainders(value, b) = f[value]
  BY RemaindersAre
<1>2. f = [v \in D |-> <<Digit[(v % b) + 1]>> \o (IF v < b THEN <<>> ELSE f[v \div b])]
  BY <1>1 DEF IsRemainders
<1>3. ASSUME NEW v \in D
      PROVE  /\ Len(f[v]) \in Nat /\ Len(f[v]) >= 1
             /\ v < b => Len(f[v]) = 1
             /\ v >= b => v \div b \in D /\ Len(f[v]) = Len(f[v \div b]) + 1
  <2>1. f[v] = <<Digit[(v % b) + 1]>> \o (IF v < b THEN <<>> ELSE f[v \div b])
    BY <1>2, Zenon
  <2>2. v \in Nat /\ v <= value /\ (v % b) \in 0 .. 15 /\ v \div b \in Nat /\ v \div b <= v
    <3>1. v \in Nat /\ v <= value
      OBVIOUS
    <3>. QED  BY <3>1, Divided
  <2>3. PICK d \in Hex : d = Digit[(v % b) + 1]
    BY <2>2, DigitsAre
  <2>4. CASE v < b
    <3>1. f[v] = <<d>> \o <<>>
      BY <2>1, <2>3, <2>4
    <3>2. ~ (v >= b)
      BY <2>2, <2>4
    <3>. QED  BY <2>4, <3>1, <3>2
  <2>5. CASE v >= b
    <3>1. v \div b \in D
      BY <2>2
    <3>2. PICK s \in Seq(Hex) : s = f[v \div b]
      BY <3>1
    <3>3. f[v] = <<d>> \o s
      BY <2>1, <2>2, <2>3, <2>5, <3>2
    <3>4. Len(<<d>> \o s) = Len(s) + 1 /\ Len(s) \in Nat
      OBVIOUS
    <3>. QED  BY <2>2, <2>5, <3>1, <3>2, <3>3, <3>4
  <2>. QED  BY <2>2, <2>4, <2>5
<1>. HIDE DEF D
<1>4. \A v \in D : /\ Len(f[v]) \in Nat /\ Len(f[v]) >= 1
                   /\ v < b => Len(f[v]) = 1
                   /\ v >= b => v \div b \in D /\ Len(f[v]) = Len(f[v \div b]) + 1
  BY <1>3
<1>. QED  BY <1>1, <1>4 DEF D

\* A number of a thousand or more has three digits or more.
LEMMA ManyDigits ==
  ASSUME NEW value \in Nat
  PROVE  value >= 1000 => Len(Remainders(value, 10)) >= 3
<1>0. PICK b \in 2 .. 16 : b = 10
  OBVIOUS
<1>. DEFINE D == 0 .. value
            w == value \div 10
            u == w \div 10
<1>1. PICK f : /\ f[value] = Remainders(value, b)
               /\ \A v \in D : /\ Len(f[v]) \in Nat /\ Len(f[v]) >= 1
                               /\ v < b => Len(f[v]) = 1
                               /\ v >= b => v \div b \in D /\ Len(f[v]) = Len(f[v \div b]) + 1
  BY OneMore
<1>2. value >= 1000 => value >= 10 /\ w >= 10 /\ w \in Nat
  OBVIOUS
<1>3. value \in D
  OBVIOUS
<1>. HIDE DEF D, w, u
<1>4. value >= 10 => w \in D /\ Len(f[value]) = Len(f[w]) + 1
  BY <1>0, <1>1, <1>3 DEF w
<1>5. value >= 10 /\ w >= 10 => u \in D /\ Len(f[w]) = Len(f[u]) + 1
  BY <1>0, <1>1, <1>4 DEF u
<1>6. value >= 10 /\ w >= 10 => Len(f[u]) \in Nat /\ Len(f[u]) >= 1 /\ Len(f[value]) = (Len(f[u]) + 1) + 1
  BY <1>1, <1>4, <1>5
<1>7. \A x, y \in Int : x >= 1 /\ y = (x + 1) + 1 => y >= 3
  OBVIOUS
<1>8. value >= 10 => Len(f[value]) \in Nat
  BY <1>1, <1>3
<1>9. value >= 10 /\ w >= 10 => Len(f[value]) >= 3
  BY <1>6, <1>7, <1>8
<1>. QED  BY <1>0, <1>1, <1>2, <1>9

\* Halvings: one less than there are binary digits.
IsHalvings(a, n) == a = [v \in 0 .. n |-> IF v = 0 THEN -1 ELSE 1 + a[v \div 2]]

\* The recursion of log2 has a solution.
LEMMA HalvingsExist ==
  ASSUME NEW n \in Nat
  PROVE  \E a \in [0 .. n -> Int] : IsHalvings(a, n)
<1>. DEFINE D == 0 .. n
            stop == [v \in D |-> v = 0]
            x == [v \in D |-> -1]
            op == [v \in D |-> [w \in Int |-> 1 + w]]
            next == [v \in D |-> v \div 2]
            rank == [v \in D |-> v]
<1>1. \A v \in D : v \in Nat /\ v < n + 1 /\ (v # 0 => v \div 2 \in D /\ v \div 2 < v)
  OBVIOUS
<1>2. HasRecursion(D, Int, stop, x, op, next)
  <2>1. \A v \in D : rank[v] \in Nat /\ rank[v] < n + 1
    BY <1>1
  <2>2. \A v \in D : stop[v] => x[v] \in Int
    OBVIOUS
  <2>3. ASSUME NEW v \in D, ~ stop[v]
        PROVE  next[v] \in D /\ rank[next[v]] < rank[v] /\ \A w \in Int : op[v][w] \in Int
    <3>1. v # 0
      BY <2>3
    <3>2. next[v] = v \div 2 /\ rank[v] = v /\ v \div 2 \in D /\ v \div 2 < v
      BY <1>1, <3>1
    <3>3. rank[next[v]] = v \div 2
      BY <3>2
    <3>4. \A w \in Int : op[v][w] = 1 + w /\ 1 + w \in Int
      OBVIOUS
    <3>. QED  BY <3>2, <3>3, <3>4
  <2>4. n + 1 \in Nat
    OBVIOUS
  <2>. HIDE DEF D, stop, x, op, next, rank
  <2>. QED  BY <2>1, <2>2, <2>3, <2>4, RecursionExists
<1>3. PICK a \in [D -> Int] : IsRecursion(a, D, stop, x, op, next)
  BY <1>2 DEF HasRecursion
<1>4. ASSUME NEW v \in D PROVE a[v] = IF v = 0 THEN -1 ELSE 1 + a[v \div 2]
  <2>1. a[v] = IF stop[v] THEN x[v] ELSE op[v][a[next[v]]]
    BY <1>3 DEF IsRecursion
  <2>2. v # 0 => next[v] = v \div 2 /\ a[v \div 2] \in Int
    BY <1>1
  <2>3. stop[v] <=> v = 0
    OBVIOUS
  <2>4. v = 0 => x[v] = -1
    OBVIOUS
  <2>5. \A w \in Int : op[v][w] = 1 + w
    OBVIOUS
  <2>. HIDE DEF D, stop, x, op, next
  <2>. QED  BY <2>1, <2>2, <2>3, <2>4, <2>5
<1>. QED  BY <1>4 DEF IsHalvings

\* log2 is one less than the length of the binary numeral.
LEMMA Halvings ==
  ASSUME NEW n \in Nat
  PROVE  n > 0 => Len(uintToBase(n, 2)) = Kernel!log2(n) + 1
<1>. DEFINE D == 0 .. n
            a == CHOOSE a : IsHalvings(a, n)
<1>1. Kernel!log2(n) = a[n]
  BY Zenon DEF Kernel!log2, IsHalvings
<1>2. IsHalvings(a, n)
  BY HalvingsExist
<1>. HIDE DEF a
<1>3. \A v \in D : a[v] = IF v = 0 THEN -1 ELSE 1 + a[v \div 2]
  BY <1>2 DEF IsHalvings
<1>0. PICK b \in 2 .. 16 : b = 2
  OBVIOUS
<1>4. PICK f : /\ f[n] = Remainders(n, b)
               /\ \A v \in D : /\ Len(f[v]) \in Nat /\ Len(f[v]) >= 1
                               /\ v < b => Len(f[v]) = 1
                               /\ v >= b => v \div b \in D /\ Len(f[v]) = Len(f[v \div b]) + 1
  BY OneMore
<1>. DEFINE P == {v \in D : v > 0 => a[v] \in Int /\ Len(f[v]) = a[v] + 1}
            r == [v \in D |-> v]
<1>5. ASSUME NEW v \in D, \A w \in D : r[w] < r[v] => w \in P PROVE v \in P
  <2>. SUFFICES ASSUME v > 0 PROVE a[v] \in Int /\ Len(f[v]) = a[v] + 1
    OBVIOUS
  <2>1. v \in Nat /\ v # 0 /\ v \div 2 \in D /\ v \div 2 < v /\ v \div 2 \in Nat
    OBVIOUS
  <2>2. a[v] = 1 + a[v \div 2]
    BY <1>3, <2>1
  <2>3. CASE v < 2
    <3>1. v = 1 /\ v \div 2 = 0
      BY <2>1, <2>3
    <3>2. a[v \div 2] = -1
      BY <1>3, <2>1, <3>1
    <3>3. Len(f[v]) = 1
      BY <1>0, <1>4, <2>3
    <3>. QED  BY <2>2, <3>2, <3>3
  <2>4. CASE v >= 2
    <3>1. v \div 2 > 0
      BY <2>1, <2>4
    <3>2. r[v \div 2] < r[v]
      BY <2>1
    <3>3. a[v \div 2] \in Int /\ Len(f[v \div 2]) = a[v \div 2] + 1
      BY <1>5, <2>1, <3>1, <3>2
    <3>4. Len(f[v]) = Len(f[v \div 2]) + 1
      BY <1>0, <1>4, <2>4
    <3>. HIDE DEF P, r, D
    <3>. QED  BY <2>2, <3>3, <3>4
  <2>. QED  BY <2>1, <2>3, <2>4
<1>6. \A v \in D : r[v] \in Nat
  OBVIOUS
<1>7. n \in D
  OBVIOUS
<1>. HIDE DEF P, r, D
<1>8. D \subseteq P
  BY <1>5, <1>6, RankInduction
<1>9. n > 0 => Len(f[n]) = a[n] + 1
  BY <1>7, <1>8 DEF P
<1>10. Len(uintToBase(n, 2)) = Len(Remainders(n, 2))
  <2>1. Remainders(n, b) \in Seq(Hex)
    BY Written
  <2>2. Len(Reverse(Remainders(n, b))) = Len(Remainders(n, b))
    BY <2>1, ReverseIs
  <2>. QED  BY <1>0, <2>2 DEF uintToBase
<1>. QED  BY <1>0, <1>1, <1>4, <1>9, <1>10

\* One string after another.
LEMMA JoinIs ==
  ASSUME NEW C, NEW a \in Seq(C), NEW e \in Seq(C)
  PROVE  /\ a \o e \in Seq(C) /\ Len(a) \in Nat /\ Len(e) \in Nat /\ Len(a \o e) = Len(a) + Len(e)
         /\ \A k \in 1 .. Len(a) : (a \o e)[k] = a[k]
         /\ \A k \in 1 .. Len(e) : (a \o e)[Len(a) + k] = e[k]
OBVIOUS

\* A point before the last two digits divides by 100.
LEMMA PointRead ==
  ASSUME NEW w \in Seq(Decimal), Len(w) >= 3
  PROVE  LET point == SubSeq(w, 1, Len(w) - 2) \o <<".">> \o SubSeq(w, Len(w) - 1, Len(w))
         IN isNum(point) /\ strToDouble(point) = [num |-> Extended(0, w, 10), places |-> 2]
<1>. DEFINE L == Len(w)
            C == Decimal \cup {"."}
            p == SubSeq(w, 1, L - 2)
            q == SubSeq(w, L - 1, L)
            str == p \o <<".">> \o q
            x == w[L - 1]
            y == w[L]
            points == {i \in DOMAIN str : str[i] = "."}
<1>1. L \in Nat /\ L >= 3 /\ \A k \in 1 .. L : w[k] \in Decimal
  OBVIOUS
<1>2. /\ p \in Seq(Decimal) /\ Len(p) = L - 2 /\ \A k \in 1 .. L - 2 : p[k] = w[k]
      /\ q \in Seq(Decimal) /\ Len(q) = 2 /\ q[1] = x /\ q[2] = y
      /\ x \in Decimal /\ y \in Decimal
  OBVIOUS
<1>. HIDE DEF L, p, q, x, y
<1>3. /\ str \in Seq(C) /\ Len(str) = L + 1 /\ DOMAIN str = 1 .. L + 1
      /\ \A k \in 1 .. L - 2 : str[k] = w[k]
      /\ str[L - 1] = "." /\ str[L] = x /\ str[L + 1] = y
  <2>. HIDE DEF C
  <2>0. Decimal \subseteq C /\ "." \in C
    BY DEF C
  <2>1. PICK a \in Seq(C) : a = p
    BY <1>2, <2>0
  <2>2. PICK e \in Seq(C) : e = q
    BY <1>2, <2>0
  <2>3a. <<".">> \in Seq(C)
    BY <2>0
  <2>3. PICK d \in Seq(C) : d = <<".">>
    BY <2>3a
  <2>4. Len(a) = L - 2 /\ Len(e) = 2 /\ Len(d) = 1 /\ d[1] = "."
    BY <1>2, <2>1, <2>2, <2>3
  <2>5a. a \o d \in Seq(C)
    BY JoinIs
  <2>5. PICK m \in Seq(C) : m = a \o d
    BY <2>5a
  <2>5b. /\ Len(m) = Len(a) + Len(d) /\ \A k \in 1 .. Len(a) : m[k] = a[k]
         /\ \A k \in 1 .. Len(d) : m[Len(a) + k] = d[k]
    BY <2>5, JoinIs
  <2>5c. 1 \in 1 .. 1 /\ (L - 2) + 1 = L - 1 /\ (L - 1) + 2 = L + 1 /\ (L - 1) + 1 = L /\ 1 \in 1 .. 2 /\ 2 \in 1 .. 2
    BY <1>1
  <2>6. Len(m) = L - 1 /\ m[L - 1] = "." /\ \A k \in 1 .. L - 2 : m[k] = a[k]
    BY <2>4, <2>5b, <2>5c
  <2>7. str = m \o e
    BY <2>1, <2>2, <2>3, <2>5
  <2>. HIDE DEF str
  <2>8. /\ str \in Seq(C) /\ Len(str) = L + 1
        /\ \A k \in 1 .. L - 1 : str[k] = m[k]
        /\ str[L] = e[1] /\ str[L + 1] = e[2]
    <3>1. /\ m \o e \in Seq(C) /\ Len(m \o e) = Len(m) + Len(e) /\ \A k \in 1 .. Len(m) : (m \o e)[k] = m[k]
          /\ \A k \in 1 .. Len(e) : (m \o e)[Len(m) + k] = e[k]
      BY JoinIs
    <3>. QED  BY <2>4, <2>5c, <2>6, <2>7, <3>1
  <2>9. L - 1 \in 1 .. L - 1 /\ DOMAIN str = 1 .. L + 1 /\ \A k \in 1 .. L - 2 : k \in 1 .. L - 1
    BY <1>1, <2>8
  <2>. QED  BY <1>2, <2>1, <2>2, <2>6, <2>8, <2>9
<1>. HIDE DEF str
<1>4. \A i \in DOMAIN str : /\ str[i] \in Decimal \cup {"."}
                            /\ str[i] = "." <=> i = L - 1
  <2>1. \A i \in 1 .. L + 1 : i \in 1 .. L - 2 \/ i = L - 1 \/ i = L \/ i = L + 1
    BY <1>1
  <2>2. L # L - 1 /\ L + 1 # L - 1 /\ \A i \in 1 .. L - 2 : i # L - 1 /\ i \in 1 .. L
    BY <1>1
  <2>3. \A c \in Decimal : c # "."
    BY DigitsAre
  <2>. QED  BY <1>1, <1>2, <1>3, <2>1, <2>2, <2>3
<1>5. points = {L - 1} /\ (CHOOSE i \in points : TRUE) = L - 1
  <2>1. L - 1 \in DOMAIN str
    BY <1>1, <1>3
  <2>2. points = {L - 1}
    BY <1>4, <2>1
  <2>. HIDE DEF points
  <2>. QED  BY <2>2
<1>6. str # <<>> /\ str[1] \in Decimal /\ str[1] # "-"
  <2>1. 1 \in 1 .. L - 2 /\ 1 \in 1 .. L
    BY <1>1
  <2>2. str[1] = w[1] /\ w[1] \in Decimal
    BY <1>1, <1>3, <2>1
  <2>3. "-" \notin Decimal
    BY DigitsAre
  <2>. QED  BY <1>1, <1>3, <2>2, <2>3
<1>7. isNum(str)
  <2>. DEFINE u == IF str # <<>> /\ str[1] = "-" THEN Tail(str) ELSE str
  <2>1. isNum(str) <=> /\ u # <<>> /\ u[1] \in Decimal
                       /\ \A i \in DOMAIN u : u[i] \in Decimal \cup {"."}
                       /\ \A i, j \in {i \in DOMAIN u : u[i] = "."} : i = j
    BY Zenon DEF isNum
  <2>2. u = str
    BY <1>6, Zenon
  <2>3. {i \in DOMAIN u : u[i] = "."} = points
    BY <2>2, Zenon
  <2>4. \A i, j \in points : i = j
    BY <1>5
  <2>. HIDE DEF u, points
  <2>. QED  BY <1>4, <1>6, <2>1, <2>2, <2>3, <2>4
<1>8. SubSeq(str, 1, L - 2) = p /\ SubSeq(str, L, L + 1) = q
  <2>1. /\ SubSeq(str, 1, L - 2) \in Seq(C) /\ Len(SubSeq(str, 1, L - 2)) = L - 2
        /\ \A k \in 1 .. L - 2 : SubSeq(str, 1, L - 2)[k] = str[k]
    BY <1>1, <1>3
  <2>2. /\ SubSeq(str, L, L + 1) \in Seq(C) /\ Len(SubSeq(str, L, L + 1)) = 2
        /\ SubSeq(str, L, L + 1)[1] = str[L] /\ SubSeq(str, L, L + 1)[2] = str[L + 1]
    BY <1>1, <1>3
  <2>3. SubSeq(str, 1, L - 2) = p
    BY <1>1, <1>2, <1>3, <2>1
  <2>4. SubSeq(str, L, L + 1) = q
    <3>1. \A k \in 1 .. 2 : k = 1 \/ k = 2
      OBVIOUS
    <3>2. PICK t \in Seq(C) : t = SubSeq(str, L, L + 1)
      BY <2>2
    <3>. HIDE DEF C
    <3>3. Len(t) = 2 /\ t[1] = q[1] /\ t[2] = q[2]
      BY <1>2, <1>3, <2>2, <3>2
    <3>4. \A k \in 1 .. 2 : t[k] = q[k]
      BY <3>1, <3>3
    <3>5. t = q
      BY <1>2, <3>3, <3>4
    <3>. QED  BY <3>2, <3>5
  <2>. QED  BY <2>3, <2>4
<1>9. p \in Seq(Hex) /\ x \in Hex /\ y \in Hex
  <2>1. \A c \in Decimal : c \in Hex
    BY DigitsAre
  <2>. QED  BY <1>2, <2>1
<1>10. Extended(0, p, 10) \in Int /\ strToInt(p) = Extended(0, p, 10)
  <2>1. Signed(p, p, 0) /\ 0 \in 0 .. 1
    BY DEF Signed
  <2>. QED  BY <1>2, <2>1, SignedRead
<1>11. Extended(Extended(0, p, 10), q, 10) = Extended(0, w, 10)
  <2>. DEFINE E == Extended(0, p, 10)
              e == <<>>
  <2>0. 10 \in Nat /\ 0 \in Int /\ e \in Seq(Hex) /\ E \in Int
    BY <1>10
  <2>1. q = Append(Append(e, x), y)
    BY <1>2
  <2>2. w = Append(Append(p, x), y)
    <3>0. \A a \in Seq(Decimal), c \in Decimal : Append(a, c) \in Seq(Decimal)
      OBVIOUS
    <3>0a. Append(p, x) \in Seq(Decimal)
      BY <1>2, <3>0
    <3>1. PICK a \in Seq(Decimal) : a = Append(p, x)
      BY <3>0a
    <3>2. Len(a) = L - 1 /\ a[L - 1] = x /\ \A k \in 1 .. L - 2 : a[k] = w[k]
      BY <1>1, <1>2, <3>1
    <3>3a. Append(a, y) \in Seq(Decimal)
      BY <1>2, <3>0
    <3>3. PICK z \in Seq(Decimal) : z = Append(a, y)
      BY <3>3a
    <3>4. Len(z) = L /\ z[L] = y /\ \A k \in 1 .. L - 1 : z[k] = a[k]
      BY <1>1, <3>2, <3>3
    <3>5. \A k \in 1 .. L : z[k] = w[k]
      <4>1. \A k \in 1 .. L : k \in 1 .. L - 2 \/ k = L - 1 \/ k = L
        BY <1>1
      <4>2. (L - 1 \in 1 .. L - 1) /\ \A k \in 1 .. L - 2 : k \in 1 .. L - 1
        BY <1>1
      <4>. QED  BY <3>2, <3>4, <4>1, <4>2 DEF x, y
    <3>6. Len(w) = L
      BY DEF L
    <3>7. z = w
      BY <3>4, <3>5, <3>6
    <3>. QED  BY <3>1, <3>3, <3>7
  <2>. HIDE DEF E, e
  <2>3. Append(e, x) \in Seq(Hex) /\ Append(p, x) \in Seq(Hex)
    BY <1>9, <2>0
  <2>4. Extended(E, e, 10) = E
    BY <2>0, ExtendedEmpty DEF e
  <2>5. Extended(E, Append(e, x), 10) = E * 10 + DigitValue(x)
    BY <1>9, <2>0, <2>4, ExtendedAppend
  <2>5a. Extended(E, Append(Append(e, x), y), 10) = Extended(E, Append(e, x), 10) * 10 + DigitValue(y)
    BY <1>9, <2>0, <2>3, ExtendedAppend
  <2>5b. Extended(0, Append(Append(p, x), y), 10) = Extended(0, Append(p, x), 10) * 10 + DigitValue(y)
    BY <1>9, <2>0, <2>3, ExtendedAppend
  <2>6. Extended(E, q, 10) = (E * 10 + DigitValue(x)) * 10 + DigitValue(y)
    BY <2>1, <2>5, <2>5a
  <2>7. Extended(0, Append(p, x), 10) = E * 10 + DigitValue(x)
    BY <1>9, <2>0, ExtendedAppend DEF E
  <2>8. Extended(0, w, 10) = (E * 10 + DigitValue(x)) * 10 + DigitValue(y)
    BY <2>2, <2>5b, <2>7
  <2>. QED  BY <2>6, <2>8 DEF E
<1>12. strToDouble(str) = [num |-> Extended(0, w, 10), places |-> 2]
  <2>. DEFINE sign == IF str # <<>> /\ str[1] = "-" THEN -1 ELSE 1
              u == IF sign = -1 THEN Tail(str) ELSE str
              marks == {i \in DOMAIN u : u[i] = "."}
              ends == IF marks = {} THEN Len(u) ELSE (CHOOSE i \in marks : TRUE) - 1
              fraction == SubSeq(u, ends + 2, Len(u))
  <2>1. strToDouble(str) = [num |-> sign * Extended(strToInt(SubSeq(u, 1, ends)), fraction, 10),
                            places |-> Len(fraction)]
    BY Zenon DEF strToDouble
  <2>2. sign = 1
    BY <1>6, Zenon
  <2>3. u = str
    <3>1. 1 # -1
      OBVIOUS
    <3>. HIDE DEF sign
    <3>. QED  BY <2>2, <3>1
  <2>4. marks = points
    BY <2>3, Zenon
  <2>. HIDE DEF sign, u, marks, points
  <2>5. ends = L - 2 /\ ends + 2 = L
    BY <1>1, <1>5, <2>4
  <2>6. fraction = q /\ Len(fraction) = 2 /\ SubSeq(u, 1, ends) = p
    BY <1>2, <1>3, <1>8, <2>3, <2>5
  <2>. HIDE DEF ends, fraction
  <2>7. sign * Extended(strToInt(SubSeq(u, 1, ends)), fraction, 10) = sign * Extended(0, w, 10)
    BY <1>10, <1>11, <2>6
  <2>8. Extended(0, w, 10) \in Int
    <3>1. w \in Seq(Decimal) /\ Signed(w, w, 0) /\ 0 \in 0 .. 1
      BY DEF Signed
    <3>. QED  BY <3>1, SignedRead
  <2>9. 1 * Extended(0, w, 10) = Extended(0, w, 10)
    BY <2>8
  <2>. QED  BY <2>1, <2>2, <2>6, <2>7, <2>9
<1>. QED  BY <1>7, <1>12 DEF str, p, q, L

\* The kernel's reading of a numeral is the user library's.
LEMMA SameExtended ==
  ASSUME NEW x, NEW s, NEW b
  PROVE  Kernel!User!Extended(x, s, b) = Extended(x, s, b)
BY Zenon DEF Extended, Kernel!User!Extended, FoldLeft, MapThenFoldSet, Max, Kernel!User!FoldLeft,
             Kernel!User!MapThenFoldSet, Kernel!User!Max, DigitValue, Kernel!User!DigitValue,
             Digit, LowerDigit, Kernel!User!Digit, Kernel!User!LowerDigit

\* Its strToInt reads digits, and nothing else.
LEMMA KernelIntRead ==
  ASSUME NEW s \in Seq(Decimal), NEW o \in 0 .. 1, NEW str, Signed(str, s, o)
  PROVE  /\ o = 0 => Kernel!strToInt(str) = [error |-> FALSE, num |-> Extended(0, s, 10)]
         /\ o = 1 => Kernel!strToInt(str).error
<1>1. /\ \A k \in 1 .. Len(s) : s[k] \in Decimal
      /\ DOMAIN str = 1 .. Len(s) + o /\ Len(s) \in Nat
      /\ o = 1 => str[1] = "-"
      /\ o = 0 => str = s
  BY SignedIs
<1>2. CASE o = 0
  <2>1. ~ \E i \in DOMAIN str : str[i] \notin Kernel!User!Decimal
    BY <1>1, <1>2, SameDigits
  <2>2. Kernel!strToInt(str) = [error |-> FALSE, num |-> Kernel!User!Extended(0, str, 10)]
    BY <2>1, Zenon DEF Kernel!strToInt
  <2>3. Kernel!User!Extended(0, str, 10) = Extended(0, str, 10)
    BY SameExtended
  <2>4. str = s
    BY <1>1, <1>2
  <2>5. Kernel!strToInt(str) = [error |-> FALSE, num |-> Extended(0, s, 10)]
    BY <2>2, <2>3, <2>4, Zenon
  <2>. QED  BY <1>2, <2>5
<1>3. CASE o = 1
  <2>1. 1 \in DOMAIN str /\ str[1] \notin Kernel!User!Decimal
    BY <1>1, <1>3, SameDigits, DigitsAre
  <2>. QED  BY <1>3, <2>1 DEF Kernel!strToInt
<1>. QED  BY <1>2, <1>3

\* What itoa writes in base 10.
LEMMA WrittenSigned ==
  ASSUME NEW n \in Nat
  PROVE  \E w \in Seq(Decimal) : /\ w # <<>> /\ Extended(0, w, 10) = n
                                 /\ w = Reverse(Remainders(n, 10)) /\ itoa(n, 10) = w
                                 /\ Signed(itoa(-n, 10), w, IF n > 0 THEN 1 ELSE 0)
<1>0. PICK b \in 2 .. 16 : b = 10
  OBVIOUS
<1>. DEFINE low == Remainders(n, 10)
            C == Decimal \cup {"-"}
<1>1. low \in Seq(Decimal) /\ Reverse(low) \in Seq(Decimal) /\ Reverse(low) # <<>> /\ Extended(0, Reverse(low), 10) = n
  BY <1>0, Written
<1>. HIDE DEF low
<1>2. Abs(n) = n /\ Abs(-n) = n /\ (-n < 0 <=> n > 0) /\ ~ (n < 0)
  BY DEF Abs
<1>3. low \o <<>> = low
  BY <1>1
<1>4. itoa(n, 10) = Reverse(low)
  BY <1>2, <1>3 DEF itoa, low
<1>5. CASE n > 0
  <2>1. itoa(-n, 10) = Reverse(low \o <<"-">>)
    BY <1>2, <1>5 DEF itoa, low
  <2>. HIDE DEF C
  <2>2. low \in Seq(C) /\ <<"-">> \in Seq(C)
    BY <1>1 DEF C
  <2>3. Reverse(low \o <<"-">>) = Reverse(<<"-">>) \o Reverse(low)
    BY <2>2, ReverseIs
  <2>4. Reverse(<<"-">>) = <<"-">>
    BY DEF Reverse
  <2>5. Signed(itoa(-n, 10), Reverse(low), 1)
    BY <2>1, <2>3, <2>4 DEF Signed
  <2>. QED  BY <1>1, <1>4, <1>5, <2>5 DEF low
<1>6. CASE ~ (n > 0)
  <2>1. itoa(-n, 10) = Reverse(low)
    BY <1>2, <1>3, <1>6 DEF itoa, low
  <2>2. Signed(itoa(-n, 10), Reverse(low), 0)
    BY <2>1 DEF Signed
  <2>. QED  BY <1>1, <1>4, <1>6, <2>2 DEF low
<1>. QED  BY <1>5, <1>6

\* Lower case digits have the values of the upper case ones.
LEMMA LowerIs ==
  ASSUME NEW str \in Seq(Hex)
  PROVE  /\ DOMAIN Lower(str) = DOMAIN str /\ Len(Lower(str)) = Len(str)
         /\ \A i \in DOMAIN str : IsHex(Lower(str)[i]) /\ DigitValue(Lower(str)[i]) = DigitValue(str[i])
         /\ \A i \in DOMAIN str : IsHex(str[i])
<1>1. Len(str) \in Nat /\ DOMAIN str = 1 .. Len(str) /\ \A i \in DOMAIN str : str[i] \in Hex
  OBVIOUS
<1>2. DOMAIN Lower(str) = DOMAIN str /\ \A i \in DOMAIN str : Lower(str)[i] = LowerDigit[DigitValue(str[i]) + 1]
  BY DEF Lower
<1>3. Len(Lower(str)) = Len(str)
  BY <1>1, <1>2
<1>. QED  BY <1>1, <1>2, <1>3, DigitsAre

\* A byte of two decimal digits, as the clock gives it, is read back.
LEMMA Halves ==
  ASSUME NEW n \in Nat
  PROVE  n < 100 => BSDToInt((n \div 10) * 16 + (n % 10)) = n
<1>1. PICK q, r \in Nat : q = n \div 10 /\ r = n % 10 /\ r < 10 /\ n = q * 10 + r
  OBVIOUS
<1>2. (q * 16 + r) \div 16 = q /\ (q * 16 + r) % 16 = r
  BY <1>1
<1>. QED  BY <1>1, <1>2 DEF BSDToInt

\* Numbers round trip, whatever they are.
LEMMA NumbersHold ==
  ASSUME number \in Nat, base \in 2 .. 16
  PROVE  NumbersRoundTrip
<1>. DEFINE n == number
            b == base
            hex == uintToBase(n, 16)
            decimal == itoa(-n, 10)
            whole == itoa(n + 1000, 10)
<1>0. PICK h \in 2 .. 16 : h = 16
  OBVIOUS
<1>1. n \in Nat /\ b \in 2 .. 16 /\ n + 1000 \in Nat
  OBVIOUS
<1>2. /\ Positional(uintToBase(n, b), b) = n
      /\ n > 0 => uintToBase(n, b)[1] # "0"
  BY <1>1, Written DEF Positional, uintToBase
<1>3. /\ Positional(uintToBaseWL(n, b, 8), b) = n /\ Len(uintToBaseWL(n, b, 8)) >= 8
      /\ Len(uintToBaseWL(n, b, 8)) > 8 => uintToBaseWL(n, b, 8) = uintToBase(n, b)
  BY <1>1, Padded DEF Positional
<1>4. hex \in Seq(Hex) /\ Extended(0, hex, 16) = n /\ Len(hex) = Len(Remainders(n, 16))
  <2>1. Remainders(n, h) \in Seq(Hex) /\ Reverse(Remainders(n, h)) \in Seq(Hex) /\ Extended(0, Reverse(Remainders(n, h)), h) = n
    BY <1>1, Written
  <2>2. Len(Reverse(Remainders(n, h))) = Len(Remainders(n, h))
    BY <2>1, ReverseIs
  <2>. QED  BY <1>0, <2>1, <2>2 DEF uintToBase
<1>5. PICK w \in Seq(Decimal) : /\ w # <<>> /\ Extended(0, w, 10) = n /\ itoa(n, 10) = w
                                /\ Signed(decimal, w, IF n > 0 THEN 1 ELSE 0)
  BY <1>1, WrittenSigned
<1>6a. PICK m \in Nat : m = n + 1000
  BY <1>1
<1>6. PICK t \in Seq(Decimal) : /\ t # <<>> /\ Extended(0, t, 10) = m /\ whole = t
                                /\ t = Reverse(Remainders(m, 10))
  <2>1. whole = itoa(m, 10)
    BY <1>6a
  <2>. HIDE DEF whole
  <2>. QED  BY <2>1, WrittenSigned
<1>7. number < 100 => BSDToInt((number \div 10) * 16 + (number % 10)) = number
  BY Halves
<1>8. number > 0 => Len(uintToBase(number, 2)) = Kernel!log2(number) + 1
  BY Halvings
<1>. HIDE DEF n, b, hex, decimal, whole
<1>9. strToHex(hex) = [error |-> FALSE, num |-> n] /\ strToHex(Lower(hex)) = strToHex(hex)
  <2>1. strToHex(hex) = [error |-> FALSE, num |-> Extended(0, hex, 16)]
    BY <1>4, HexRead, LowerIs
  <2>2. strToHex(Lower(hex)) = [error |-> FALSE, num |-> Extended(0, hex, 16)]
    BY <1>4, HexRead, LowerIs
  <2>. QED  BY <1>4, <2>1, <2>2
<1>10. /\ strToInt(decimal) = -n /\ strToInt(itoa(n, 10)) = n
       /\ isNum(decimal) /\ strToDouble(decimal) = [num |-> -n, places |-> 0]
       /\ Kernel!strToInt(itoa(n, 10)) = [error |-> FALSE, num |-> n]
       /\ Kernel!strToInt(decimal).error = (n > 0)
  <2>1. Signed(w, w, 0) /\ 0 \in 0 .. 1 /\ 1 \in 0 .. 1
    BY DEF Signed
  <2>2. strToInt(w) = n /\ Kernel!strToInt(w) = [error |-> FALSE, num |-> n]
    BY <1>5, <2>1, SignedRead, KernelIntRead
  <2>3. CASE n > 0
    <3>1. Signed(decimal, w, 1)
      BY <1>5, <2>3
    <3>2. /\ strToInt(decimal) = -n /\ isNum(decimal) /\ strToDouble(decimal) = [num |-> -n, places |-> 0]
          /\ Kernel!strToInt(decimal).error
      BY <1>5, <2>1, <3>1, SignedRead, KernelIntRead
    <3>3. Kernel!strToInt(decimal).error = TRUE
      <4>1. Kernel!strToInt(decimal).error \in BOOLEAN
        BY DEF Kernel!strToInt
      <4>. QED  BY <3>2, <4>1
    <3>. QED  BY <1>5, <2>2, <2>3, <3>2, <3>3
  <2>4. CASE ~ (n > 0)
    <3>1. Signed(decimal, w, 0) /\ n = 0 /\ -n = 0
      BY <1>1, <1>5, <2>4
    <3>2. /\ strToInt(decimal) = n /\ isNum(decimal) /\ strToDouble(decimal) = [num |-> n, places |-> 0]
          /\ Kernel!strToInt(decimal).error = FALSE
      BY <1>5, <2>1, <3>1, SignedRead, KernelIntRead
    <3>. QED  BY <1>5, <2>2, <2>4, <3>1, <3>2
  <2>. QED  BY <2>3, <2>4
<1>11. n < 16^3 => Kernel!strToHex(hex) = [error |-> FALSE, num |-> n]
  <2>1. 16^3 = 4096
    OBVIOUS
  <2>2. n < 16^3 => Len(hex) \in 1 .. 3
    BY <1>1, <1>4, <2>1, FewDigits
  <2>. QED  BY <1>4, <2>2, KernelHexRead
<1>12. LET point == SubSeq(whole, 1, Len(whole) - 2) \o <<".">> \o SubSeq(whole, Len(whole) - 1, Len(whole))
       IN isNum(point) /\ strToDouble(point) = [num |-> n + 1000, places |-> 2]
  <2>1. Len(whole) >= 3
    <3>1. Len(Remainders(m, 10)) >= 3
      <4>1. m >= 1000
        BY <1>1, <1>6a
      <4>. QED  BY <4>1, ManyDigits
    <3>2. PICK c \in 2 .. 16 : c = 10
      OBVIOUS
    <3>3. Remainders(m, c) \in Seq(Hex)
      BY Written
    <3>. QED  BY <1>6, <3>1, <3>2, <3>3, ReverseIs
  <2>. QED  BY <1>6, <1>6a, <2>1, PointRead
<1>. QED  BY <1>2, <1>3, <1>7, <1>8, <1>9, <1>10, <1>11, <1>12 DEF NumbersRoundTrip, n, b, hex, decimal, whole

-----------------------------------------------------------------------------
(***************************************************************************)
(* strtok.                                                                 *)
(***************************************************************************)
\* Where a run of characters that are, or are not, the delimiter is over.
LEMMA SkipIs ==
  ASSUME NEW C, NEW str \in Seq(C), NEW delim, NEW i \in 1 .. Len(str) + 1, NEW same \in BOOLEAN
  PROVE  LET j == SkipWhile(str, i, delim, same) IN
         /\ j \in i .. Len(str) + 1
         /\ \A k \in i .. j - 1 : str[k] = delim <=> same
         /\ j <= Len(str) => (str[j] = delim <=> ~ same)
<1>. DEFINE L == Len(str)
            Over(j) == /\ \A k \in i .. j - 1 : (str[k] = delim) = same
                       /\ j <= Len(str) => (str[j] = delim) # same
            T == {j \in i .. L + 1 : j = L + 1 \/ (str[j] = delim) # same}
<1>1. L \in Nat /\ i \in Nat /\ L + 1 \in T /\ T \in SUBSET Nat
  OBVIOUS
<1>2. PICK m \in T : \A n \in T : m <= n
  BY <1>1, LeastNatural
<1>3. ASSUME NEW k \in i .. m - 1, (str[k] = delim) # same PROVE FALSE
  <2>1. k \in i .. L + 1 /\ k < m
    BY <1>1, <1>2
  <2>2. k \in T
    BY <1>3, <2>1
  <2>. QED  BY <1>1, <1>2, <2>1, <2>2
<1>4. m \in i .. L + 1 /\ Over(m)
  <2>1. m <= L => m # L + 1
    BY <1>1
  <2>. QED  BY <1>2, <1>3, <2>1
<1>5. SkipWhile(str, i, delim, same) = CHOOSE j \in i .. L + 1 : Over(j)
  BY DEF SkipWhile
<1>. QED  BY <1>4, <1>5

\* One call: where it starts to read a word, and where that is over.
Word1(str, delim, i) == SkipWhile(str, i, delim, TRUE)
Word2(str, delim, i) == SkipWhile(str, Word1(str, delim, i), delim, FALSE)

\* Where a call may find the index: at the start, on a delimiter or at the end.
Between(str, delim, i) == i = 1 \/ i = Len(str) + 1 \/ str[i] = delim

\* The call passes the delimiters and answers the word after them.
LEMMA CallIs ==
  ASSUME NEW C, NEW str \in Seq(C), NEW delim, NEW i \in 1 .. Len(str) + 1
  PROVE  LET S == Starts(str, delim)
             a == Word1(str, delim, i)
             z == Word2(str, delim, i)
         IN /\ a \in i .. Len(str) + 1 /\ z \in a .. Len(str) + 1
            /\ a <= Len(str) => z > a
            /\ a > Len(str) => a = Len(str) + 1 /\ z = Len(str) + 1
            /\ Between(str, delim, i) =>
                 /\ Between(str, delim, z)
                 /\ a > Len(str) => UpTo(S, i - 1) = Cardinality(S)
                 /\ a <= Len(str) => /\ a \in S /\ SubSeq(str, a, z - 1) = Word(str, delim, a)
                                     /\ UpTo(S, a) = UpTo(S, i - 1) + 1 /\ UpTo(S, z - 1) = UpTo(S, a)
<1>. DEFINE L == Len(str)
            S == Starts(str, delim)
            a == Word1(str, delim, i)
            z == Word2(str, delim, i)
<1>1. L \in Nat /\ i \in Nat /\ i >= 1 /\ DOMAIN str = 1 .. L /\ S \in SUBSET (1 .. L)
  BY DEF Starts
<1>2. a \in i .. L + 1 /\ (\A k \in i .. a - 1 : str[k] = delim) /\ (a <= L => str[a] # delim)
  <2>1. a \in i .. L + 1 /\ (\A k \in i .. a - 1 : str[k] = delim <=> TRUE) /\ (a <= L => (str[a] = delim <=> ~ TRUE))
    BY SkipIs DEF Word1
  <2>. HIDE DEF a
  <2>. QED  BY <2>1
<1>3. z \in a .. L + 1 /\ (\A k \in a .. z - 1 : str[k] # delim) /\ (z <= L => str[z] = delim)
  <2>0. a \in 1 .. L + 1
    BY <1>1, <1>2
  <2>1. z \in a .. L + 1 /\ (\A k \in a .. z - 1 : str[k] = delim <=> FALSE) /\ (z <= L => (str[z] = delim <=> ~ FALSE))
    <3>. HIDE DEF a
    <3>. QED  BY <2>0, SkipIs DEF Word2, a
  <2>. HIDE DEF z, a
  <2>. QED  BY <2>1
<1>. HIDE DEF L, a, z
<1>4. a \in Nat /\ z \in Nat /\ i <= a /\ a <= z /\ z <= L + 1
  BY <1>1, <1>2, <1>3
<1>5. a <= L => z > a
  BY <1>2, <1>3, <1>4, <1>1
<1>6. a > L => a = L + 1 /\ z = L + 1
  BY <1>1, <1>2, <1>3, <1>4
\* No word starts where only delimiters are, nor within a word.
<1>7. ASSUME NEW m \in Nat, NEW n \in Nat, m <= n, \A k \in m + 1 .. n : k \notin S
      PROVE  UpTo(S, n) = UpTo(S, m)
  <2>. DEFINE T == {d \in Nat : m + d <= n => UpTo(S, m + d) = UpTo(S, m)}
  <2>1. 0 \in T
    OBVIOUS
  <2>2. ASSUME NEW d \in Nat, d \in T PROVE d + 1 \in T
    <3>. SUFFICES ASSUME m + (d + 1) <= n PROVE UpTo(S, m + (d + 1)) = UpTo(S, m)
      OBVIOUS
    <3>1. m + d <= n /\ m + d \in Nat /\ (m + d) + 1 = m + (d + 1) /\ (m + d) + 1 \in m + 1 .. n
      OBVIOUS
    <3>2. UpTo(S, m + d) = UpTo(S, m)
      BY <2>2, <3>1
    <3>3. (m + d) + 1 \notin S
      BY <1>7, <3>1
    <3>. HIDE DEF S
    <3>4. UpTo(S, (m + d) + 1) = UpTo(S, m + d)
      BY <1>1, <3>1, <3>3, UpToNext
    <3>. QED  BY <3>1, <3>2, <3>4
  <2>. HIDE DEF T, S
  <2>3. \A d \in Nat : d \in T
    BY <2>1, <2>2, NatSetInduction
  <2>4. n - m \in Nat /\ m + (n - m) = n
    BY <1>7
  <2>. QED  BY <2>3, <2>4 DEF T
<1>8. ASSUME Between(str, delim, i)
      PROVE  /\ Between(str, delim, z)
             /\ a > L => UpTo(S, i - 1) = Cardinality(S)
             /\ a <= L => /\ a \in S /\ SubSeq(str, a, z - 1) = Word(str, delim, a)
                          /\ UpTo(S, a) = UpTo(S, i - 1) + 1 /\ UpTo(S, z - 1) = UpTo(S, a)
  <2>1. Between(str, delim, z)
    BY <1>1, <1>3, <1>4 DEF Between, L
  <2>2. UpTo(S, a - 1) = UpTo(S, i - 1)
    <3>1. i - 1 \in Nat /\ a - 1 \in Nat /\ i - 1 <= a - 1 /\ (i - 1) + 1 = i
      BY <1>1, <1>4
    <3>2. \A k \in i .. a - 1 : k \notin S
      BY <1>2 DEF Starts
    <3>. HIDE DEF S
    <3>. QED  BY <1>7, <3>1, <3>2
  <2>3. a > L => UpTo(S, i - 1) = Cardinality(S)
    <3>1. a > L => a - 1 = L /\ L >= L
      BY <1>1, <1>6
    <3>2. UpTo(S, L) = Cardinality(S)
      <4>. HIDE DEF S
      <4>1. L >= L
        BY <1>1
      <4>. QED  BY <1>1, <4>1, UpToNext
    <3>. HIDE DEF S
    <3>. QED  BY <2>2, <3>1, <3>2
  <2>4. ASSUME a <= L
        PROVE  /\ a \in S /\ SubSeq(str, a, z - 1) = Word(str, delim, a)
               /\ UpTo(S, a) = UpTo(S, i - 1) + 1 /\ UpTo(S, z - 1) = UpTo(S, a)
    <3>1. a \in DOMAIN str /\ str[a] # delim
      BY <1>1, <1>2, <1>4, <2>4
    <3>2. a = 1 \/ str[a - 1] = delim
      <4>1. CASE a = i
        <5>1. i # L + 1
          BY <1>1, <2>4, <4>1
        <5>. QED  BY <1>8, <3>1, <4>1, <5>1 DEF Between, L
      <4>2. CASE a # i
        <5>1. a - 1 \in i .. a - 1
          BY <1>1, <1>4, <4>2
        <5>. QED  BY <1>2, <5>1
      <4>. QED  BY <4>1, <4>2
    <3>3. a \in S
      BY <3>1, <3>2 DEF Starts
    <3>4. End(str, delim, a) = z - 1
      <4>1. z - 1 \in a .. L
        BY <1>1, <1>3, <1>4, <1>5, <2>4
      <4>2. \A k \in a .. z - 1 : str[k] # delim
        BY <1>3
      <4>3. z - 1 = L \/ str[(z - 1) + 1] = delim
        <5>1. (z - 1) + 1 = z /\ (z - 1 = L \/ z <= L)
          BY <1>1, <1>4
        <5>. QED  BY <1>3, <5>1
      <4>. QED  BY <3>1, <4>1, <4>2, <4>3, EndOnly DEF L
    <3>5. UpTo(S, a) = UpTo(S, i - 1) + 1
      <4>1. a - 1 \in Nat /\ (a - 1) + 1 = a
        BY <1>1, <1>4
      <4>. HIDE DEF S
      <4>2. UpTo(S, (a - 1) + 1) = UpTo(S, a - 1) + 1
        BY <1>1, <3>3, <4>1, UpToNext
      <4>. QED  BY <2>2, <4>1, <4>2
    <3>6. UpTo(S, z - 1) = UpTo(S, a)
      <4>1. a \in Nat /\ z - 1 \in Nat /\ a <= z - 1
        BY <1>1, <1>4, <1>5, <2>4
      <4>2. ASSUME NEW k \in a + 1 .. z - 1 PROVE k \notin S
        <5>1. k - 1 \in a .. z - 1 /\ k # 1
          BY <1>1, <1>4
        <5>2. str[k - 1] # delim
          BY <1>3, <5>1
        <5>. QED  BY <5>1, <5>2 DEF Starts
      <4>. HIDE DEF S
      <4>. QED  BY <1>7, <4>1, <4>2
    <3>. QED  BY <3>3, <3>4, <3>5, <3>6 DEF Word
  <2>. QED  BY <2>1, <2>3, <2>4
<1>. QED  BY <1>2, <1>3, <1>5, <1>6, <1>8 DEF L, a, z

\* An element, and those after it.
LEMMA FirstAndRest ==
  ASSUME NEW B, NEW N \in Nat, NEW words \in [1 .. N -> B], NEW m \in 1 .. N
  PROVE  /\ SubSeq(words, m + 1, N) \in Seq(B) /\ SubSeq(words, m, N) \in Seq(B)
         /\ SubSeq(words, m, N) = <<words[m]>> \o SubSeq(words, m + 1, N)
         /\ SubSeq(words, N + 1, N) = <<>> /\ SubSeq(words, 1, N) = words
<1>1. words \in Seq(B) /\ Len(words) = N
  OBVIOUS
<1>. DEFINE r == SubSeq(words, m + 1, N)
            s == SubSeq(words, m, N)
<1>2. r \in Seq(B) /\ Len(r) = N - m /\ \A k \in 1 .. N - m : r[k] = words[m + k]
  BY <1>1
<1>3. s \in Seq(B) /\ Len(s) = N - m + 1 /\ \A k \in 1 .. N - m + 1 : s[k] = words[m + k - 1]
  BY <1>1
<1>4. SubSeq(words, N + 1, N) = <<>> /\ SubSeq(words, 1, N) = words
  BY <1>1
<1>5. PICK w \in B : w = words[m]
  OBVIOUS
<1>. HIDE DEF r, s
<1>. DEFINE q == <<w>> \o r
<1>6. q \in Seq(B) /\ Len(q) = N - m + 1 /\ q[1] = w /\ \A k \in 1 .. N - m : q[k + 1] = r[k]
  BY <1>2
<1>. HIDE DEF q
<1>7. ASSUME NEW k \in 1 .. N - m + 1 PROVE q[k] = s[k]
  <2>1. CASE k = 1
    <3>1. m + 1 - 1 = m /\ 1 \in 1 .. N - m + 1
      OBVIOUS
    <3>. QED  BY <1>3, <1>5, <1>6, <2>1, <3>1
  <2>2. CASE k # 1
    <3>1. k - 1 \in 1 .. N - m /\ (k - 1) + 1 = k /\ m + (k - 1) = m + k - 1
      BY <2>2
    <3>. QED  BY <1>2, <1>3, <1>6, <3>1
  <2>. QED  BY <2>1, <2>2
<1>8. q = s
  BY <1>3, <1>6, <1>7
<1>. QED  BY <1>2, <1>3, <1>4, <1>5, <1>8 DEF q, r, s

\* The words from the place i on.
Rest(str, delim, i) ==
  SubSeq(Words(str, delim), UpTo(Starts(str, delim), i - 1) + 1, Cardinality(Starts(str, delim)))

\* B holds the words, and those from each place on are the next one and those after it.
CutInto(str, delim, B) ==
  \A i \in 1 .. Len(str) + 1 :
    LET a == Word1(str, delim, i)
        z == Word2(str, delim, i)
    IN Between(str, delim, i) =>
         /\ Rest(str, delim, i) \in Seq(B)
         /\ a > Len(str) => Rest(str, delim, i) = <<>>
         /\ a <= Len(str) => /\ SubSeq(str, a, z - 1) \in B
                             /\ Rest(str, delim, i) = <<SubSeq(str, a, z - 1)>> \o Rest(str, delim, z)

\* What is left of the words at each place where a call may find the index.
LEMMA RestIs ==
  ASSUME NEW C, NEW str \in Seq(C), NEW delim
  PROVE  \E B : /\ Seq(C) \subseteq B
                /\ Words(str, delim) \in Seq(B) /\ Rest(str, delim, 1) = Words(str, delim)
                /\ CutInto(str, delim, B)
<1>. DEFINE L == Len(str)
            S == Starts(str, delim)
            N == Cardinality(S)
            words == Words(str, delim)
            B == Seq(C) \cup {words[n] : n \in 1 .. N}
<1>1. L \in Nat /\ S \in SUBSET (1 .. L)
  BY DEF Starts
<1>2. N \in Nat /\ \A i \in Nat : UpTo(S, i) \in Nat /\ UpTo(S, i) <= N
  <2>1. IsFiniteSet(1 .. L)
    BY <1>1, FS_Interval
  <2>2. IsFiniteSet(S) /\ N \in Nat
    BY <1>1, <2>1, FS_Subset, FS_CardinalityType
  <2>. HIDE DEF S
  <2>3. ASSUME NEW i \in Nat PROVE UpTo(S, i) \in Nat /\ UpTo(S, i) <= N
    <3>1. {j \in S : j <= i} \in SUBSET S
      OBVIOUS
    <3>2. UpTo(S, i) <= N
      BY <2>2, <3>1, FS_Subset DEF UpTo
    <3>. QED  BY <1>1, <3>2, UpToNext
  <2>. QED  BY <2>2, <2>3 DEF N
<1>3. words = [n \in 1 .. N |-> Word(str, delim, Start(str, delim, n))]
  BY DEF Words
<1>. HIDE DEF words, N
<1>4. words \in [1 .. N -> B] /\ \A n \in 1 .. N : words[n] = Word(str, delim, Start(str, delim, n))
  BY <1>3
<1>5. Seq(C) \subseteq B
  OBVIOUS
<1>. HIDE DEF B
<1>6. words \in Seq(B) /\ SubSeq(words, 1, N) = words /\ SubSeq(words, N + 1, N) = <<>>
  BY <1>2, <1>4
<1>9. ASSUME NEW m \in 1 .. N
      PROVE  SubSeq(words, m, N) \in Seq(B) /\ SubSeq(words, m, N) = <<words[m]>> \o SubSeq(words, m + 1, N)
  <2>1. N \in Nat /\ words \in [1 .. N -> B]
    BY <1>2, <1>4
  <2>. HIDE DEF words, N, B, S, L
  <2>. QED  BY <2>1, FirstAndRest
<1>7. Rest(str, delim, 1) = words
  <2>1. UpTo(S, 0) = 0
    <3>1. {j \in S : j <= 0} = {}
      BY <1>1
    <3>. QED  BY <3>1, FS_EmptySet DEF UpTo
  <2>2. 1 - 1 = 0 /\ 0 + 1 = 1
    OBVIOUS
  <2>. HIDE DEF S
  <2>. QED  BY <1>6, <2>1, <2>2 DEF Rest, words, N, S
<1>8. ASSUME NEW i \in 1 .. L + 1, Between(str, delim, i)
      PROVE  LET a == Word1(str, delim, i)
                 z == Word2(str, delim, i)
             IN /\ Rest(str, delim, i) \in Seq(B)
                /\ a > L => Rest(str, delim, i) = <<>>
                /\ a <= L => /\ SubSeq(str, a, z - 1) \in B
                             /\ Rest(str, delim, i) = <<SubSeq(str, a, z - 1)>> \o Rest(str, delim, z)
  <2>. DEFINE a == Word1(str, delim, i)
              z == Word2(str, delim, i)
  <2>1. /\ a \in i .. L + 1 /\ z \in a .. L + 1
        /\ a > L => UpTo(S, i - 1) = N
        /\ a <= L => /\ a \in S /\ SubSeq(str, a, z - 1) = Word(str, delim, a)
                     /\ UpTo(S, a) = UpTo(S, i - 1) + 1 /\ UpTo(S, z - 1) = UpTo(S, a)
    BY <1>8, CallIs DEF N
  <2>. HIDE DEF a, z
  <2>2. Rest(str, delim, i) = SubSeq(words, UpTo(S, i - 1) + 1, N) /\ Rest(str, delim, z) = SubSeq(words, UpTo(S, z - 1) + 1, N)
    BY DEF Rest, words, N
  <2>. HIDE DEF S
  <2>3. CASE a > L
    <3>1. Rest(str, delim, i) = <<>> /\ ~ (a <= L)
      BY <1>1, <1>6, <2>1, <2>2, <2>3
    <3>2. <<>> \in Seq(B)
      OBVIOUS
    <3>. QED  BY <2>3, <3>1, <3>2 DEF a, z
  <2>4. CASE a <= L
    <3>1. PICK m \in 1 .. N : m = UpTo(S, a)
      <4>1. a \in Nat /\ i - 1 \in Nat
        BY <1>1, <2>1
      <4>2. UpTo(S, a) = UpTo(S, i - 1) + 1 /\ UpTo(S, i - 1) \in Nat /\ UpTo(S, a) \in Nat /\ UpTo(S, a) <= N
        BY <1>2, <2>1, <2>4, <4>1
      <4>. QED  BY <1>2, <4>2
    <3>2. Start(str, delim, m) = a
      BY <2>1, <2>4, <3>1, StartIs DEF S
    <3>3. words[m] = SubSeq(str, a, z - 1) /\ words[m] \in B
      BY <1>4, <2>1, <2>4, <3>2
    <3>4. /\ SubSeq(words, m, N) \in Seq(B)
          /\ SubSeq(words, m, N) = <<words[m]>> \o SubSeq(words, m + 1, N)
      BY <1>9
    <3>5. UpTo(S, i - 1) + 1 = m /\ UpTo(S, z - 1) + 1 = m + 1 /\ ~ (a > L)
      BY <1>1, <2>1, <2>4, <3>1
    <3>. QED  BY <2>2, <2>4, <3>3, <3>4, <3>5, Zenon DEF a, z
  <2>5. a > L \/ a <= L
    BY <1>1, <2>1
  <2>. QED  BY <2>3, <2>4, <2>5, Zenon DEF a, z
<1>10. CutInto(str, delim, B)
  BY <1>8, Zenon DEF L, CutInto
<1>. QED  BY <1>5, <1>6, <1>7, <1>10 DEF words

\* What reading on from each place of a line answers, when the call there answers
\* tok and goes on from nx.
IsTokens(f, tok, nx, L) ==
  f = [i \in 1 .. L + 1 |-> IF tok[i] = NoToken THEN <<>> ELSE <<tok[i]>> \o f[nx[i]]]

\* A call answers the next word; without one it answers NULL or, when it is loose and
\* the line is not used up, an empty token.
Calls(str, delim, tok, nx, loose) ==
  \A i \in 1 .. Len(str) + 1 :
    /\ Word1(str, delim, i) <= Len(str) =>
         /\ tok[i] = SubSeq(str, Word1(str, delim, i), Word2(str, delim, i) - 1)
         /\ nx[i] = Word2(str, delim, i)
    /\ Word1(str, delim, i) > Len(str) =>
         \/ tok[i] = NoToken
         \/ loose /\ i <= Len(str) /\ tok[i] = <<>> /\ nx[i] = Len(str) + 1

\* One more token in front.
LEMMA InFront ==
  ASSUME NEW B, NEW w \in B, NEW e \in B, NEW r \in Seq(B)
  PROVE  <<w>> \o r \in Seq(B) /\ <<w>> \o Append(r, e) = Append(<<w>> \o r, e) /\ <<e>> \o <<>> = Append(<<>>, e)
<1>1. <<w>> \o r \in Seq(B) /\ <<e>> \o <<>> = Append(<<>>, e)
  OBVIOUS
<1>. DEFINE p == <<w>> \o Append(r, e)
            q == Append(<<w>> \o r, e)
<1>2. p \in Seq(B) /\ Len(p) = Len(r) + 2
  OBVIOUS
<1>3. q \in Seq(B) /\ Len(q) = Len(r) + 2
  OBVIOUS
<1>4. \A k \in 1 .. Len(r) + 2 : p[k] = q[k]
  OBVIOUS
<1>. HIDE DEF p, q
<1>5. p = q
  BY <1>2, <1>3, <1>4
<1>. QED  BY <1>1, <1>5 DEF p, q

\* What a call answers is a token or NULL, and after a token it goes on further.
LEMMA CallsGoOn ==
  ASSUME NEW C, "null" \notin C, NEW str \in Seq(C), NEW delim, NEW tok, NEW nx, NEW loose \in BOOLEAN,
         Calls(str, delim, tok, nx, loose), NEW i \in 1 .. Len(str) + 1
  PROVE  /\ tok[i] # NoToken => nx[i] \in i + 1 .. Len(str) + 1
         /\ tok[i] # NoToken => tok[i] \in Seq(C)
         /\ Word1(str, delim, i) <= Len(str) => tok[i] # NoToken
<1>1. /\ Word1(str, delim, i) \in i .. Len(str) + 1 /\ Word2(str, delim, i) \in Word1(str, delim, i) .. Len(str) + 1
      /\ Word1(str, delim, i) <= Len(str) => Word2(str, delim, i) > Word1(str, delim, i)
  BY CallIs
<1>. DEFINE L == Len(str)
            a == Word1(str, delim, i)
            z == Word2(str, delim, i)
<1>2. /\ a <= L => tok[i] = SubSeq(str, a, z - 1) /\ nx[i] = z
      /\ a > L => \/ tok[i] = NoToken
                  \/ loose /\ i <= L /\ tok[i] = <<>> /\ nx[i] = L + 1
  BY DEF Calls
<1>3. L \in Nat /\ i \in 1 .. L + 1
  OBVIOUS
<1>4. a <= L => SubSeq(str, a, z - 1) \in Seq(C)
  BY <1>1
<1>. HIDE DEF a, z, L
<1>5. NoToken \notin Seq(C) /\ <<>> \in Seq(C)
  BY DEF NoToken
<1>6. CASE a <= L
  <2>1. z \in i + 1 .. L + 1
    BY <1>1, <1>3, <1>6 DEF a, z, L
  <2>. QED  BY <1>2, <1>4, <1>5, <1>6, <2>1 DEF a, L
<1>7. CASE a > L
  <2>1. ~ (a <= L)
    BY <1>1, <1>3, <1>7 DEF a, L
  <2>2. i <= L => L + 1 \in i + 1 .. L + 1
    BY <1>3
  <2>. QED  BY <1>2, <1>5, <1>7, <2>1, <2>2 DEF a, L
<1>. QED  BY <1>1, <1>3, <1>6, <1>7 DEF a, L

\* The tokens of each place of a line: there are some.
LEMMA TokensExist ==
  ASSUME NEW L \in Nat, NEW B, NEW tok, NEW nx,
         \A i \in 1 .. L + 1 : tok[i] # NoToken => tok[i] \in B /\ nx[i] \in i + 1 .. L + 1
  PROVE  \E g : IsTokens(g, tok, nx, L)
<1>. DEFINE D == 1 .. L + 1
            V == Seq(B)
            stop == [i \in D |-> tok[i] = NoToken]
            x == [i \in D |-> <<>>]
            op == [i \in D |-> [w \in V |-> <<tok[i]>> \o w]]
            rank == [i \in D |-> L + 1 - i]
<1>1. \A i \in D : tok[i] # NoToken => \A w \in V : <<tok[i]>> \o w \in V
  OBVIOUS
<1>2. <<>> \in V
  OBVIOUS
<1>. HIDE DEF V
<1>3. \A i \in D : rank[i] \in Nat /\ rank[i] < L + 1
  OBVIOUS
<1>4. \A i \in D : stop[i] => x[i] \in V
  BY <1>2
<1>5. ASSUME NEW i \in D, ~ stop[i]
      PROVE  nx[i] \in D /\ rank[nx[i]] < rank[i] /\ \A w \in V : op[i][w] \in V
  <2>1. tok[i] # NoToken
    BY <1>5
  <2>2. nx[i] \in i + 1 .. L + 1 /\ nx[i] \in D
    BY <2>1
  <2>3. rank[nx[i]] = L + 1 - nx[i] /\ rank[i] = L + 1 - i
    BY <2>2
  <2>4. \A w \in V : op[i][w] = <<tok[i]>> \o w
    OBVIOUS
  <2>5. L + 1 - nx[i] < L + 1 - i
    BY <2>2
  <2>. HIDE DEF rank, op, D
  <2>. QED  BY <1>1, <2>1, <2>2, <2>3, <2>4, <2>5
<1>6. L + 1 \in Nat
  OBVIOUS
<1>. HIDE DEF D, stop, x, op, rank
<1>7. HasRecursion(D, V, stop, x, op, nx)
  BY <1>3, <1>4, <1>5, <1>6, RecursionExists
<1>8. PICK g \in [D -> V] : IsRecursion(g, D, stop, x, op, nx)
  BY <1>7 DEF HasRecursion
<1>9. \A i \in D : g[i] = IF stop[i] THEN x[i] ELSE op[i][g[nx[i]]]
  BY <1>8 DEF IsRecursion
<1>10. ASSUME NEW i \in D PROVE g[i] = IF tok[i] = NoToken THEN <<>> ELSE <<tok[i]>> \o g[nx[i]]
  <2>1. stop[i] <=> tok[i] = NoToken
    BY DEF stop
  <2>2. x[i] = <<>>
    BY DEF x
  <2>3. CASE tok[i] = NoToken
    BY <1>9, <2>1, <2>2, <2>3
  <2>4. CASE tok[i] # NoToken
    <3>1. nx[i] \in D
      BY <1>5, <2>1, <2>4
    <3>2. op[i][g[nx[i]]] = <<tok[i]>> \o g[nx[i]]
      BY <3>1 DEF op
    <3>. QED  BY <1>9, <2>1, <2>4, <3>2
  <2>. QED  BY <2>3, <2>4
<1>11. g = [i \in D |-> IF tok[i] = NoToken THEN <<>> ELSE <<tok[i]>> \o g[nx[i]]]
  BY <1>10
<1>. QED  BY <1>11, Zenon DEF IsTokens, D

\* They are the words from there on, with an empty token after them if calls are loose.
LEMMA TokensAreWords ==
  ASSUME NEW C, "null" \notin C, NEW str \in Seq(C), NEW delim, NEW tok, NEW nx, NEW loose \in BOOLEAN,
         Calls(str, delim, tok, nx, loose), NEW f, IsTokens(f, tok, nx, Len(str)),
         NEW j \in 1 .. Len(str) + 1, Between(str, delim, j)
  PROVE  \/ f[j] = Rest(str, delim, j)
         \/ loose /\ j <= Len(str) /\ f[j] = Append(Rest(str, delim, j), <<>>)
<1>. DEFINE L == Len(str)
            D == 1 .. L + 1
            a(i) == Word1(str, delim, i)
            z(i) == Word2(str, delim, i)
            R(i) == Rest(str, delim, i)
            At(i) == Between(str, delim, i)
            P == {i \in D : At(i) => \/ f[i] = R(i)
                                     \/ loose /\ i <= L /\ f[i] = Append(R(i), <<>>)}
            rank == [i \in D |-> L + 1 - i]
<1>1. PICK B : Seq(C) \subseteq B /\ CutInto(str, delim, B)
  BY RestIs
<1>6. \A i \in D : At(i) =>
        /\ R(i) \in Seq(B)
        /\ a(i) > L => R(i) = <<>>
        /\ a(i) <= L => /\ SubSeq(str, a(i), z(i) - 1) \in B
                        /\ R(i) = <<SubSeq(str, a(i), z(i) - 1)>> \o R(z(i))
  BY <1>1, Zenon DEF CutInto
<1>7. <<>> \in B
  <2>1. <<>> \in Seq(C)
    OBVIOUS
  <2>. QED  BY <1>1, <2>1
<1>2. L \in Nat /\ \A i \in D : rank[i] \in Nat
  OBVIOUS
<1>3. \A i \in D : f[i] = IF tok[i] = NoToken THEN <<>> ELSE <<tok[i]>> \o f[nx[i]]
  <2>1. f = [i \in D |-> IF tok[i] = NoToken THEN <<>> ELSE <<tok[i]>> \o f[nx[i]]]
    BY DEF IsTokens
  <2>. QED  BY <2>1, Zenon
<1>4. ASSUME NEW i \in D, \A w \in D : rank[w] < rank[i] => w \in P PROVE i \in P
  <2>. SUFFICES ASSUME At(i)
                PROVE  f[i] = R(i) \/ (loose /\ i <= L /\ f[i] = Append(R(i), <<>>))
    OBVIOUS
  <2>1. /\ a(i) \in i .. L + 1 /\ z(i) \in a(i) .. L + 1
        /\ a(i) <= L => z(i) > a(i)
        /\ At(z(i))
    BY CallIs
  <2>2. /\ tok[i] # NoToken => nx[i] \in i + 1 .. L + 1
        /\ a(i) <= L => tok[i] # NoToken
    BY CallsGoOn
  <2>3. /\ a(i) <= L => tok[i] = SubSeq(str, a(i), z(i) - 1) /\ nx[i] = z(i)
        /\ a(i) > L => \/ tok[i] = NoToken
                       \/ loose /\ i <= L /\ tok[i] = <<>> /\ nx[i] = L + 1
    BY DEF Calls
  <2>4. R(i) \in Seq(B) /\ <<>> \in B /\ (a(i) > L => R(i) = <<>>)
    BY <1>6, <1>7
  <2>5. a(i) <= L => tok[i] \in B /\ R(i) = <<tok[i]>> \o R(z(i))
    BY <1>6, <2>3
  <2>6. z(i) \in D => R(z(i)) \in Seq(B)
    BY <1>6, <2>1
  <2>. HIDE DEF a, z, R, At
  <2>7. CASE a(i) <= L
    <3>1. z(i) \in D /\ i <= L /\ z(i) > i /\ i \in 1 .. L + 1
      BY <1>2, <2>1, <2>7
    <3>2. rank[z(i)] < rank[i]
      BY <1>2, <3>1
    <3>3. z(i) \in P
      BY <1>4, <3>1, <3>2
    <3>4. f[z(i)] = R(z(i)) \/ (loose /\ f[z(i)] = Append(R(z(i)), <<>>))
      BY <2>1, <3>3
    <3>5. f[i] = <<tok[i]>> \o f[z(i)]
      BY <1>3, <2>2, <2>3, <2>7
    <3>6. CASE f[z(i)] = R(z(i))
      BY <2>5, <2>7, <3>5, <3>6
    <3>7. CASE loose /\ f[z(i)] = Append(R(z(i)), <<>>)
      <4>1. <<tok[i]>> \o Append(R(z(i)), <<>>) = Append(<<tok[i]>> \o R(z(i)), <<>>)
        <5>1. R(z(i)) \in Seq(B) /\ tok[i] \in B /\ <<>> \in B
          BY <2>4, <2>5, <2>6, <2>7, <3>1
        <5>. QED  BY <5>1, InFront, Zenon
      <4>2. f[i] = Append(R(i), <<>>)
        BY <2>5, <2>7, <3>5, <3>7, <4>1, Zenon
      <4>. QED  BY <3>1, <3>7, <4>2
    <3>. QED  BY <3>4, <3>6, <3>7
  <2>8. CASE a(i) > L
    <3>1. R(i) = <<>>
      BY <2>4, <2>8
    <3>2. CASE tok[i] = NoToken
      <4>1. f[i] = <<>>
        BY <1>3, <3>2
      <4>. QED  BY <3>1, <4>1
    <3>3. CASE tok[i] # NoToken
      <4>1. loose /\ i <= L /\ tok[i] = <<>> /\ nx[i] = L + 1
        BY <2>3, <2>8, <3>3
      <4>2. L + 1 \in D /\ rank[L + 1] < rank[i]
        BY <1>2, <4>1
      <4>3. L + 1 \in P
        BY <1>4, <4>2
      <4>4. At(L + 1) /\ ~ (L + 1 <= L)
        BY <1>2 DEF At, Between
      <4>5. f[L + 1] = R(L + 1)
        BY <4>3, <4>4
      <4>6. R(L + 1) = <<>>
        <5>1. a(L + 1) \in L + 1 .. L + 1
          BY <4>2, CallIs DEF a
        <5>2. a(L + 1) > L
          BY <1>2, <5>1
        <5>. QED  BY <1>6, <4>2, <4>4, <5>2
      <4>7. f[i] = <<tok[i]>> \o f[nx[i]]
        BY <1>3, <3>3
      <4>8. f[i] = Append(<<>>, <<>>)
        <5>1. <<<<>>>> \o <<>> = Append(<<>>, <<>>)
          OBVIOUS
        <5>. QED  BY <4>1, <4>5, <4>6, <4>7, <5>1, Zenon
      <4>. QED  BY <3>1, <4>1, <4>8
    <3>. QED  BY <3>2, <3>3
  <2>9. a(i) <= L \/ a(i) > L
    BY <1>2, <2>1
  <2>. QED  BY <2>7, <2>8, <2>9
<1>. HIDE DEF P, rank, D
<1>5. D \subseteq P
  BY <1>2, <1>4, RankInduction
<1>. QED  BY <1>5 DEF P, D

\* The string given, and the index at i.
Reading(str, i) == [currentIndex |-> i, ogString |-> str]

\* TokString, from the reset, is the string with the index at its start.
LEMMA ReadingIs ==
  ASSUME NEW C, NEW str \in Seq(C)
  PROVE  /\ TokString(TokReset, str) = Reading(str, 1)
         /\ \A i : [TokString(TokReset, str) EXCEPT !.currentIndex = i] = Reading(str, i)
<1>1. SubSeq(<<>>, Len(str) + 1, Len(<<>>)) = <<>>
  OBVIOUS
<1>2. str \o <<>> = str
  OBVIOUS
<1>3. TokReset.ogString = <<>> /\ TokReset = [currentIndex |-> 1, ogString |-> <<>>]
  BY DEF TokReset
<1>4. TokString(TokReset, str) = [TokReset EXCEPT !.ogString = str]
  BY <1>1, <1>2, <1>3 DEF TokString
<1>5. TokString(TokReset, str) = Reading(str, 1)
  BY <1>3, <1>4 DEF Reading
<1>. QED  BY <1>5 DEF Reading

\* What a call of strtok answers, and where it goes on.
UserToken(str, i) == strtok(Reading(str, i), Delimiter).token
UserNext(str, i) == strtok(Reading(str, i), Delimiter).t.currentIndex

\* A call of the user library's strtok: the next word, or NULL.
LEMMA UserCall ==
  ASSUME NEW C, NEW str \in Seq(C), NEW i
  PROVE  /\ Word1(str, Delimiter, i) > Len(str) => UserToken(str, i) = NoToken
         /\ ~ (Word1(str, Delimiter, i) > Len(str)) =>
              /\ UserToken(str, i) = SubSeq(str, Word1(str, Delimiter, i), Word2(str, Delimiter, i) - 1)
              /\ UserNext(str, i) = Word2(str, Delimiter, i)
<1>. DEFINE r == Reading(str, i)
            a == SkipWhile(r.ogString, r.currentIndex, Delimiter, TRUE)
            z == SkipWhile(r.ogString, a, Delimiter, FALSE)
            s == IF a > Len(r.ogString) THEN [token |-> NoToken, t |-> [r EXCEPT !.currentIndex = a]]
                 ELSE [token |-> SubSeq(r.ogString, a, z - 1), t |-> [r EXCEPT !.currentIndex = z]]
<1>1. strtok(r, Delimiter) = s
  BY Zenon DEF strtok
<1>2. r.ogString = str /\ r.currentIndex = i /\ \A n : [r EXCEPT !.currentIndex = n].currentIndex = n
  BY DEF Reading
<1>3. a = Word1(str, Delimiter, i) /\ z = Word2(str, Delimiter, i)
  BY <1>2, Zenon DEF Word1, Word2
<1>. HIDE DEF r, a, z
<1>4. /\ a > Len(str) => s.token = NoToken
      /\ ~ (a > Len(str)) => s.token = SubSeq(str, a, z - 1) /\ s.t.currentIndex = z
  BY <1>2
<1>. HIDE DEF s
<1>. QED  BY <1>1, <1>3, <1>4 DEF UserToken, UserNext, r

\* What Tokens is defined by.
IsUserTokens(f, str) ==
  f = [i \in 1 .. Len(str) + 1 |->
         LET call == strtok([TokString(TokReset, str) EXCEPT !.currentIndex = i], Delimiter)
         IN IF call.token = NoToken THEN <<>> ELSE <<call.token>> \o f[call.t.currentIndex]]

\* The user library's strtok answers the words, then NULL.
LEMMA TokensCut ==
  ASSUME NEW C, "null" \notin C, NEW str \in Seq(C)
  PROVE  Tokens(str) = Words(str, Delimiter)
<1>. DEFINE L == Len(str)
            D == 1 .. L + 1
            tok == [i \in D |-> UserToken(str, i)]
            nx == [i \in D |-> UserNext(str, i)]
            from == CHOOSE f : IsUserTokens(f, str)
<1>1. L \in Nat /\ \A i \in D : Word1(str, Delimiter, i) \in i .. L + 1
  <2>1. \A i \in D : Word1(str, Delimiter, i) \in i .. L + 1
    BY CallIs
  <2>. QED  BY <2>1
<1>2. Calls(str, Delimiter, tok, nx, FALSE)
  <2>1. ASSUME NEW i \in D
        PROVE  /\ Word1(str, Delimiter, i) <= L =>
                    /\ tok[i] = SubSeq(str, Word1(str, Delimiter, i), Word2(str, Delimiter, i) - 1)
                    /\ nx[i] = Word2(str, Delimiter, i)
               /\ Word1(str, Delimiter, i) > L => tok[i] = NoToken
    <3>1. Word1(str, Delimiter, i) <= L => ~ (Word1(str, Delimiter, i) > L)
      BY <1>1
    <3>2. tok[i] = UserToken(str, i) /\ nx[i] = UserNext(str, i)
      OBVIOUS
    <3>. HIDE DEF tok, nx, D
    <3>. QED  BY <3>1, <3>2, UserCall
  <2>. HIDE DEF tok, nx
  <2>. QED  BY <2>1 DEF Calls
<1>3. ASSUME NEW f PROVE IsUserTokens(f, str) <=> IsTokens(f, tok, nx, L)
  <2>1. \A i \in D : (LET call == strtok([TokString(TokReset, str) EXCEPT !.currentIndex = i], Delimiter)
                     IN IF call.token = NoToken THEN <<>> ELSE <<call.token>> \o f[call.t.currentIndex])
                   = IF tok[i] = NoToken THEN <<>> ELSE <<tok[i]>> \o f[nx[i]]
    <3>1. \A i : strtok([TokString(TokReset, str) EXCEPT !.currentIndex = i], Delimiter) = strtok(Reading(str, i), Delimiter)
      BY ReadingIs, Zenon
    <3>2. \A i \in D : tok[i] = strtok(Reading(str, i), Delimiter).token
                    /\ nx[i] = strtok(Reading(str, i), Delimiter).t.currentIndex
      BY DEF UserToken, UserNext
    <3>. HIDE DEF tok, nx, D
    <3>. QED  BY <3>1, <3>2, Zenon
  <2>. HIDE DEF tok, nx
  <2>. QED  BY <2>1, Zenon DEF IsUserTokens, IsTokens
<1>4. ASSUME NEW i \in D, tok[i] # NoToken PROVE tok[i] \in Seq(C) /\ nx[i] \in i + 1 .. L + 1
  <2>. HIDE DEF tok, nx
  <2>. QED  BY <1>2, <1>4, CallsGoOn
<1>. HIDE DEF tok, nx
<1>5. \E g : IsTokens(g, tok, nx, L)
  BY <1>1, <1>4, TokensExist
<1>6. IsUserTokens(from, str)
  BY <1>3, <1>5
<1>7. Tokens(str) = from[TokString(TokReset, str).currentIndex]
  BY Zenon DEF Tokens, IsUserTokens
<1>. HIDE DEF from
<1>8. TokString(TokReset, str).currentIndex = 1
  BY ReadingIs DEF Reading
<1>9. 1 \in D /\ Between(str, Delimiter, 1)
  BY <1>1 DEF Between
<1>10. IsTokens(from, tok, nx, L)
  BY <1>3, <1>6
<1>11. from[1] = Rest(str, Delimiter, 1)
  BY <1>2, <1>9, <1>10, TokensAreWords
<1>12. Rest(str, Delimiter, 1) = Words(str, Delimiter)
  BY RestIs
<1>. QED  BY <1>7, <1>8, <1>11, <1>12

-----------------------------------------------------------------------------
KernelToken(str, i, first) == Kernel!strtok(Reading(str, i), Delimiter, first).token
KernelNext(str, i, first) == Kernel!strtok(Reading(str, i), Delimiter, first).t.currentIndex

\* A call of the kernel's strtok: NULL only where the string was used up before the call.
LEMMA KernelCall ==
  ASSUME NEW C, NEW str \in Seq(C), NEW i, NEW first \in BOOLEAN
  PROVE  /\ ~ first /\ i > Len(str) => KernelToken(str, i, first) = NoToken
         /\ ~ (~ first /\ i > Len(str)) =>
              /\ KernelToken(str, i, first) = SubSeq(str, Word1(str, Delimiter, i), Word2(str, Delimiter, i) - 1)
              /\ KernelNext(str, i, first) = Word2(str, Delimiter, i)
<1>. DEFINE r == Reading(str, i)
            a == SkipWhile(r.ogString, r.currentIndex, Delimiter, TRUE)
            z == SkipWhile(r.ogString, a, Delimiter, FALSE)
            s == IF ~ first /\ r.currentIndex > Len(r.ogString) THEN [token |-> NoToken, t |-> r]
                 ELSE [token |-> SubSeq(r.ogString, a, z - 1), t |-> [r EXCEPT !.currentIndex = z]]
<1>0. /\ \A str_1, i_1, d_1, same_1 : Kernel!User!SkipWhile(str_1, i_1, d_1, same_1) = SkipWhile(str_1, i_1, d_1, same_1)
      /\ Kernel!User!NoToken = NoToken
  BY Zenon DEF SkipWhile, Kernel!User!SkipWhile, NoToken, Kernel!User!NoToken
<1>1. Kernel!strtok(r, Delimiter, first) = s
  BY <1>0, Zenon DEF Kernel!strtok
<1>2. r.ogString = str /\ r.currentIndex = i /\ \A n : [r EXCEPT !.currentIndex = n].currentIndex = n
  BY DEF Reading
<1>3. a = Word1(str, Delimiter, i) /\ z = Word2(str, Delimiter, i)
  BY <1>2, Zenon DEF Word1, Word2
<1>. HIDE DEF r, a, z
<1>4. /\ ~ first /\ i > Len(str) => s.token = NoToken
      /\ ~ (~ first /\ i > Len(str)) => s.token = SubSeq(str, a, z - 1) /\ s.t.currentIndex = z
  BY <1>2
<1>. HIDE DEF s
<1>. QED  BY <1>1, <1>3, <1>4 DEF KernelToken, KernelNext, r

\* What KernelTokens is defined by.
IsKernelTokens(f, str) ==
  f = [i \in 1 .. Len(str) + 1 |->
         LET call == Kernel!strtok([TokString(TokReset, str) EXCEPT !.currentIndex = i], Delimiter, FALSE)
         IN IF call.token = NoToken THEN <<>> ELSE <<call.token>> \o f[call.t.currentIndex]]

\* The kernel's strtok answers the words, perhaps with an empty token after them.
LEMMA KernelTokensCut ==
  ASSUME NEW C, "null" \notin C, NEW str \in Seq(C)
  PROVE  KernelTokens(str) \in {Words(str, Delimiter), Append(Words(str, Delimiter), <<>>)}
<1>. DEFINE L == Len(str)
            D == 1 .. L + 1
            tok == [i \in D |-> KernelToken(str, i, FALSE)]
            nx == [i \in D |-> KernelNext(str, i, FALSE)]
            from == CHOOSE f : IsKernelTokens(f, str)
            a(i) == Word1(str, Delimiter, i)
            z(i) == Word2(str, Delimiter, i)
            R(i) == Rest(str, Delimiter, i)
<1>1. L \in Nat /\ \A i \in D : /\ i \in Nat /\ a(i) \in Nat /\ z(i) \in Nat /\ i <= a(i) /\ a(i) <= z(i) /\ z(i) <= L + 1
                               /\ i >= 1 /\ (a(i) > L => a(i) = L + 1 /\ z(i) = L + 1)
  <2>1. L \in Nat
    OBVIOUS
  <2>2. ASSUME NEW i \in D
        PROVE  /\ i \in Nat /\ a(i) \in Nat /\ z(i) \in Nat /\ i <= a(i) /\ a(i) <= z(i) /\ z(i) <= L + 1
               /\ i >= 1 /\ (a(i) > L => a(i) = L + 1 /\ z(i) = L + 1)
    <3>1. /\ a(i) \in i .. L + 1 /\ z(i) \in a(i) .. L + 1
          /\ a(i) > L => a(i) = L + 1 /\ z(i) = L + 1
      BY CallIs
    <3>2. i \in Nat /\ i >= 1
      BY <2>1
    <3>. HIDE DEF a, z, L
    <3>3. a(i) \in Nat /\ i <= a(i) /\ a(i) <= L + 1
      BY <2>1, <3>1, <3>2
    <3>. QED  BY <2>1, <3>1, <3>2, <3>3
  <2>. QED  BY <2>1, <2>2, Zenon
<1>0. SubSeq(str, L + 1, L) = <<>> /\ (L + 1) - 1 = L
  OBVIOUS
<1>. HIDE DEF a, z, R
<1>2. Calls(str, Delimiter, tok, nx, TRUE)
  <2>1. ASSUME NEW i \in D
        PROVE  /\ a(i) <= L => tok[i] = SubSeq(str, a(i), z(i) - 1) /\ nx[i] = z(i)
               /\ a(i) > L => \/ tok[i] = NoToken
                              \/ TRUE /\ i <= L /\ tok[i] = <<>> /\ nx[i] = L + 1
    <3>1. /\ i > L => tok[i] = NoToken
          /\ ~ (i > L) => tok[i] = SubSeq(str, a(i), z(i) - 1) /\ nx[i] = z(i)
      <4>1. tok[i] = KernelToken(str, i, FALSE) /\ nx[i] = KernelNext(str, i, FALSE)
        OBVIOUS
      <4>. HIDE DEF tok, nx
      <4>. QED  BY <4>1, KernelCall DEF a, z
    <3>2. (a(i) <= L => ~ (i > L)) /\ (i > L \/ i <= L) /\ ~ (i > L /\ i <= L)
      BY <1>1
    <3>3. a(i) > L => SubSeq(str, a(i), z(i) - 1) = <<>> /\ z(i) = L + 1
      BY <1>0, <1>1
    <3>. HIDE DEF a, z, tok, nx, D, L
    <3>. QED  BY <3>1, <3>2, <3>3
  <2>. HIDE DEF tok, nx
  <2>. QED  BY <2>1, Zenon DEF Calls, a, z
<1>3. ASSUME NEW f PROVE IsKernelTokens(f, str) <=> IsTokens(f, tok, nx, L)
  <2>1. \A i \in D : (LET call == Kernel!strtok([TokString(TokReset, str) EXCEPT !.currentIndex = i], Delimiter, FALSE)
                     IN IF call.token = NoToken THEN <<>> ELSE <<call.token>> \o f[call.t.currentIndex])
                   = IF tok[i] = NoToken THEN <<>> ELSE <<tok[i]>> \o f[nx[i]]
    <3>1. \A i : Kernel!strtok([TokString(TokReset, str) EXCEPT !.currentIndex = i], Delimiter, FALSE)
                   = Kernel!strtok(Reading(str, i), Delimiter, FALSE)
      BY ReadingIs, Zenon
    <3>2. \A i \in D : tok[i] = Kernel!strtok(Reading(str, i), Delimiter, FALSE).token
                    /\ nx[i] = Kernel!strtok(Reading(str, i), Delimiter, FALSE).t.currentIndex
      BY DEF KernelToken, KernelNext
    <3>. HIDE DEF tok, nx, D
    <3>. QED  BY <3>1, <3>2, Zenon
  <2>. HIDE DEF tok, nx
  <2>. QED  BY <2>1, Zenon DEF IsKernelTokens, IsTokens
<1>4. ASSUME NEW i \in D, tok[i] # NoToken PROVE tok[i] \in Seq(C) /\ nx[i] \in i + 1 .. L + 1
  <2>. HIDE DEF tok, nx
  <2>. QED  BY <1>2, <1>4, CallsGoOn
<1>. HIDE DEF tok, nx
<1>5. \E g : IsTokens(g, tok, nx, L)
  BY <1>1, <1>4, TokensExist
<1>6. IsKernelTokens(from, str) /\ IsTokens(from, tok, nx, L)
  BY <1>3, <1>5
<1>7. KernelTokens(str) = <<Kernel!strtok(TokString(TokReset, str), Delimiter, TRUE).token>>
                            \o from[Kernel!strtok(TokString(TokReset, str), Delimiter, TRUE).t.currentIndex]
  BY Zenon DEF KernelTokens, IsKernelTokens
<1>. HIDE DEF from
<1>8. KernelTokens(str) = <<SubSeq(str, a(1), z(1) - 1)>> \o from[z(1)]
  <2>1. TokString(TokReset, str) = Reading(str, 1)
    BY ReadingIs
  <2>2. KernelTokens(str) = <<KernelToken(str, 1, TRUE)>> \o from[KernelNext(str, 1, TRUE)]
    BY <1>7, <2>1 DEF KernelToken, KernelNext
  <2>3. KernelToken(str, 1, TRUE) = SubSeq(str, a(1), z(1) - 1) /\ KernelNext(str, 1, TRUE) = z(1)
    BY KernelCall DEF a, z
  <2>. QED  BY <2>2, <2>3
<1>9. 1 \in D /\ Between(str, Delimiter, 1) /\ z(1) \in D /\ Between(str, Delimiter, z(1))
  <2>1. 1 \in D /\ Between(str, Delimiter, 1)
    BY <1>1 DEF Between
  <2>2. Between(str, Delimiter, z(1))
    BY <2>1, CallIs DEF z
  <2>3. z(1) \in Nat /\ a(1) \in Nat /\ 1 <= a(1) /\ a(1) <= z(1) /\ z(1) <= L + 1
    BY <1>1, <2>1, Zenon
  <2>4. z(1) \in D
    BY <1>1, <2>3
  <2>. QED  BY <2>1, <2>2, <2>4
<1>10. PICK B : /\ Seq(C) \subseteq B /\ Words(str, Delimiter) \in Seq(B) /\ R(1) = Words(str, Delimiter)
                /\ CutInto(str, Delimiter, B)
  BY RestIs DEF R
<1>11. \A i \in D : Between(str, Delimiter, i) =>
         /\ R(i) \in Seq(B)
         /\ a(i) > L => R(i) = <<>>
         /\ a(i) <= L => /\ SubSeq(str, a(i), z(i) - 1) \in B
                         /\ R(i) = <<SubSeq(str, a(i), z(i) - 1)>> \o R(z(i))
  BY <1>10, Zenon DEF CutInto, a, z, R
<1>12. from[z(1)] = R(z(1)) \/ (z(1) <= L /\ from[z(1)] = Append(R(z(1)), <<>>))
  BY <1>2, <1>6, <1>9, TokensAreWords DEF R
<1>13. <<>> \in B
  <2>1. <<>> \in Seq(C)
    OBVIOUS
  <2>. QED  BY <1>10, <2>1
<1>14. a(1) > L => z(1) = L + 1 /\ ~ (z(1) <= L) /\ a(1) = L + 1
  BY <1>1, <1>9
<1>15. a(1) > L \/ a(1) <= L
  BY <1>1, <1>9
<1>16. a(L + 1) > L /\ L + 1 \in D
  <2>1. L + 1 \in D
    BY <1>1
  <2>2. a(L + 1) \in Nat /\ L + 1 <= a(L + 1)
    BY <1>1, <2>1, Zenon
  <2>. QED  BY <1>1, <2>1, <2>2
<1>. HIDE DEF D, L
<1>17. CASE a(1) <= L
  <2>. DEFINE w == SubSeq(str, a(1), z(1) - 1)
  <2>1. w \in B /\ R(1) = <<w>> \o R(z(1)) /\ R(z(1)) \in Seq(B)
    BY <1>9, <1>11, <1>17
  <2>. HIDE DEF w
  <2>2. CASE from[z(1)] = R(z(1))
    <3>1. KernelTokens(str) = R(1)
      BY <1>8, <2>1, <2>2 DEF w
    <3>. QED  BY <1>10, <3>1
  <2>3. CASE from[z(1)] = Append(R(z(1)), <<>>)
    <3>1. <<w>> \o Append(R(z(1)), <<>>) = Append(<<w>> \o R(z(1)), <<>>)
      BY <1>13, <2>1, InFront, Zenon
    <3>2. KernelTokens(str) = Append(R(1), <<>>)
      BY <1>8, <2>1, <2>3, <3>1, Zenon DEF w
    <3>. QED  BY <1>10, <3>2
  <2>. QED  BY <1>12, <2>2, <2>3
<1>18. CASE a(1) > L
  <2>1. R(1) = <<>> /\ from[L + 1] = R(L + 1) /\ R(L + 1) = <<>>
    BY <1>9, <1>11, <1>12, <1>14, <1>16, <1>18
  <2>2. KernelTokens(str) = <<<<>>>> \o <<>>
    BY <1>0, <1>8, <1>14, <1>18, <2>1 DEF L
  <2>3. <<<<>>>> \o <<>> = Append(<<>>, <<>>)
    OBVIOUS
  <2>4. KernelTokens(str) = Append(R(1), <<>>)
    BY <2>1, <2>2, <2>3, Zenon
  <2>. QED  BY <1>10, <2>4
<1>. QED  BY <1>15, <1>17, <1>18

-----------------------------------------------------------------------------
\* What the runs check of a line holds of every line.
LEMMA LinesHold ==
  ASSUME NEW C, "null" \notin C, line \in Seq(C)
  PROVE  LinesAreCut
<1>1. Tokens(line) = Words(line, Delimiter)
  BY TokensCut
<1>2. KernelTokens(line) \in {Words(line, Delimiter), Append(Words(line, Delimiter), <<>>)}
  BY KernelTokensCut
<1>3. ASSUME isNum(line), "." \notin Range(line) PROVE strToInt(line) = strToDouble(line).num
  <2>1. PICK s \in Seq(Decimal), o \in 0 .. 1 : Signed(line, s, o)
    BY <1>3, NumberIsSigned
  <2>. DEFINE v == IF o = 1 THEN -Extended(0, s, 10) ELSE Extended(0, s, 10)
  <2>2. strToInt(line) = v /\ strToDouble(line) = [num |-> v, places |-> 0]
    BY <2>1, SignedRead
  <2>. HIDE DEF v
  <2>. QED  BY <2>2
<1>. QED  BY <1>1, <1>2, <1>3, Zenon DEF LinesAreCut

\* The conversions of both libraries agree: for every number that is written and every
\* line that is typed.
THEOREM ConversionsHold == ConversionsSpec => []ConversionsAgree
<1>1. ConversionsInit => ConversionsAgree
  <2>1. CASE number \in Numbers /\ base \in Bases /\ line = <<>>
    <3>1. number \in Nat /\ base \in 2 .. 16
      BY <2>1, ConversionsAssumption
    <3>2. line \in Seq(Letters) /\ "null" \notin Letters
      BY <2>1, ConversionsAssumption
    <3>. QED  BY <3>1, <3>2, NumbersHold, LinesHold DEF ConversionsAgree
  <2>2. CASE number = 0 /\ base = 10 /\ line \in BoundedSeq(Letters, MaxLine)
    <3>1. number \in Nat /\ base \in 2 .. 16
      BY <2>2
    <3>2. line \in Seq(Letters) /\ "null" \notin Letters
      <4>1. ASSUME NEW n \in 0 .. MaxLine, line \in [1 .. n -> Letters] PROVE line \in Seq(Letters)
        BY <4>1
      <4>2. \E n \in 0 .. MaxLine : line \in [1 .. n -> Letters]
        BY <2>2, ConversionsAssumption DEF BoundedSeq, SeqOf
      <4>. QED  BY <4>1, <4>2, ConversionsAssumption
    <3>. QED  BY <3>1, <3>2, NumbersHold, LinesHold DEF ConversionsAgree
  <2>. QED  BY <2>1, <2>2 DEF ConversionsInit
<1>2. ConversionsAgree /\ [FALSE]_conversionsVars => ConversionsAgree'
  BY DEF conversionsVars, ConversionsAgree, NumbersRoundTrip, LinesAreCut
<1>. QED  BY <1>1, <1>2, PTL DEF ConversionsSpec

-----------------------------------------------------------------------------
(***************************************************************************)
(* The shell.                                                              *)
(***************************************************************************)

\* Prompt reads numbers with the same library as the shell: strToInt, ...
LEMMA SameInt ==
  ASSUME NEW s
  PROVE ThePrompt!strToInt(s) = strToInt(s)
BY Zenon DEF ThePrompt!strToInt, strToInt, ThePrompt!Decimal, Decimal, ThePrompt!Digit, Digit,
     ThePrompt!DigitValue, DigitValue, ThePrompt!LowerDigit, LowerDigit, ThePrompt!FoldRight,
     FoldRight, ThePrompt!MapThenFoldSet, MapThenFoldSet, ThePrompt!Min, Min

\* ... strToHex, ...
LEMMA SameHex ==
  ASSUME NEW s
  PROVE ThePrompt!strToHex(s) = strToHex(s)
BY Zenon DEF ThePrompt!strToHex, strToHex, ThePrompt!IsHex, IsHex, ThePrompt!Digit, Digit,
     ThePrompt!DigitValue, DigitValue, ThePrompt!LowerDigit, LowerDigit, ThePrompt!pow, pow,
     ThePrompt!Range, Range, ThePrompt!FoldLeftDomain, FoldLeftDomain, ThePrompt!FoldLeft, FoldLeft,
     ThePrompt!MapThenFoldSet, MapThenFoldSet, ThePrompt!Max, Max

\* ... and has the same commands.
LEMMA SameCommands ==
  /\ \A w : ThePrompt!IsCommand(w) <=> IsCommand(w)
  /\ \A argv : ThePrompt!Run(argv) = Run(argv)
<1>1. \A argv : ThePrompt!commandsData(argv) = commandsData(argv)
  BY SameInt, SameHex, Zenon DEF ThePrompt!help, help, ThePrompt!inforeg, inforeg, ThePrompt!time,
       time, ThePrompt!cpuInfo, cpuInfo, ThePrompt!cpuTemp, cpuTemp, ThePrompt!checkZeroException,
       checkZeroException, ThePrompt!checkInvalidOpcodeException, checkInvalidOpcodeException,
       ThePrompt!loop, loop, ThePrompt!cat, cat, ThePrompt!wc, wc, ThePrompt!filter, filter,
       ThePrompt!ps, ps, ThePrompt!mem, mem, ThePrompt!sem, sem, ThePrompt!pipe, pipe,
       ThePrompt!testPriority, testPriority, ThePrompt!testScheduler, testScheduler,
       ThePrompt!showArgs, showArgs, ThePrompt!printmem, printmem, ThePrompt!kill, kill,
       ThePrompt!niceProcess, niceProcess, ThePrompt!block, block, ThePrompt!unblock, unblock,
       ThePrompt!strcopy, strcopy, ThePrompt!changeUsername, changeUsername, ThePrompt!commandsData,
       commandsData, ThePrompt!Alone, Alone, ThePrompt!WrongArguments, WrongArguments,
       ThePrompt!Asks, Asks
<1>. QED  BY <1>1, Zenon DEF ThePrompt!Run, Run, ThePrompt!IsCommand, IsCommand,
     ThePrompt!CommandNames, CommandNames

\* changeUsername is the only command that renames, and to a word of the line or nothing.
LEMMA RenameIs ==
  ASSUME NEW argv, NEW C, argv \in Seq(Seq(C)), argv # <<>>, IsCommand(argv[1]), Run(argv).call = "rename"
  PROVE  Run(argv).name \in Seq(C)
<1>. DEFINE name == argv[1][1]
            data == commandsData(argv)
<1>1. name \in CommandNames /\ Run(argv) = data[name]
  BY DEF IsCommand, Run
<1>2. DOMAIN data = CommandNames
  BY DEF commandsData, CommandNames
<1>3. \A call : Alone(argv, call).call \in {"none", call.call}
  BY DEF Alone, WrongArguments
<1>4. \A n : Asks(n).call = n
  BY DEF Asks
<1>5. name # "changeUsername" => data[name].call # "rename"
  <2>1. /\ help(argv).call # "rename" /\ inforeg(argv).call # "rename" /\ time(argv).call # "rename"
        /\ cpuInfo(argv).call # "rename" /\ cpuTemp(argv).call # "rename"
        /\ checkZeroException(argv).call # "rename" /\ checkInvalidOpcodeException(argv).call # "rename"
        /\ loop(argv).call # "rename" /\ cat(argv).call # "rename"
        /\ wc(argv).call # "rename" /\ filter(argv).call # "rename"
    <3>1. \A n : n # "rename" => Alone(argv, Asks(n)).call # "rename"
      BY <1>3, <1>4
    <3>2. /\ "print" # "rename" /\ "INFOREG" # "rename" /\ "RTC_TIME" # "rename" /\ "cpuVendor" # "rename"
          /\ "TEMP" # "rename" /\ "exception 0" # "rename" /\ "exception 6" # "rename" /\ "loop" # "rename"
          /\ "cat" # "rename" /\ "wc" # "rename" /\ "filter" # "rename"
      OBVIOUS
    <3>. QED  BY <3>1, <3>2, Zenon DEF help, inforeg, time, cpuInfo, cpuTemp, checkZeroException,
                               checkInvalidOpcodeException, loop, cat, wc, filter
  <2>2. /\ ps(argv).call # "rename" /\ mem(argv).call # "rename" /\ sem(argv).call # "rename"
        /\ pipe(argv).call # "rename" /\ testPriority(argv).call # "rename"
        /\ testScheduler(argv).call # "rename" /\ showArgs(argv).call # "rename"
        /\ Asks("testMem").call # "rename" /\ Asks("testSync").call # "rename"
        /\ Asks("testNoSync").call # "rename" /\ Asks("philosopherProblem").call # "rename"
    BY <1>4 DEF ps, mem, sem, pipe, testPriority, testScheduler, showArgs
  <2>3. /\ printmem(argv).call # "rename" /\ kill(argv).call # "rename" /\ niceProcess(argv).call # "rename"
        /\ block(argv).call # "rename" /\ unblock(argv).call # "rename"
    BY DEF printmem, kill, niceProcess, block, unblock, WrongArguments
  <2>. QED  BY <1>1, <1>2, <2>1, <2>2, <2>3 DEF commandsData
<1>6. data.changeUsername = changeUsername(argv)
  BY DEF commandsData
<1>7. name = "changeUsername"
  BY <1>1, <1>5
<1>8. changeUsername(argv).call = "rename" /\ Run(argv).name = changeUsername(argv).name
  BY <1>1, <1>6, <1>7
<1>9. Len(argv) = 2 /\ changeUsername(argv).name = strcopy(argv[2], <<>>)
  BY <1>8 DEF changeUsername, WrongArguments
<1>10. argv[2] \in Seq(C) /\ <<>> \in Seq(C)
  <2>. DEFINE D == Seq(C)
  <2>1. argv \in Seq(D)
    OBVIOUS
  <2>2. 2 \in 1 .. Len(argv)
    BY <1>9
  <2>. HIDE DEF D, data, name
  <2>3. argv[2] \in D
    BY <2>1, <2>2
  <2>. QED  BY <2>3 DEF D
<1>. QED  BY <1>8, <1>9, <1>10 DEF strcopy

(***************************************************************************)
(* The line that is typed.                                                 *)
(***************************************************************************)
Typed == UNION Keyboards
Characters == Typed \cup {NUL, INDEX_BYTE, "U"}

ShellInv ==
  /\ keyboard \in Keyboards /\ index \in 0 .. BUFFER_SIZE
  /\ buffer \in [1 .. BUFFER_SIZE -> Typed \cup {NUL}]
  /\ \A i \in 1 .. BUFFER_SIZE : buffer[i] # NUL <=> i <= index
  /\ username \in Seq(Characters)

Line == SubSeq(buffer, 1, index)

\* What is in the buffer is a line.
LEMMA LineOf ==
  ASSUME NEW b \in [1 .. BUFFER_SIZE -> Typed \cup {NUL}], NEW n \in 0 .. BUFFER_SIZE,
         \A i \in 1 .. BUFFER_SIZE : b[i] # NUL <=> i <= n
  PROVE  /\ SubSeq(b, 1, n) \in Seq(Typed) /\ Len(SubSeq(b, 1, n)) = n
         /\ \A i \in 1 .. n : SubSeq(b, 1, n)[i] = b[i]
<1>1. BUFFER_SIZE \in Nat /\ n \in Nat /\ n <= BUFFER_SIZE
  BY ShellAssumption
<1>2. b \in Seq(Typed \cup {NUL}) /\ Len(b) = BUFFER_SIZE
  BY <1>1
<1>3. \A i \in 1 .. n : b[i] \in Typed
  BY <1>1
<1>4. SubSeq(b, 1, n) = [i \in 1 .. n |-> b[i]]
  BY <1>1, <1>2
<1>. QED  BY <1>1, <1>3, <1>4

\* What the typed keys make of the line and of the index.
LEMMA LineIs ==
  ASSUME ShellInv
  PROVE  /\ Line \in Seq(Typed) /\ Len(Line) = index
         /\ \A i \in 1 .. index : Line[i] = buffer[i]
BY LineOf DEF ShellInv, Line

\* The memory at the buffer has an end, which is that of the line unless the buffer is full.
LEMMA MemoryIs ==
  ASSUME ShellInv
  PROVE  \E L \in Nat : /\ LineAt(Characters, Memory, " ", L)
                        /\ index < BUFFER_SIZE => L = index /\ SubSeq(Memory, 1, L) = Line
<1>1. BUFFER_SIZE \in Nat /\ index \in Nat /\ index <= BUFFER_SIZE
  BY ShellAssumption DEF ShellInv
<1>2. /\ buffer \in Seq(Characters) /\ Len(buffer) = BUFFER_SIZE /\ username \in Seq(Characters)
      /\ DOMAIN buffer = 1 .. BUFFER_SIZE
  BY <1>1 DEF ShellInv, Characters
<1>. DEFINE byte == IF index = BUFFER_SIZE THEN INDEX_BYTE ELSE NUL
            front == buffer \o <<byte>> \o username
            N == Len(front) + 1
<1>3. <<byte>> \in Seq(Characters) /\ <<NUL>> \in Seq(Characters) /\ byte \in Characters /\ NUL \in Characters
  BY DEF Characters
<1>4. buffer \o <<byte>> \in Seq(Characters) /\ Len(buffer \o <<byte>>) = BUFFER_SIZE + 1
      /\ (buffer \o <<byte>>)[BUFFER_SIZE + 1] = byte
      /\ \A i \in 1 .. BUFFER_SIZE : (buffer \o <<byte>>)[i] = buffer[i]
  BY <1>1, <1>2, <1>3
<1>5. front \in Seq(Characters) /\ Len(front) = BUFFER_SIZE + 1 + Len(username) /\ Len(username) \in Nat
      /\ \A i \in 1 .. BUFFER_SIZE + 1 : front[i] = (buffer \o <<byte>>)[i]
  BY <1>1, <1>2, <1>4
<1>6. Memory = front \o <<NUL>>
  BY DEF Memory
<1>. HIDE DEF front, byte
<1>7. /\ Memory \in Seq(Characters) /\ Len(Memory) = N /\ N \in Nat /\ N > BUFFER_SIZE + 1 /\ Memory[N] = NUL
      /\ DOMAIN Memory = 1 .. N
      /\ \A i \in 1 .. BUFFER_SIZE : Memory[i] = buffer[i]
      /\ Memory[BUFFER_SIZE + 1] = byte
  <2>1. Len(front) \in Nat /\ Len(front) >= BUFFER_SIZE + 1
    BY <1>1, <1>5
  <2>2. Memory \in Seq(Characters) /\ Len(Memory) = Len(front) + 1 /\ Memory[Len(front) + 1] = NUL
        /\ \A i \in 1 .. Len(front) : Memory[i] = front[i]
    BY <1>3, <1>5, <1>6, <2>1
  <2>3. \A i \in 1 .. BUFFER_SIZE + 1 : Memory[i] = front[i]
    BY <1>1, <2>1, <2>2
  <2>4. N \in Nat /\ N = Len(front) + 1 /\ N > BUFFER_SIZE + 1
    BY <1>1, <1>5, <2>1
  <2>5. BUFFER_SIZE + 1 \in 1 .. BUFFER_SIZE + 1 /\ \A i \in 1 .. BUFFER_SIZE : i \in 1 .. BUFFER_SIZE + 1
    BY <1>1
  <2>. HIDE DEF N
  <2>6. \A i \in 1 .. BUFFER_SIZE : Memory[i] = buffer[i]
    BY <1>4, <1>5, <2>3, <2>5
  <2>7. Memory[BUFFER_SIZE + 1] = byte
    BY <1>4, <1>5, <2>3, <2>5
  <2>8. DOMAIN Memory = 1 .. N
    BY <2>2, <2>4
  <2>. QED  BY <2>2, <2>4, <2>6, <2>7, <2>8
<1>. HIDE DEF N
<1>8. " " # NUL
  BY DEF NUL
<1>9. CASE index < BUFFER_SIZE
  <2>1. Memory[index + 1] = NUL
    <3>1. index + 1 \in 1 .. BUFFER_SIZE
      BY <1>1, <1>9
    <3>. QED  BY <1>1, <1>7, <3>1 DEF ShellInv
  <2>2. \A i \in 1 .. index : Memory[i] = buffer[i] /\ Memory[i] # NUL
    BY <1>1, <1>7 DEF ShellInv
  <2>3. SubSeq(Memory, 1, index) = Line
    <3>1. SubSeq(Memory, 1, index) = [i \in 1 .. index |-> Memory[i]]
      BY <1>1, <1>7
    <3>2. Line = [i \in 1 .. index |-> buffer[i]]
      BY <1>1, <1>2 DEF Line
    <3>. QED  BY <2>2, <3>1, <3>2
  <2>4. index + 1 \in DOMAIN Memory
    BY <1>1, <1>7
  <2>5. LineAt(Characters, Memory, " ", index)
    BY <1>1, <1>3, <1>7, <1>8, <2>1, <2>2, <2>4 DEF LineAt
  <2>. QED  BY <1>1, <2>3, <2>5
<1>10. CASE ~ (index < BUFFER_SIZE)
  <2>. DEFINE Z == {i \in 1 .. N : Memory[i] = NUL}
  <2>1. N \in Z /\ Z \in SUBSET Nat
    BY <1>1, <1>7
  <2>2. PICK z \in Z : \A i \in Z : z <= i
    BY <2>1, LeastNatural
  <2>3. z - 1 \in Nat /\ (z - 1) + 1 = z /\ z \in DOMAIN Memory /\ Memory[z] = NUL
    BY <1>7, <2>2
  <2>4. ASSUME NEW k \in 1 .. z - 1 PROVE Memory[k] # NUL
    <3>1. k \in 1 .. N /\ ~ (z <= k)
      BY <1>7, <2>2
    <3>. QED  BY <2>2, <3>1
  <2>5. LineAt(Characters, Memory, " ", z - 1)
    BY <1>3, <1>7, <1>8, <2>3, <2>4 DEF LineAt
  <2>. QED  BY <1>10, <2>3, <2>5
<1>. QED  BY <1>9, <1>10

\* What processCommand finds in the memory are words, and those of the line.
LEMMA ArgvIs ==
  ASSUME ShellInv
  PROVE  LET argv == tokenizeBuffer(" ", Memory, MAX_ARGS) IN
         /\ argv \in Seq(Seq(Characters) \ {<<>>})
         /\ index < BUFFER_SIZE => argv = ThePrompt!WordsRead(Line)
<1>1. PICK L \in Nat : /\ LineAt(Characters, Memory, " ", L)
                       /\ index < BUFFER_SIZE => L = index /\ SubSeq(Memory, 1, L) = Line
  BY MemoryIs
<1>2. MAX_ARGS \in Nat /\ MAX_ARGS >= 1
  BY ShellAssumption
<1>. DEFINE words == Words(SubSeq(Memory, 1, L), " ")
            argv == tokenizeBuffer(" ", Memory, MAX_ARGS)
<1>3. FirstWords(argv, Characters, SubSeq(Memory, 1, L), " ", MAX_ARGS)
  BY <1>1, <1>2, TokenizedWords, Zenon
<1>4. \A s : ThePrompt!Words(s, " ") = Words(s, " ")
  BY Zenon DEF ThePrompt!Words, Words, ThePrompt!Word, Word, ThePrompt!Start, Start, ThePrompt!Starts, Starts,
           ThePrompt!End, End, ThePrompt!Cardinality, Cardinality
<1>. QED  BY <1>1, <1>3, <1>4 DEF ThePrompt!WordsRead, FirstWords

\* What is on each side of a place of a sequence.
LEMMA SidesOf ==
  ASSUME NEW W, NEW s \in Seq(W), NEW b \in 1 .. Len(s)
  PROVE  /\ SubSeq(s, 1, b - 1) \in Seq(W) /\ SubSeq(s, b + 1, Len(s)) \in Seq(W)
         /\ SubSeq(s, 1, b - 1) = <<>> <=> b = 1
         /\ SubSeq(s, b + 1, Len(s)) = <<>> <=> b = Len(s)
         /\ b # 1 => SubSeq(s, 1, b - 1)[1] = s[1]
         /\ b # Len(s) => SubSeq(s, b + 1, Len(s))[1] = s[b + 1]
<1>. DEFINE left == SubSeq(s, 1, b - 1)
            right == SubSeq(s, b + 1, Len(s))
<1>1. left \in Seq(W) /\ Len(left) = b - 1 /\ \A i \in 1 .. b - 1 : left[i] = s[i]
  OBVIOUS
<1>2. right \in Seq(W) /\ Len(right) = Len(s) - b /\ \A i \in 1 .. Len(s) - b : right[i] = s[b + i]
  OBVIOUS
<1>3. \A t \in Seq(W) : t = <<>> <=> Len(t) = 0
  OBVIOUS
<1>. HIDE DEF left, right
<1>4. b # 1 => 1 \in 1 .. b - 1
  OBVIOUS
<1>5. b # Len(s) => 1 \in 1 .. Len(s) - b
  OBVIOUS
<1>6. (left = <<>> <=> b = 1) /\ (right = <<>> <=> b = Len(s))
  BY <1>1, <1>2, <1>3
<1>. QED  BY <1>1, <1>2, <1>4, <1>5, <1>6 DEF left, right

\* findPipe answers the place of the first "|".
LEMMA PipeIs ==
  ASSUME NEW W, NEW argv \in Seq(W)
  PROVE  LET bars == {i \in DOMAIN argv : argv[i] = <<"|">>}
             bar == CHOOSE i \in bars : \A j \in bars : i <= j
         IN /\ findPipe(argv) = IF bars # {} THEN bar ELSE 0
            /\ bars # {} => bar \in 1 .. Len(argv)
            /\ findPipe(argv) # 0 => findPipe(argv) \in 1 .. Len(argv)
<1>. DEFINE bars == {i \in DOMAIN argv : argv[i] = <<"|">>}
            bar == CHOOSE i \in bars : \A j \in bars : i <= j
<1>1. Len(argv) \in Nat /\ DOMAIN argv = 1 .. Len(argv)
  OBVIOUS
<1>2. findPipe(argv) = IF bars # {} THEN bar ELSE 0
  <2>1. bars = {i \in 1 .. Len(argv) : stringcmp(argv[i], <<"|">>) = 0}
    <3>1. \A w : stringcmp(w, <<"|">>) = 0 <=> w = <<"|">>
      BY DEF stringcmp
    <3>. QED  BY <1>1, <3>1
  <2>2. findPipe(argv) = LET I == {i \in 1 .. Len(argv) : stringcmp(argv[i], <<"|">>) = 0}
                         IN IF I # {} THEN Min(I) ELSE 0
    BY Zenon DEF findPipe, SelectInSeq
  <2>. QED  BY <2>1, <2>2, Zenon DEF Min
<1>3. bars # {} => bar \in 1 .. Len(argv)
  <2>1. bars \in SUBSET Nat
    BY <1>1
  <2>. HIDE DEF bars
  <2>2. bars # {} => bar \in bars
    BY <2>1, LeastNatural
  <2>. QED  BY <1>1, <2>2 DEF bars
<1>. QED
  <2>. HIDE DEF bars, bar
  <2>1. findPipe(argv) # 0 => findPipe(argv) \in 1 .. Len(argv)
    BY <1>2, <1>3
  <2>. QED  BY <1>2, <1>3, <2>1 DEF bars, bar

\* What comes of the words is what the prompt says may come of them.
LEMMA OutcomesAre ==
  ASSUME NEW W, NEW argv \in Seq(W), argv # <<>>
  PROVE  LET bar == findPipe(argv) IN
         ThePrompt!Outcomes(argv) = IF bar \in {1, Len(argv)} THEN {invalid}
                                    ELSE IF bar # 0 THEN runPipe(bar, argv)
                                    ELSE createdProcess(argv)
<1>. DEFINE bars == {i \in DOMAIN argv : argv[i] = <<"|">>}
            bar == CHOOSE i \in bars : \A j \in bars : i <= j
<1>1. Len(argv) \in Nat /\ Len(argv) >= 1 /\ DOMAIN argv = 1 .. Len(argv) /\ \A i \in DOMAIN argv : argv[i] \in W
  OBVIOUS
<1>2. findPipe(argv) = IF bars # {} THEN bar ELSE 0
  BY PipeIs, Zenon
<1>3. bars # {} => bar \in 1 .. Len(argv)
  BY PipeIs, Zenon
<1>4. ThePrompt!Outcomes(argv) =
        IF bars = {} THEN ThePrompt!OneProgram(argv)
        ELSE ThePrompt!TwoPrograms(SubSeq(argv, 1, bar - 1), SubSeq(argv, bar + 1, Len(argv)))
  BY Zenon DEF ThePrompt!Outcomes
<1>5. ThePrompt!OneProgram(argv) = createdProcess(argv)
  <2>. DEFINE bg == argv[Len(argv)][1] = "&"
              args == IF bg THEN SubSeq(argv, 1, Len(argv) - 1) ELSE argv
  <2>1. ThePrompt!InBackground(argv) = bg /\ ThePrompt!Front(argv) = SubSeq(argv, 1, Len(argv) - 1)
    BY DEF ThePrompt!InBackground, ThePrompt!Front
  <2>2. IsCommand(argv[1]) => args # <<>>
    <3>. SUFFICES ASSUME IsCommand(argv[1]), args = <<>> PROVE FALSE
      OBVIOUS
    <3>1. Len(argv) = 1 /\ bg
      <4>1. bg
        OBVIOUS
      <4>2. Len(argv) \in 1 .. Len(argv)
        BY <1>1
      <4>3. SubSeq(argv, 1, Len(argv) - 1) = <<>>
        BY <4>1
      <4>. QED  BY <4>1, <4>2, <4>3, SidesOf
    <3>2. "&" \in CommandNames
      BY <3>1 DEF IsCommand
    <3>. QED  BY <3>2 DEF CommandNames, commandsData
  <2>3. ThePrompt!OneProgram(argv) =
          IF args = <<>> \/ ~ IsCommand(argv[1]) THEN {invalid}
          ELSE {denied, [kind |-> "program", fg |-> ~ bg, argv |-> args, does |-> Run(args)]}
    BY <2>1, SameCommands DEF ThePrompt!OneProgram, ThePrompt!Refused, ThePrompt!Denied, invalid, denied
  <2>4. createdProcess(argv) =
          IF getCommandIdx(argv[1]) = 0 THEN {invalid}
          ELSE {denied, [kind |-> "program", fg |-> ~ bg, argv |-> args, does |-> Run(args)]}
    BY DEF createdProcess
  <2>. HIDE DEF bg, args
  <2>. QED  BY <2>2, <2>3, <2>4 DEF getCommandIdx
<1>6. CASE bars = {}
  BY <1>1, <1>2, <1>4, <1>5, <1>6
<1>7. CASE bars # {}
  <2>1. PICK b \in 1 .. Len(argv) : b = bar /\ b = findPipe(argv)
    BY <1>2, <1>3, <1>7
  <2>. DEFINE left == SubSeq(argv, 1, b - 1)
              right == SubSeq(argv, b + 1, Len(argv))
  <2>2. ThePrompt!Outcomes(argv) = ThePrompt!TwoPrograms(left, right)
    BY <1>4, <1>7, <2>1
  <2>3. (left = <<>> <=> b = 1) /\ (right = <<>> <=> b = Len(argv))
    BY SidesOf
  <2>4. CASE b \in {1, Len(argv)}
    BY <2>1, <2>2, <2>3, <2>4 DEF ThePrompt!TwoPrograms, ThePrompt!Refused, invalid
  <2>5. CASE b \notin {1, Len(argv)}
    <3>1. left # <<>> /\ right # <<>> /\ b # 0
      BY <2>3, <2>5
    <3>. DEFINE rightAlone(why) == [kind |-> "rightAlone", why |-> why, right |-> Run(right)]
                both == [kind |-> "pipeline", left |-> Run(left), right |-> Run(right)]
    <3>2. runPipe(b, argv) =
            {denied} \cup (IF getCommandIdx(right[1]) = 0 THEN {invalid}
                           ELSE IF getCommandIdx(left[1]) = 0 THEN {rightAlone("name")}
                           ELSE {rightAlone("memory"), both})
      BY Zenon DEF runPipe
    <3>. HIDE DEF left, right
    <3>3. ThePrompt!TwoPrograms(left, right) =
            IF ~ IsCommand(right[1]) THEN {denied, invalid}
            ELSE IF ~ IsCommand(left[1]) THEN {denied, rightAlone("name")}
            ELSE {denied, rightAlone("memory"), both}
      BY <3>1, SameCommands, Zenon DEF ThePrompt!TwoPrograms, ThePrompt!Refused, ThePrompt!Denied, invalid, denied
    <3>. HIDE DEF rightAlone, both
    <3>4. ThePrompt!TwoPrograms(left, right) = runPipe(b, argv)
      BY <3>2, <3>3 DEF getCommandIdx
    <3>. QED  BY <2>1, <2>2, <2>5, <3>1, <3>4
  <2>. QED  BY <2>4, <2>5
<1>. QED  BY <1>6, <1>7

\* A program started with words of the memory gives the user a name of its characters.
LEMMA NameOfProgram ==
  ASSUME NEW C, NEW args \in Seq(Seq(C) \ {<<>>}), args # <<>>, IsCommand(args[1]), Run(args).call = "rename"
  PROVE  Run(args).name \in Seq(C)
<1>1. args \in Seq(Seq(C))
  <2>. DEFINE W == Seq(C) \ {<<>>}
  <2>1. \A i \in 1 .. Len(args) : args[i] \in W
    <3>1. args \in Seq(W)
      OBVIOUS
    <3>. HIDE DEF W
    <3>. QED  BY <3>1
  <2>2. \A i \in 1 .. Len(args) : args[i] \in Seq(C)
    BY <2>1
  <2>. QED  BY <2>2, SeqMonotonic
<1>. QED  BY <1>1, RenameIs

\* What a name that is changed becomes has characters of the memory.
LEMMA AskedName ==
  ASSUME ShellInv, NEW a \in processCommand, NEW p \in Started(a), p.call = "rename"
  PROVE  p.name \in Seq(Characters)
<1>. DEFINE argv == tokenizeBuffer(" ", Memory, MAX_ARGS)
            W == Seq(Characters) \ {<<>>}
<1>1. argv \in Seq(W)
  BY ArgvIs, Zenon
<1>2. a \in IF argv = <<>> THEN {invalid, [kind |-> "fault"]}
            ELSE IF findPipe(argv) \in {1, Len(argv)} THEN {invalid}
            ELSE IF findPipe(argv) # 0 THEN runPipe(findPipe(argv), argv)
            ELSE createdProcess(argv)
  BY Zenon DEF processCommand
<1>. HIDE DEF argv
<1>3. a.kind \in {"program", "pipeline", "rightAlone"}
  BY DEF Started
<1>4. a # invalid /\ a # [kind |-> "fault"] /\ a # denied
  BY <1>3 DEF invalid, denied
<1>5. argv # <<>> /\ findPipe(argv) \notin {1, Len(argv)}
  BY <1>2, <1>4
<1>6. Len(argv) \in Nat /\ Len(argv) >= 1
  <2>. HIDE DEF W
  <2>. QED  BY <1>1, <1>5
<1>7. CASE findPipe(argv) = 0
  <2>. DEFINE bg == argv[Len(argv)][1] = "&"
              args == IF bg THEN SubSeq(argv, 1, Len(argv) - 1) ELSE argv
  <2>1. a \in createdProcess(argv)
    BY <1>2, <1>5, <1>7
  <2>2. IsCommand(argv[1]) /\ a = [kind |-> "program", fg |-> ~ bg, argv |-> args, does |-> Run(args)]
    <3>1. createdProcess(argv) =
            IF getCommandIdx(argv[1]) = 0 THEN {invalid}
            ELSE {denied, [kind |-> "program", fg |-> ~ bg, argv |-> args, does |-> Run(args)]}
      BY Zenon DEF createdProcess
    <3>. HIDE DEF bg, args
    <3>. QED  BY <1>4, <2>1, <3>1 DEF getCommandIdx
  <2>3. p = Run(args)
    <3>. HIDE DEF bg, args
    <3>1. a.kind = "program" /\ a.does = Run(args)
      BY <2>2
    <3>. QED  BY <3>1 DEF Started
  <2>4. args \in Seq(W) /\ args # <<>> /\ args[1] = argv[1]
    <3>1. CASE bg
      <4>1. Len(argv) # 1
        <5>. SUFFICES ASSUME Len(argv) = 1 PROVE FALSE
          OBVIOUS
        <5>1. "&" \in CommandNames
          BY <2>2, <3>1 DEF IsCommand
        <5>. QED  BY <5>1 DEF CommandNames, commandsData
      <4>2. args = SubSeq(argv, 1, Len(argv) - 1)
        BY <3>1
      <4>3. Len(argv) \in 1 .. Len(argv)
        BY <1>6
      <4>. HIDE DEF args, W
      <4>. QED  BY <1>1, <4>1, <4>2, <4>3, SidesOf
    <3>2. CASE ~ bg
      <4>1. args = argv
        BY <3>2
      <4>. HIDE DEF args, W
      <4>. QED  BY <1>1, <1>5, <4>1
    <3>. QED  BY <3>1, <3>2
  <2>. HIDE DEF args
  <2>. QED  BY <2>2, <2>3, <2>4, NameOfProgram
<1>8. CASE findPipe(argv) # 0
  <2>1. PICK b \in 1 .. Len(argv) : b = findPipe(argv) /\ b \notin {1, Len(argv)}
    BY <1>1, <1>5, <1>6, <1>8, PipeIs
  <2>. DEFINE left == SubSeq(argv, 1, b - 1)
              right == SubSeq(argv, b + 1, Len(argv))
              rightAlone(why) == [kind |-> "rightAlone", why |-> why, right |-> Run(right)]
              both == [kind |-> "pipeline", left |-> Run(left), right |-> Run(right)]
  <2>2. left \in Seq(W) /\ right \in Seq(W) /\ left # <<>> /\ right # <<>>
    <3>. HIDE DEF W
    <3>. QED  BY <1>1, <2>1, SidesOf
  <2>3. runPipe(b, argv) =
          {denied} \cup (IF getCommandIdx(right[1]) = 0 THEN {invalid}
                         ELSE IF getCommandIdx(left[1]) = 0 THEN {rightAlone("name")}
                         ELSE {rightAlone("memory"), both})
    BY Zenon DEF runPipe
  <2>4. a \in runPipe(b, argv)
    BY <1>2, <1>5, <1>8, <2>1
  <2>. HIDE DEF left, right, W, rightAlone, both
  <2>5. /\ IsCommand(right[1])
        /\ \/ \E why : a = rightAlone(why)
           \/ a = both /\ IsCommand(left[1])
    BY <1>4, <2>3, <2>4 DEF getCommandIdx
  <2>6. ASSUME NEW why, a = rightAlone(why) PROVE p = Run(right)
    <3>1. a.kind = "rightAlone" /\ a.right = Run(right)
      BY <2>6 DEF rightAlone
    <3>. QED  BY <3>1 DEF Started
  <2>7. ASSUME a = both PROVE p \in {Run(left), Run(right)}
    <3>1. a.kind = "pipeline" /\ a.left = Run(left) /\ a.right = Run(right)
      BY <2>7 DEF both
    <3>. QED  BY <3>1 DEF Started
  <2>8. p = Run(right) \/ (p = Run(left) /\ IsCommand(left[1]))
    BY <2>5, <2>6, <2>7
  <2>. QED  BY <2>2, <2>5, <2>8, NameOfProgram DEF W
<1>. QED  BY <1>7, <1>8

\* One step per key.
LEMMA ShellInvStep ==
  ASSUME ShellInv, [ShellNext]_shellVars
  PROVE  ShellInv'
<1>1. BUFFER_SIZE \in Nat /\ NUL \notin Typed
  BY ShellAssumption DEF Typed
<1>2. /\ keyboard \in Keyboards /\ index \in 0 .. BUFFER_SIZE
      /\ buffer \in [1 .. BUFFER_SIZE -> Typed \cup {NUL}]
      /\ \A i \in 1 .. BUFFER_SIZE : buffer[i] # NUL <=> i <= index
      /\ username \in Seq(Characters)
  BY DEF ShellInv
<1>3. ASSUME NEW c \in keyboard, TypeSymbol(c) PROVE ShellInv'
  <2>1. c \in Typed /\ index < BUFFER_SIZE
    BY <1>2, <1>3 DEF Typed, TypeSymbol
  <2>2. /\ buffer' = [buffer EXCEPT ![index + 1] = c] /\ index' = index + 1
        /\ username' = username /\ keyboard' = keyboard
    BY <1>3 DEF TypeSymbol
  <2>3. index' \in 0 .. BUFFER_SIZE /\ buffer' \in [1 .. BUFFER_SIZE -> Typed \cup {NUL}]
    BY <1>1, <1>2, <2>1, <2>2
  <2>4. ASSUME NEW i \in 1 .. BUFFER_SIZE PROVE buffer'[i] # NUL <=> i <= index'
    <3>1. CASE i = index + 1
      BY <1>1, <1>2, <2>1, <2>2, <3>1
    <3>2. CASE i # index + 1
      BY <1>1, <1>2, <2>1, <2>2, <3>2
    <3>. QED  BY <3>1, <3>2
  <2>. QED  BY <1>2, <2>2, <2>3, <2>4 DEF ShellInv
<1>4. CASE TypeBackspace
  <2>1. index > 0 /\ buffer' = [buffer EXCEPT ![index] = NUL] /\ index' = index - 1
        /\ username' = username /\ keyboard' = keyboard
    BY <1>4 DEF TypeBackspace
  <2>2. index' \in 0 .. BUFFER_SIZE /\ buffer' \in [1 .. BUFFER_SIZE -> Typed \cup {NUL}]
    BY <1>1, <1>2, <2>1
  <2>3. ASSUME NEW i \in 1 .. BUFFER_SIZE PROVE buffer'[i] # NUL <=> i <= index'
    <3>1. CASE i = index
      BY <1>1, <1>2, <2>1, <3>1
    <3>2. CASE i # index
      BY <1>1, <1>2, <2>1, <3>2
    <3>. QED  BY <3>1, <3>2
  <2>. QED  BY <1>2, <2>1, <2>2, <2>3 DEF ShellInv
<1>5. ASSUME Cleaned, keyboard' = keyboard, username' \in Seq(Characters) PROVE ShellInv'
  <2>1. index' = 0 /\ buffer' = [i \in 1 .. BUFFER_SIZE |-> NUL]
    BY <1>5 DEF Cleaned, cleanBuffer
  <2>2. \A i \in 1 .. BUFFER_SIZE : buffer'[i] = NUL /\ ~ (i <= 0)
    BY <2>1
  <2>3. index' \in 0 .. BUFFER_SIZE /\ buffer' \in [1 .. BUFFER_SIZE -> Typed \cup {NUL}]
    BY <1>1, <2>1
  <2>. QED  BY <1>2, <1>5, <2>1, <2>2, <2>3 DEF ShellInv
<1>6. CASE TypeClear
  BY <1>2, <1>5, <1>6 DEF TypeClear
<1>7. CASE TypeNewline
  <2>1. Cleaned /\ keyboard' = keyboard /\ asked' \in processCommand
        /\ username' \in IF NewNames(asked') = {} THEN {username} ELSE NewNames(asked')
    BY <1>7 DEF TypeNewline
  <2>2. PICK a \in processCommand : a = asked'
    BY <2>1
  <2>3. NewNames(a) \subseteq Seq(Characters)
    BY AskedName, Zenon DEF NewNames
  <2>4. username' \in Seq(Characters)
    <3>1. username' \in IF NewNames(a) = {} THEN {username} ELSE NewNames(a)
      BY <2>1, <2>2
    <3>. QED  BY <1>2, <2>3, <3>1
  <2>. QED  BY <1>5, <2>1, <2>4
<1>8. CASE UNCHANGED shellVars
  BY <1>2, <1>8 DEF shellVars, ShellInv
<1>. QED  BY <1>3, <1>4, <1>6, <1>7, <1>8 DEF ShellNext

\* The shell starts within its invariant.
LEMMA ShellInvInit == ShellInit => ShellInv
<1>. SUFFICES ASSUME ShellInit PROVE ShellInv
  OBVIOUS
<1>1. BUFFER_SIZE \in Nat
  BY ShellAssumption
<1>2. /\ keyboard \in Keyboards /\ index = 0 /\ buffer = [i \in 1 .. BUFFER_SIZE |-> NUL]
      /\ username \in {USER, <<>>}
  BY DEF ShellInit, ShellStart, cleanBuffer, strcopy
<1>3. USER \in Seq(Characters) /\ <<>> \in Seq(Characters)
  <2>1. "U" \in Characters
    BY DEF Characters
  <2>. QED  BY <2>1 DEF USER
<1>4. \A i \in 1 .. BUFFER_SIZE : buffer[i] = NUL /\ ~ (i <= 0)
  BY <1>2
<1>5. buffer \in [1 .. BUFFER_SIZE -> Typed \cup {NUL}] /\ index \in 0 .. BUFFER_SIZE
  BY <1>1, <1>2
<1>. QED  BY <1>2, <1>3, <1>4, <1>5 DEF ShellInv

\* Each key is one of the prompt's.
LEMMA PromptStep ==
  ASSUME ShellInv, ShellInv', [ShellNext]_shellVars
  PROVE  [ThePrompt!PromptNext]_ThePrompt!promptVars
<1>1. BUFFER_SIZE \in Nat /\ index \in Nat /\ index <= BUFFER_SIZE
  BY ShellAssumption DEF ShellInv
<1>2. Line \in Seq(Typed) /\ Len(Line) = index /\ \A i \in 1 .. index : Line[i] = buffer[i]
  BY LineIs
<1>3. Line' \in Seq(Typed) /\ Len(Line') = index' /\ \A i \in 1 .. index' : Line'[i] = buffer'[i]
  BY LineOf DEF ShellInv, Line
<1>4. buffer \in [1 .. BUFFER_SIZE -> Typed \cup {NUL}] /\ keyboard \in Keyboards
  BY DEF ShellInv
<1>5. ASSUME NEW c \in keyboard, TypeSymbol(c) PROVE ThePrompt!Type(c) /\ c \in Typed
  <2>1. /\ index < BUFFER_SIZE /\ buffer' = [buffer EXCEPT ![index + 1] = c] /\ index' = index + 1
        /\ asked' = [kind |-> "nothing"]
    BY <1>5 DEF TypeSymbol
  <2>2. Line' = Append(Line, c)
    <3>1. \A i \in 1 .. index + 1 : Line'[i] = IF i = index + 1 THEN c ELSE Line[i]
      BY <1>1, <1>2, <1>3, <1>4, <2>1
    <3>2. c \in Typed
      BY <1>4 DEF Typed
    <3>3. /\ Append(Line, c) \in Seq(Typed) /\ Len(Append(Line, c)) = index + 1
          /\ \A i \in 1 .. index + 1 : Append(Line, c)[i] = IF i = index + 1 THEN c ELSE Line[i]
      BY <1>1, <1>2, <3>2
    <3>. HIDE DEF Line
    <3>. QED  BY <1>1, <1>3, <2>1, <3>1, <3>3
  <2>3. c \in Typed
    BY <1>4 DEF Typed
  <2>. QED  BY <1>1, <1>2, <2>1, <2>2, <2>3 DEF ThePrompt!Type, ThePrompt!Nothing, Line
<1>6. CASE TypeBackspace
  <2>1. index > 0 /\ buffer' = [buffer EXCEPT ![index] = NUL] /\ index' = index - 1
        /\ asked' = [kind |-> "nothing"]
    BY <1>6 DEF TypeBackspace
  <2>2. Line # <<>>
    BY <1>2, <2>1
  <2>3. Line' = SubSeq(Line, 1, Len(Line) - 1)
    <3>1. \A i \in 1 .. index - 1 : Line'[i] = Line[i]
      BY <1>1, <1>2, <1>3, <1>4, <2>1
    <3>2. /\ SubSeq(Line, 1, Len(Line) - 1) \in Seq(Typed) /\ Len(SubSeq(Line, 1, Len(Line) - 1)) = index - 1
          /\ \A i \in 1 .. index - 1 : SubSeq(Line, 1, Len(Line) - 1)[i] = Line[i]
      BY <1>1, <1>2, <2>1
    <3>. HIDE DEF Line
    <3>. QED  BY <1>1, <1>3, <2>1, <3>1, <3>2
  <2>. QED  BY <2>1, <2>2, <2>3 DEF ThePrompt!Erase, ThePrompt!Nothing, ThePrompt!Front, Line,
                ThePrompt!PromptNext
<1>7. Cleaned => Line' = <<>>
  BY <1>3 DEF Cleaned
<1>8. CASE TypeClear
  BY <1>7, <1>8 DEF TypeClear, ThePrompt!Clear, ThePrompt!Nothing, Line, ThePrompt!PromptNext
<1>9. CASE TypeNewline
  <2>. DEFINE argv == tokenizeBuffer(" ", Memory, MAX_ARGS)
              read == ThePrompt!WordsRead(Line)
  <2>1. Cleaned /\ asked' \in processCommand
    BY <1>9 DEF TypeNewline
  <2>2. argv \in Seq(Seq(Characters) \ {<<>>}) /\ (index < BUFFER_SIZE => argv = read)
    BY ArgvIs
  <2>3. asked' \in IF argv = <<>> THEN {invalid, [kind |-> "fault"]}
                   ELSE IF findPipe(argv) \in {1, Len(argv)} THEN {invalid}
                   ELSE IF findPipe(argv) # 0 THEN runPipe(findPipe(argv), argv)
                   ELSE createdProcess(argv)
    BY <2>1 DEF processCommand
  <2>. HIDE DEF argv, read
  <2>4. argv = <<>> => asked' \in {ThePrompt!Refused, ThePrompt!Fault}
    BY <2>3 DEF ThePrompt!Refused, ThePrompt!Fault, invalid
  <2>5. argv # <<>> => asked' \in ThePrompt!Outcomes(argv)
    BY <2>2, <2>3, OutcomesAre
  <2>6. Len(Line) < BUFFER_SIZE =>
          asked' \in IF read = <<>> THEN {ThePrompt!Refused, ThePrompt!Fault}
                     ELSE ThePrompt!Outcomes(read)
    BY <1>2, <2>2, <2>4, <2>5
  <2>. QED  BY <1>7, <2>1, <2>6 DEF ThePrompt!Enter, Line, read, ThePrompt!PromptNext
<1>10. CASE UNCHANGED shellVars
  BY <1>10 DEF shellVars, ThePrompt!promptVars
<1>11. (\E c \in keyboard : TypeSymbol(c)) => ThePrompt!PromptNext
  BY <1>5 DEF ThePrompt!PromptNext, Typed
<1>. QED  BY <1>6, <1>8, <1>9, <1>10, <1>11 DEF ShellNext

\* Whatever is typed, the index counts the characters before the first free place of the
\* buffer, and the name of the user is text: what no key may break.
THEOREM ShellTypes == ShellSpec => []ShellInv
BY ShellInvInit, ShellInvStep, PTL DEF ShellSpec

\* The buffer, the index and the words cut in place implement the line of Prompt: the shell
\* does what the words of the line ask for, whatever was typed and erased before, and starts
\* no program the line does not name, also where a pipeline cannot be started as a whole.
THEOREM ShellImplementsPrompt == ShellSpec => ImplementsPrompt
<1>1. ShellInit => ThePrompt!PromptInit
  <2>. SUFFICES ASSUME ShellInit PROVE ThePrompt!PromptInit
    OBVIOUS
  <2>1. Line \in Seq(Typed) /\ Len(Line) = 0 /\ asked = [kind |-> "nothing"]
    BY ShellInvInit, LineIs DEF ShellInit, ShellStart
  <2>2. Line = <<>>
    BY <2>1
  <2>. QED  BY <2>1, <2>2 DEF ThePrompt!PromptInit, ThePrompt!Nothing, Line
<1>2. ShellSpec => []ShellInv
  BY ShellInvInit, ShellInvStep, PTL DEF ShellSpec
<1>. QED  BY <1>1, <1>2, PromptStep, PTL DEF ShellSpec, ImplementsPrompt, ThePrompt!PromptSpec
=====================================================================================
