---------------------------- MODULE PipelineProofs ----------------------------
(***************************************************************************)
(* The streams of characters: the ring of the keyboard, then the rings of  *)
(* the pipes as the programs of a pipeline use them.                       *)
(*                                                                         *)
(* Keyboard: no key is stuck, read twice or out of order, for every size   *)
(* of the ring and any number of readers.                                  *)
(*                                                                         *)
(* Pipeline: a slot of the array belongs to the pipeline that opened it    *)
(* until its programs are dead, and what goes through it is a stream.  The *)
(* invariant has two halves.  Control says who may be in which call, and   *)
(* that no two slots share a semaphore; LinesOK and SlotsFlow then count,  *)
(* in each slot, the tokens of its two semaphores with those already given *)
(* to a process that has not run yet: they are the characters in the ring  *)
(* and the free places, BUFF_SIZE together.                                *)
(*                                                                         *)
(* From the keyboard to the screen: Carry relates the two histories.  What *)
(* the right program has read, and then what is in the slot, in the rest   *)
(* of the left program's write and in the shell's, is what the left one    *)
(* made of its keys.                                                       *)
(***************************************************************************)
EXTENDS Pipeline, SyncProofs, SequenceTheorems, FiniteSetTheorems

-----------------------------------------------------------------------------
(***************************************************************************)
(* The ring of staticQueue.c.                                              *)
(***************************************************************************)
\* The cell that follows one that is used, from the front and from the rear.
LEMMA NextCells ==
  ASSUME NEW front \in 0 .. dim - 1
  PROVE  LET At(i) == IF front + i < dim THEN front + i ELSE front + i - dim IN
         /\ At(0) = front
         /\ \A i \in 0 .. dim - 1 : At(i) \in 0 .. dim - 1
         /\ \A i \in 1 .. dim - 1 : NextRear(At(i - 1)) = At(i)
         /\ \A i, j \in 0 .. dim - 1 : At(i) = At(j) => i = j
         /\ NextFront(front) \in 0 .. dim - 1
         /\ \A i \in 0 .. dim - 2 :
              LET f == NextFront(front) IN (IF f + i < dim THEN f + i ELSE f + i - dim) = At(i + 1)
BY StaticQueueAssumption DEF NextRear, NextFront

\* The characters of a ring are a sequence as long as its size.
LEMMA ItemsSeq ==
  ASSUME NEW q, RingOK(q)
  PROVE  /\ Items(q) \in Seq(Char) /\ Len(Items(q)) = q.size
         /\ q.size \in 0 .. dim /\ q.front \in 0 .. dim - 1
         /\ \A i \in 1 .. q.size : Items(q)[i] = q.queue[Cell(q, i - 1)]
<1>1. /\ q.queue \in [0 .. dim - 1 -> Char] /\ q.size \in 0 .. dim /\ q.front \in 0 .. dim - 1
      /\ dim \in Nat \ {0}
  BY StaticQueueAssumption DEF RingOK, Ring
<1>2. \A i \in 1 .. q.size : Cell(q, i - 1) \in 0 .. dim - 1
  BY <1>1 DEF Cell
<1>3. Items(q) \in [1 .. q.size -> Char]
  BY <1>1, <1>2 DEF Items
<1>4. Items(q) \in Seq(Char) /\ Len(Items(q)) = q.size
  BY <1>1, <1>3
<1>. QED  BY <1>1, <1>4 DEF Items

\* An insertion into a ring that is not full adds the character at the end.
LEMMA InsertIsAppend ==
  ASSUME NEW q, NEW c \in Char, RingOK(q), ~ queueIsFull(q)
  PROVE  LET r == queueInsert(q, c) IN
         /\ RingOK(r) /\ r.size = q.size + 1
         /\ Items(r) = Append(Items(q), c)
<1>. DEFINE rear == NextRear(q.rear)  r == queueInsert(q, c)
<1>1. /\ q \in Ring /\ dim \in Nat \ {0} /\ q.queue \in [0 .. dim - 1 -> Char]
      /\ q.size \in 0 .. dim - 1 /\ q.front \in 0 .. dim - 1 /\ q.rear \in -1 .. dim - 1
  BY StaticQueueAssumption DEF RingOK, Ring, queueIsFull
<1>2. r = [queue |-> [q.queue EXCEPT ![rear] = c], front |-> q.front, rear |-> rear,
           size |-> q.size + 1]
  BY DEF queueInsert, Inserted
<1>3. rear \in 0 .. dim - 1 /\ rear = Cell(q, q.size)
  <2>1. CASE q.size = 0
    BY <1>1, <2>1, NextCells DEF RingOK, Cell
  <2>2. CASE q.size > 0
    <3>1. q.size \in 1 .. dim - 1 /\ q.size \in 0 .. dim - 1
      BY <1>1, <2>2
    <3>2. q.rear = Cell(q, q.size - 1)
      BY <2>2 DEF RingOK
    <3>3. NextRear(Cell(q, q.size - 1)) = Cell(q, q.size)
      <4>1. \A i \in 1 .. dim - 1 : NextRear(Cell(q, i - 1)) = Cell(q, i)
        BY <1>1, NextCells, Zenon DEF Cell
      <4>. QED  BY <3>1, <4>1
    <3>4. Cell(q, q.size) \in 0 .. dim - 1
      BY <1>1, <3>1, NextCells DEF Cell
    <3>. QED  BY <3>2, <3>3, <3>4
  <2>. QED  BY <1>1, <2>1, <2>2
<1>4. r \in Ring
  <2>1. [q.queue EXCEPT ![rear] = c] \in [0 .. dim - 1 -> Char] /\ q.size + 1 \in 0 .. dim
    BY <1>1, <1>3
  <2>. QED  BY <1>1, <1>2, <1>3, <2>1 DEF Ring
<1>5. \A i \in Nat : Cell(r, i) = Cell(q, i)
  BY <1>2 DEF Cell
<1>6. RingOK(r) /\ r.size = q.size + 1
  <2>1. r.size = q.size + 1 /\ r.rear = Cell(q, q.size) /\ q.size \in Nat
    BY <1>1, <1>2, <1>3
  <2>2. r.rear = Cell(r, r.size - 1) /\ r.size > 0
    BY <1>5, <2>1
  <2>. HIDE DEF r
  <2>. QED  BY <1>4, <2>1, <2>2 DEF RingOK
<1>7. /\ Items(q) \in Seq(Char) /\ Len(Items(q)) = q.size
      /\ Items(r) \in Seq(Char) /\ Len(Items(r)) = q.size + 1
      /\ \A i \in 1 .. q.size : Items(q)[i] = q.queue[Cell(q, i - 1)]
      /\ \A i \in 1 .. q.size + 1 : Items(r)[i] = r.queue[Cell(q, i - 1)]
  <2>1. \A i \in 1 .. q.size + 1 : i - 1 \in Nat
    BY <1>1
  <2>. QED  BY <1>5, <1>6, <2>1, ItemsSeq
<1>8. \A i \in 1 .. q.size : Cell(q, i - 1) \in 0 .. dim - 1 /\ Cell(q, i - 1) # rear
  BY <1>1, <1>3, SMTT(30) DEF Cell
<1>9. ASSUME NEW i \in 1 .. q.size + 1 PROVE Items(r)[i] = Append(Items(q), c)[i]
  <2>1. CASE i = q.size + 1
    <3>1. r.queue[rear] = c
      BY <1>1, <1>2, <1>3
    <3>2. i - 1 = q.size /\ Items(r)[i] = r.queue[Cell(q, i - 1)]
      BY <1>1, <1>7, <2>1
    <3>3. Append(Items(q), c)[i] = c
      BY <1>7, <2>1
    <3>. QED  BY <1>3, <3>1, <3>2, <3>3
  <2>2. CASE i # q.size + 1
    <3>1. i \in 1 .. q.size
      BY <1>1, <2>2
    <3>2. r.queue[Cell(q, i - 1)] = q.queue[Cell(q, i - 1)]
      BY <1>1, <1>2, <1>3, <1>8, <3>1
    <3>3. Append(Items(q), c)[i] = Items(q)[i]
      BY <1>7, <3>1
    <3>. QED  BY <1>7, <3>1, <3>2, <3>3
  <2>. QED  BY <2>1, <2>2
<1>10. Append(Items(q), c) \in Seq(Char) /\ Len(Append(Items(q), c)) = q.size + 1
  BY <1>7
<1>11. Items(r) = Append(Items(q), c)
  <2>. DEFINE a == Append(Items(q), c)  b == Items(r)  n == q.size + 1
  <2>1. /\ a \in Seq(Char) /\ b \in Seq(Char) /\ Len(a) = n /\ Len(b) = n
        /\ \A i \in 1 .. n : b[i] = a[i]
    BY <1>7, <1>9, <1>10
  <2>. HIDE DEF a, b, n
  <2>2. a = b
    BY <2>1
  <2>. QED  BY <2>2 DEF a, b
<1>. QED  BY <1>6, <1>11

\* A removal takes the first character.
LEMMA RemoveIsTail ==
  ASSUME NEW q, RingOK(q), ~ queueIsEmpty(q)
  PROVE  LET r == queueRemoveData(q) IN
         /\ RingOK(r) /\ r.size = q.size - 1
         /\ Items(q) # <<>> /\ Items(r) = Tail(Items(q)) /\ Removed(q) = Head(Items(q))
<1>. DEFINE r == queueRemoveData(q)
<1>1. /\ q \in Ring /\ dim \in Nat \ {0} /\ q.queue \in [0 .. dim - 1 -> Char]
      /\ q.size \in 1 .. dim /\ q.front \in 0 .. dim - 1 /\ q.rear \in -1 .. dim - 1
  BY StaticQueueAssumption DEF RingOK, Ring, queueIsEmpty
<1>2. r = [queue |-> q.queue, front |-> NextFront(q.front), rear |-> q.rear, size |-> q.size - 1]
  BY DEF queueRemoveData
<1>3. r \in Ring
  BY <1>1, <1>2 DEF Ring, NextFront
<1>4. \A i \in 0 .. q.size - 2 : Cell(r, i) = Cell(q, i + 1)
  <2>1. r.front = NextFront(q.front) /\ \A i \in 0 .. q.size - 2 : i \in 0 .. dim - 2
    BY <1>1, <1>2
  <2>2. \A i \in 0 .. dim - 2 : LET f == NextFront(q.front) IN
          (IF f + i < dim THEN f + i ELSE f + i - dim)
            = (IF q.front + (i + 1) < dim THEN q.front + (i + 1) ELSE q.front + (i + 1) - dim)
    BY <1>1, NextCells
  <2>3. \A i \in 0 .. dim - 2 : Cell(r, i) = Cell(q, i + 1)
    BY <2>1, <2>2 DEF Cell
  <2>. QED  BY <2>1, <2>3
<1>5. RingOK(r)
  <2>1. r.size = q.size - 1 /\ r.rear = q.rear /\ q.rear = Cell(q, q.size - 1)
        /\ r.front = NextFront(q.front)
    BY <1>1, <1>2 DEF RingOK
  <2>2. CASE q.size = 1
    <3>1. NextRear(q.rear) = NextFront(q.front)
      BY <1>1, <2>1, <2>2 DEF Cell, NextRear, NextFront
    <3>. HIDE DEF r
    <3>. QED  BY <1>3, <2>1, <2>2, <3>1 DEF RingOK
  <2>3. CASE q.size > 1
    <3>1. q.size - 2 \in 0 .. q.size - 2 /\ (q.size - 2) + 1 = q.size - 1
      BY <1>1, <2>3
    <3>2. r.rear = Cell(r, r.size - 1) /\ r.size > 0
      BY <1>1, <1>4, <2>1, <2>3, <3>1
    <3>. HIDE DEF r
    <3>. QED  BY <1>3, <2>1, <3>2 DEF RingOK
  <2>. QED  BY <1>1, <2>2, <2>3
<1>6. /\ Items(q) \in Seq(Char) /\ Len(Items(q)) = q.size
      /\ Items(r) \in Seq(Char) /\ Len(Items(r)) = q.size - 1
      /\ \A i \in 1 .. q.size : Items(q)[i] = q.queue[Cell(q, i - 1)]
      /\ \A i \in 1 .. q.size - 1 : Items(r)[i] = q.queue[Cell(r, i - 1)]
  <2>1. r.size = q.size - 1 /\ r.queue = q.queue
    BY <1>2
  <2>. QED  BY <1>5, <2>1, ItemsSeq
<1>7. Items(q) # <<>> /\ Tail(Items(q)) \in Seq(Char) /\ Len(Tail(Items(q))) = q.size - 1
      /\ Head(Items(q)) = Items(q)[1]
      /\ \A i \in 1 .. q.size - 1 : Tail(Items(q))[i] = Items(q)[i + 1]
  BY <1>1, <1>6
<1>8. ASSUME NEW i \in 1 .. q.size - 1 PROVE Items(r)[i] = Tail(Items(q))[i]
  <2>1. i - 1 \in 0 .. q.size - 2 /\ i + 1 \in 1 .. q.size /\ (i + 1) - 1 = (i - 1) + 1
    BY <1>1
  <2>. QED  BY <1>4, <1>6, <1>7, <2>1, SMTT(30)
<1>9. Removed(q) = Head(Items(q))
  <2>1. Cell(q, 1 - 1) = q.front
    BY <1>1 DEF Cell
  <2>. QED  BY <1>1, <1>6, <1>7, <2>1 DEF Removed, queueIsEmpty
<1>. QED  BY <1>2, <1>5, <1>6, <1>7, <1>8, <1>9

-----------------------------------------------------------------------------
(***************************************************************************)
(* The keyboard.  Besides the property itself the invariant says who is in *)
(* the line of the semaphore, so that a post can be followed to the reader *)
(* that it wakes.                                                          *)
(***************************************************************************)
theKeys == sync[KEY_SEM_ID]
Tokens  == theKeys.value + Cardinality(Woken)

LineOK ==
  /\ sync \in Semaphores /\ theKeys # NoSync
  /\ \A s \in SyncId \ {KEY_SEM_ID} : sync[s] = NoSync
  /\ getting \subseteq Reader
  /\ Distinct(theKeys.blockedPIDs) /\ Range(theKeys.blockedPIDs) \subseteq getting
  /\ theKeys.value > 0 => theKeys.blockedPIDs = <<>>

KeyInv ==
  /\ LineOK
  /\ shift \in {0, 1} /\ capsLock \in {0, 1} /\ lost \in BOOLEAN
  /\ KeysHaveTokens

\* Who sleeps is in that line.
LEMMA WokenAre ==
  ASSUME LineOK
  PROVE  /\ Woken = getting \ Range(theKeys.blockedPIDs)
         /\ IsFiniteSet(Woken) /\ Cardinality(Woken) \in Nat
         /\ theKeys \in Semaphore /\ theKeys.blockedPIDs \in Seq(Process)
         /\ theKeys.value \in Nat /\ Tokens \in Nat
<1>1. Woken = getting \ Range(theKeys.blockedPIDs)
  BY KeyboardAssumption DEF LineOK, Woken, Asleep, theKeys
<1>2. IsFiniteSet(Woken)
  BY <1>1, KeyboardAssumption, FS_Subset DEF LineOK
<1>3. theKeys \in Semaphore
  BY KeyboardAssumption DEF LineOK, theKeys, Semaphores
<1>4. theKeys.blockedPIDs \in Seq(Process) /\ theKeys.value \in Nat
  BY <1>3 DEF Semaphore
<1>5. Cardinality(Woken) \in Nat
  BY <1>2, FS_CardinalityType
<1>. QED  BY <1>1, <1>2, <1>3, <1>4, <1>5 DEF Tokens

\* The same, after a step.
LEMMA WokenAreNext ==
  ASSUME LineOK'
  PROVE  /\ Woken' = getting' \ Range(theKeys'.blockedPIDs)
         /\ IsFiniteSet(Woken') /\ Cardinality(Woken') \in Nat
<1>1. Woken' = getting' \ Range(theKeys'.blockedPIDs)
  BY KeyboardAssumption DEF LineOK, Woken, Asleep, theKeys
<1>2. IsFiniteSet(Woken')
  BY <1>1, KeyboardAssumption, FS_Subset DEF LineOK
<1>. QED  BY <1>1, <1>2, FS_CardinalityType

\* Every post is one token more: in the count, or with a reader that is awake.
LEMMA PostAddsToken ==
  ASSUME LineOK, sync' = AfterPost(sync, KEY_SEM_ID), getting' = getting
  PROVE  LineOK' /\ Tokens' = Tokens + 1
<1>. USE KeyboardAssumption
<1>. DEFINE w == theKeys.blockedPIDs
<1>1. /\ sync' \in Semaphores /\ theKeys' \in Semaphore
      /\ \A s \in SyncId \ {KEY_SEM_ID} : sync'[s] = NoSync
      /\ w = <<>> => theKeys'.value = theKeys.value + 1 /\ theKeys'.blockedPIDs = <<>>
      /\ w # <<>> => theKeys'.value = theKeys.value /\ theKeys'.blockedPIDs = Tail(w)
  BY AfterPostDoes DEF LineOK, theKeys
<1>2. theKeys' # NoSync
  BY <1>1, SyncAssumption
<1>3. CASE w = <<>>
  <2>1. Range(theKeys'.blockedPIDs) = {} /\ Range(w) = {} /\ Distinct(theKeys'.blockedPIDs)
    BY <1>1, <1>3 DEF Range, Distinct
  <2>2. LineOK'
    BY <1>1, <1>2, <1>3, <2>1 DEF LineOK
  <2>3. Woken' = Woken
    BY <2>1, <2>2, WokenAre, WokenAreNext
  <2>. QED  BY <1>1, <1>3, <2>2, <2>3, WokenAre DEF Tokens
<1>4. CASE w # <<>>
  <2>1. /\ Head(w) \in Range(w) /\ Range(Tail(w)) = Range(w) \ {Head(w)} /\ Distinct(Tail(w))
    BY <1>4, WokenAre, RangeTail DEF LineOK
  <2>2. theKeys.value = 0
    BY <1>4, WokenAre DEF LineOK
  <2>3. LineOK'
    BY <1>1, <1>2, <1>4, <2>1, <2>2 DEF LineOK
  <2>4. Woken' = Woken \cup {Head(w)} /\ Head(w) \notin Woken
    BY <1>1, <1>4, <2>1, <2>3, WokenAre, WokenAreNext DEF LineOK
  <2>5. Cardinality(Woken') = Cardinality(Woken) + 1
    BY <2>4, WokenAre, FS_AddElement
  <2>. QED  BY <1>1, <1>4, <2>3, <2>5, WokenAre DEF Tokens
<1>. QED  BY <1>3, <1>4

\* A reader that finds no token joins the line.
LEMMA SleepKeepsTokens ==
  ASSUME LineOK, NEW p \in Reader, p \notin getting, sync' = AfterWait(sync, KEY_SEM_ID, p),
         theKeys.value = 0, getting' = getting \cup {p}
  PROVE  LineOK' /\ Tokens' = Tokens
<1>. USE KeyboardAssumption
<1>. DEFINE w == theKeys.blockedPIDs
<1>1. /\ sync' \in Semaphores /\ theKeys' \in Semaphore
      /\ \A s \in SyncId \ {KEY_SEM_ID} : sync'[s] = NoSync
      /\ theKeys'.value = 0 /\ theKeys'.blockedPIDs = Append(w, p)
  BY AfterWaitDoes DEF LineOK, theKeys
<1>2. theKeys' # NoSync
  BY <1>1, SyncAssumption
<1>3. p \in Process /\ w \in Seq(Process) /\ p \notin Range(w)
  BY WokenAre DEF LineOK
<1>4. Range(Append(w, p)) = Range(w) \cup {p} /\ Distinct(Append(w, p))
  BY <1>3, RangeAppend, DistinctAppend DEF LineOK
<1>5. LineOK'
  BY <1>1, <1>2, <1>4 DEF LineOK
<1>6. Woken' = Woken
  BY <1>1, <1>4, <1>5, WokenAre, WokenAreNext
<1>. QED  BY <1>1, <1>5, <1>6 DEF Tokens

\* A reader that finds a token takes it.
LEMMA PassTakesToken ==
  ASSUME LineOK, NEW p \in Reader, sync' = AfterWait(sync, KEY_SEM_ID, p),
         theKeys.value # 0, getting' = getting
  PROVE  LineOK' /\ Tokens' = Tokens - 1 /\ Tokens > 0
<1>. USE KeyboardAssumption
<1>1. /\ sync' \in Semaphores /\ theKeys' \in Semaphore
      /\ \A s \in SyncId \ {KEY_SEM_ID} : sync'[s] = NoSync
      /\ theKeys'.value = theKeys.value - 1 /\ theKeys'.blockedPIDs = theKeys.blockedPIDs
  BY AfterWaitDoes DEF LineOK, theKeys
<1>2. theKeys' # NoSync
  BY <1>1, SyncAssumption
<1>3. theKeys.blockedPIDs = <<>> /\ theKeys.value \in Nat
  BY WokenAre DEF LineOK
<1>4. LineOK'
  BY <1>1, <1>2, <1>3 DEF LineOK
<1>5. Woken' = Woken
  BY <1>1, <1>4, WokenAre, WokenAreNext
<1>. QED  BY <1>1, <1>3, <1>4, <1>5, WokenAre DEF Tokens

\* A reader that was woken had its token all the while.
LEMMA ReturnTakesToken ==
  ASSUME LineOK, NEW p \in Woken, sync' = sync, getting' = getting \ {p}
  PROVE  LineOK' /\ Tokens' = Tokens - 1 /\ Tokens > 0
<1>1. p \in getting /\ p \notin Range(theKeys.blockedPIDs)
  BY WokenAre
<1>2. LineOK'
  BY <1>1 DEF LineOK, theKeys
<1>3. Woken' = Woken \ {p}
  BY <1>2, WokenAre, WokenAreNext DEF theKeys
<1>4. Cardinality(Woken') = Cardinality(Woken) - 1
  BY <1>3, WokenAre, FS_RemoveElement
<1>5. Cardinality(Woken) # 0
  BY WokenAre, FS_EmptySet
<1>. QED  BY <1>2, <1>4, <1>5, WokenAre DEF Tokens, theKeys

-----------------------------------------------------------------------------
(***************************************************************************)
(* The handler and getchar, as steps of the keyboard and of the stream.    *)
(***************************************************************************)
\* What is said of a step.
Good == KeyInv' /\ [KeyStream!StreamNext]_(KeyStream!streamVars)

\* A character is put into the stream, or dropped.
LEMMA SendKeyIsGood ==
  ASSUME KeyInv, NEW c \in Char, sendKey(c), UNCHANGED <<shift, capsLock, getting, taken>>
  PROVE  Good
<1>1. /\ sync' = AfterPost(sync, KEY_SEM_ID) /\ keys' = queueInsert(keys, c)
      /\ lost' = (lost \/ queueIsFull(keys))
  BY DEF sendKey, Announced
<1>2. LineOK' /\ Tokens' = Tokens + 1 /\ Tokens \in Nat
  BY <1>1, PostAddsToken, WokenAre DEF KeyInv
<1>3. RingOK(keys) /\ keys.size <= Tokens /\ (lost \/ keys.size = Tokens)
  BY DEF KeyInv, KeysHaveTokens, Tokens, theKeys
<1>4. Items(keys) \in Seq(Char) /\ Len(Items(keys)) = keys.size /\ keys.size \in 0 .. dim
  BY <1>3, ItemsSeq
<1>5. CASE queueIsFull(keys)
  <2>1. keys' = keys /\ lost' = TRUE
    BY <1>1, <1>5 DEF queueInsert
  <2>2. KeysHaveTokens'
    BY <1>2, <1>3, <1>4, <2>1 DEF KeysHaveTokens, Tokens, theKeys
  <2>3. KeyStream!Drop
    BY <1>4, <1>5, <2>1 DEF KeyStream!Drop, queueIsFull
  <2>. QED  BY <1>2, <2>1, <2>2, <2>3 DEF Good, KeyInv, KeyStream!StreamNext
<1>6. CASE ~ queueIsFull(keys)
  <2>1. /\ RingOK(keys') /\ keys'.size = keys.size + 1
        /\ Items(keys)' = Append(Items(keys), c)
    <3>1. LET r == queueInsert(keys, c) IN
            RingOK(r) /\ r.size = keys.size + 1 /\ Items(r) = Append(Items(keys), c)
      BY <1>3, <1>6, InsertIsAppend
    <3>2. Items(keys)' = Items(queueInsert(keys, c))
      BY <1>1 DEF Items, Cell
    <3>. QED  BY <1>1, <3>1, <3>2
  <2>2. lost' = lost
    BY <1>1, <1>6 DEF KeyInv
  <2>3. KeysHaveTokens'
    BY <1>2, <1>3, <1>4, <2>1, <2>2 DEF KeysHaveTokens, Tokens, theKeys
  <2>4. KeyStream!Put
    <3>. DEFINE s == Items(keys)
    <3>1. s \in Seq(Char) /\ s' = Append(s, c) /\ Len(s) < dim
      <4>1. Len(s) < dim
        BY <1>4, <1>6, StaticQueueAssumption DEF queueIsFull
      <4>2. s' = Append(s, c)
        BY <2>1
      <4>. QED  BY <1>4, <4>1, <4>2
    <3>. HIDE DEF s
    <3>2. /\ s' \in Seq(Char) /\ Len(s) < Len(s') /\ Len(s') <= dim
          /\ SubSeq(s', 1, Len(s)) = s
      BY <3>1, StaticQueueAssumption
    <3>. QED  BY <2>2, <3>2 DEF KeyStream!Put, s
  <2>. QED  BY <1>2, <2>2, <2>3, <2>4 DEF Good, KeyInv, KeyStream!StreamNext
<1>. QED  BY <1>5, <1>6

\* A reader with a token takes the first character, or none if one was lost.
LEMMA TakeKeyIsGood ==
  ASSUME KeyInv, TakeKey, LineOK', Tokens' = Tokens - 1, Tokens > 0,
         UNCHANGED <<shift, capsLock, lost>>
  PROVE  Good
<1>1. taken' = Removed(keys) /\ keys' = queueRemoveData(keys)
  BY DEF TakeKey
<1>2. /\ RingOK(keys) /\ keys.size <= Tokens /\ (lost \/ keys.size = Tokens) /\ Tokens \in Nat
  BY WokenAre DEF KeyInv, KeysHaveTokens, Tokens, theKeys
<1>3. Items(keys) \in Seq(Char) /\ Len(Items(keys)) = keys.size /\ keys.size \in 0 .. dim
  BY <1>2, ItemsSeq
<1>4. CASE queueIsEmpty(keys)
  <2>1. keys' = keys /\ taken' = Zero /\ keys.size = 0 /\ lost
    BY <1>1, <1>2, <1>4 DEF queueRemoveData, Removed, queueIsEmpty
  <2>2. KeysHaveTokens'
    BY <1>2, <2>1 DEF KeysHaveTokens, Tokens, theKeys
  <2>3. KeyStream!TakeNothing
    BY <1>3, <2>1 DEF KeyStream!TakeNothing
  <2>. QED  BY <2>2, <2>3 DEF Good, KeyInv, KeyStream!StreamNext
<1>5. CASE ~ queueIsEmpty(keys)
  <2>1. /\ RingOK(keys') /\ keys'.size = keys.size - 1
        /\ Items(keys) # <<>> /\ Items(keys)' = Tail(Items(keys)) /\ taken' = Head(Items(keys))
    <3>1. LET r == queueRemoveData(keys) IN
            /\ RingOK(r) /\ r.size = keys.size - 1
            /\ Items(keys) # <<>> /\ Items(r) = Tail(Items(keys)) /\ Removed(keys) = Head(Items(keys))
      BY <1>2, <1>5, RemoveIsTail
    <3>2. Items(keys)' = Items(queueRemoveData(keys))
      BY <1>1 DEF Items, Cell
    <3>. QED  BY <1>1, <3>1, <3>2
  <2>2. KeysHaveTokens'
    BY <1>2, <1>3, <2>1 DEF KeysHaveTokens, Tokens, theKeys
  <2>3. KeyStream!Take
    BY <2>1 DEF KeyStream!Take
  <2>. QED  BY <2>2, <2>3 DEF Good, KeyInv, KeyStream!StreamNext
<1>. QED  BY <1>4, <1>5

\* Nothing that is neither a character nor a reader touches the ring.
LEMMA OthersAreGood ==
  ASSUME KeyInv, UNCHANGED <<keys, taken, lost>>, LineOK', Tokens' = Tokens,
         shift' \in {0, 1}, capsLock' \in {0, 1}
  PROVE  Good
<1>1. KeysHaveTokens'
  BY DEF KeyInv, KeysHaveTokens, Tokens, theKeys
<1>2. UNCHANGED KeyStream!streamVars
  BY DEF KeyStream!streamVars, Items, Cell
<1>. QED  BY <1>1, <1>2 DEF Good, KeyInv

\* A key types one of its two characters.
LEMMA TypedIsChar == ASSUME KeyInv, NEW k \in Key PROVE Typed(k) \in Char
<1>. DEFINE column == IF k \in Letter THEN (IF capsLock = shift THEN 0 ELSE 1) ELSE shift
<1>1. column \in {0, 1}
  BY DEF KeyInv
<1>2. Typed(k) = pressCodes[k][column + 1]
  BY DEF Typed
<1>3. column = 0 \/ column = 1
  BY <1>1
<1>. HIDE DEF column
<1>4. Typed(k) = pressCodes[k][1] \/ Typed(k) = pressCodes[k][2]
  BY <1>2, <1>3
<1>. QED  BY <1>4, KeyboardAssumption

\* The ring starts empty, like the stream.
LEMMA InitKeyInv == KeyboardInit => KeyInv /\ KeyStream!StreamInit
<1>. SUFFICES ASSUME KeyboardInit PROVE KeyInv /\ KeyStream!StreamInit
  OBVIOUS
<1>. USE KeyboardAssumption, StaticQueueAssumption, SyncAssumption
<1>1. /\ theKeys = [value |-> 0, listeners |-> 1, blockedPIDs |-> <<>>] /\ theKeys \in Semaphore
      /\ sync \in Semaphores /\ \A s \in SyncId \ {KEY_SEM_ID} : sync[s] = NoSync
  <2>1. [value |-> 0, listeners |-> 1, blockedPIDs |-> <<>>] \in Semaphore
    BY DEF Semaphore
  <2>. QED  BY <2>1 DEF KeyboardInit, theKeys, Semaphores
<1>2. getting = {} /\ keys = EmptyRing /\ lost = FALSE /\ taken = Zero
  BY DEF KeyboardInit
<1>3. LineOK
  BY <1>1, <1>2 DEF LineOK, Distinct, Range
<1>4. Woken = {} /\ Cardinality(Woken) = 0
  BY <1>2, FS_EmptySet DEF Woken
<1>5. RingOK(keys) /\ keys.size = 0
  BY <1>2 DEF EmptyRing, RingOK, Ring, NextRear
<1>6. KeysHaveTokens
  BY <1>1, <1>4, <1>5 DEF KeysHaveTokens, theKeys
<1>7. Items(keys) = <<>>
  BY <1>5, ItemsSeq
<1>. QED  BY <1>2, <1>3, <1>6, <1>7 DEF KeyInv, KeyStream!StreamInit, KeyboardInit

\* Every step keeps the invariant and is a step of the stream.
LEMMA StepKeyInv == KeyInv /\ [KeyboardNext]_<<sync, keyboardVars>> => Good
<1>. SUFFICES ASSUME KeyInv, [KeyboardNext]_<<sync, keyboardVars>> PROVE Good
  OBVIOUS
<1>. USE KeyboardAssumption
<1>1. ASSUME UNCHANGED <<sync, getting, keys, taken, lost>>, shift' \in {0, 1}, capsLock' \in {0, 1}
      PROVE  Good
  <2>1. LineOK' /\ Tokens' = Tokens
    BY <1>1 DEF KeyInv, LineOK, theKeys, Tokens, Woken, Asleep
  <2>. QED  BY <1>1, <2>1, OthersAreGood
<1>2. CASE UNCHANGED <<sync, keyboardVars>>
  BY <1>1, <1>2 DEF keyboardVars, KeyInv
<1>3. CASE PressShift \/ PressCapsLock \/ PressControl \/ ReleaseShift \/ ReleaseControl
  BY <1>1, <1>3 DEF PressShift, PressCapsLock, PressControl, ReleaseShift, ReleaseControl, KeyInv
<1>4. ASSUME NEW k \in Key, PressKey(k) PROVE Good
  <2>1. UNCHANGED <<shift, capsLock, getting, taken>>
    BY <1>4 DEF PressKey
  <2>2. sendKey(Typed(k)) \/ sendKey(CLEAR_SCREEN) \/ sendKey(EOF) \/ UNCHANGED <<sync, keys, lost>>
    BY <1>4 DEF PressKey
  <2>3. UNCHANGED <<sync, keys, lost>> => Good
    BY <1>1, <2>1 DEF KeyInv
  <2>. QED  BY <2>1, <2>2, <2>3, TypedIsChar, SendKeyIsGood
<1>5. ASSUME NEW p \in Reader, Getchar(p) PROVE Good
  <2>1. /\ p \notin getting /\ sync' = AfterWait(sync, KEY_SEM_ID, p)
        /\ UNCHANGED <<shift, capsLock, lost>> /\ LineOK
    BY <1>5 DEF Getchar, KeyInv
  <2>2. CASE theKeys.value = 0
    <3>1. getting' = getting \cup {p} /\ UNCHANGED <<keys, taken>>
      BY <1>5, <2>1, <2>2 DEF Getchar, Sleeps, LineOK, theKeys
    <3>2. LineOK' /\ Tokens' = Tokens
      BY <2>1, <2>2, <3>1, SleepKeepsTokens
    <3>. QED  BY <2>1, <3>1, <3>2, OthersAreGood DEF KeyInv
  <2>3. CASE theKeys.value # 0
    <3>1. getting' = getting /\ TakeKey
      BY <1>5, <2>1, <2>3 DEF Getchar, Sleeps, LineOK, theKeys
    <3>2. LineOK' /\ Tokens' = Tokens - 1 /\ Tokens > 0
      BY <2>1, <2>3, <3>1, PassTakesToken
    <3>. QED  BY <2>1, <3>1, <3>2, TakeKeyIsGood
  <2>. QED  BY <2>2, <2>3
<1>6. ASSUME NEW p \in Reader, GetcharReturns(p) PROVE Good
  <2>1. /\ p \in Woken /\ sync' = sync /\ getting' = getting \ {p} /\ TakeKey
        /\ UNCHANGED <<shift, capsLock, lost>> /\ LineOK
    BY <1>6 DEF GetcharReturns, Woken, KeyInv
  <2>2. LineOK' /\ Tokens' = Tokens - 1 /\ Tokens > 0
    BY <2>1, ReturnTakesToken
  <2>. QED  BY <2>1, <2>2, TakeKeyIsGood
<1>. QED  BY <1>2, <1>3, <1>4, <1>5, <1>6 DEF KeyboardNext

\* No key is stuck in the ring of the keyboard: for every size of it and any number
\* of readers, each key has a token or a reader on its way to it.
THEOREM NoKeyIsStuck == KeyboardSpec => []KeysHaveTokens
<1>1. KeyInv => KeysHaveTokens
  BY DEF KeyInv
<1>. QED  BY <1>1, InitKeyInv, StepKeyInv, PTL DEF KeyboardSpec, Good

\* The keyboard implements a stream: every step of the handler and of getchar puts,
\* drops or takes characters in order, or changes nothing that can be read.
THEOREM KeyboardIsAStream == KeyboardSpec => KeysAreAStream
BY InitKeyInv, StepKeyInv, PTL DEF KeyboardSpec, KeysAreAStream, KeyStream!StreamSpec, Good

-----------------------------------------------------------------------------
(***************************************************************************)
(* The ring of a pipe: n characters from readIndex on.                     *)
(***************************************************************************)
Pipe == [state : {"EMPTY", "IN_USE"}, id : Nat, totalProcesses : Int, lockR : Int, lockW : Int,
         readIndex : 0 .. BUFF_SIZE - 1, writeIndex : 0 .. BUFF_SIZE - 1,
         buffer : [0 .. BUFF_SIZE - 1 -> PipeChar]]

Place(r, k) == (r + k) % BUFF_SIZE
CharsIn(a, n) == [j \in 1 .. n |-> a.buffer[Place(a.readIndex, j - 1)]]
WritesBehind(a, n) == a.writeIndex = Place(a.readIndex, n)

\* What putCharPipeByIdx and pRead do to the pipe.
Written(a, c) == [a EXCEPT !.buffer[a.writeIndex] = c, !.writeIndex = Advanced(@)]
Consumed(a) == [a EXCEPT !.readIndex = Advanced(@)]

\* Places in the ring.
LEMMA RingIndex ==
  ASSUME NEW r \in 0 .. BUFF_SIZE - 1, NEW k \in 0 .. BUFF_SIZE
  PROVE  /\ Place(r, k) = IF r + k < BUFF_SIZE THEN r + k ELSE r + k - BUFF_SIZE
         /\ Place(r, k) \in 0 .. BUFF_SIZE - 1
         /\ Advanced(r) = IF r + 1 < BUFF_SIZE THEN r + 1 ELSE 0
<1>0. BUFF_SIZE \in Nat /\ BUFF_SIZE >= 1
  BY PipesAssumption
<1>1. \A x \in 0 .. BUFF_SIZE - 1 : x % BUFF_SIZE = x
  BY <1>0
<1>2. \A x \in BUFF_SIZE .. 2 * BUFF_SIZE - 1 : x % BUFF_SIZE = x - BUFF_SIZE
  BY <1>0
<1>3. \A x \in 0 .. 2 * BUFF_SIZE - 1 : x % BUFF_SIZE = IF x < BUFF_SIZE THEN x ELSE x - BUFF_SIZE
  <2>. TAKE x \in 0 .. 2 * BUFF_SIZE - 1
  <2>1. x < BUFF_SIZE => x \in 0 .. BUFF_SIZE - 1
    BY <1>0
  <2>2. ~ (x < BUFF_SIZE) => x \in BUFF_SIZE .. 2 * BUFF_SIZE - 1
    BY <1>0
  <2>. QED  BY <1>1, <1>2, <2>1, <2>2, Zenon
<1>4. r + k \in 0 .. 2 * BUFF_SIZE - 1 /\ r + 1 \in 0 .. 2 * BUFF_SIZE - 1
  BY <1>0
<1>5. Place(r, k) = IF r + k < BUFF_SIZE THEN r + k ELSE r + k - BUFF_SIZE
  <2>1. PICK x \in 0 .. 2 * BUFF_SIZE - 1 : x = r + k
    BY <1>4
  <2>2. x % BUFF_SIZE = IF x < BUFF_SIZE THEN x ELSE x - BUFF_SIZE
    BY <1>3
  <2>3. Place(r, k) = x % BUFF_SIZE
    BY <2>1, Zenon DEF Place
  <2>4. Place(r, k) = IF x < BUFF_SIZE THEN x ELSE x - BUFF_SIZE
    BY <2>2, <2>3, Zenon
  <2>. QED  BY <1>0, <2>1, <2>4
<1>6. Advanced(r) = IF r + 1 < BUFF_SIZE THEN r + 1 ELSE r + 1 - BUFF_SIZE
  <2>1. PICK x \in 0 .. 2 * BUFF_SIZE - 1 : x = r + 1
    BY <1>4
  <2>2. x % BUFF_SIZE = IF x < BUFF_SIZE THEN x ELSE x - BUFF_SIZE
    BY <1>3
  <2>3. Advanced(r) = x % BUFF_SIZE
    BY <2>1, Zenon DEF Advanced
  <2>4. Advanced(r) = IF x < BUFF_SIZE THEN x ELSE x - BUFF_SIZE
    BY <2>2, <2>3, Zenon
  <2>. QED  BY <1>0, <2>1, <2>4
<1>. QED  BY <1>0, <1>5, <1>6

\* The characters are a sequence.
LEMMA CharsSeq ==
  ASSUME NEW a \in Pipe, NEW n \in 0 .. BUFF_SIZE
  PROVE  /\ CharsIn(a, n) \in Seq(PipeChar) /\ Len(CharsIn(a, n)) = n
         /\ \A j \in 1 .. n : CharsIn(a, n)[j] = a.buffer[Place(a.readIndex, j - 1)]
<1>1. a.buffer \in [0 .. BUFF_SIZE - 1 -> PipeChar] /\ a.readIndex \in 0 .. BUFF_SIZE - 1
  BY DEF Pipe
<1>2. ASSUME NEW j \in 1 .. n PROVE Place(a.readIndex, j - 1) \in 0 .. BUFF_SIZE - 1
  <2>1. j - 1 \in 0 .. BUFF_SIZE
    BY <1>1, PipesAssumption
  <2>. QED  BY <1>1, <2>1, RingIndex
<1>3. CharsIn(a, n) \in [1 .. n -> PipeChar]
  BY <1>1, <1>2 DEF CharsIn
<1>4. n \in Nat
  OBVIOUS
<1>. QED  BY <1>3, <1>4 DEF CharsIn

\* A character goes behind the others.
LEMMA WriteAppends ==
  ASSUME NEW a \in Pipe, NEW n \in 0 .. BUFF_SIZE - 1, NEW c \in PipeChar, WritesBehind(a, n)
  PROVE  LET b == Written(a, c) IN
         /\ b \in Pipe /\ WritesBehind(b, n + 1)
         /\ CharsIn(b, n + 1) = Append(CharsIn(a, n), c)
         /\ b.state = a.state /\ b.id = a.id /\ b.totalProcesses = a.totalProcesses
         /\ b.lockR = a.lockR /\ b.lockW = a.lockW
<1>. DEFINE b == Written(a, c)  w == a.writeIndex  r == a.readIndex
<1>0. /\ BUFF_SIZE \in Nat /\ BUFF_SIZE >= 1 /\ n \in 0 .. BUFF_SIZE /\ n + 1 \in 0 .. BUFF_SIZE
      /\ a.buffer \in [0 .. BUFF_SIZE - 1 -> PipeChar] /\ r \in 0 .. BUFF_SIZE - 1
      /\ w \in 0 .. BUFF_SIZE - 1
  BY PipesAssumption DEF Pipe
<1>1. Advanced(w) = IF w + 1 < BUFF_SIZE THEN w + 1 ELSE 0
  BY <1>0, RingIndex
<1>2. b = [a EXCEPT !.buffer = [a.buffer EXCEPT ![w] = c], !.writeIndex = Advanced(w)]
  BY DEF Written
<1>3. /\ b \in Pipe /\ b.state = a.state /\ b.id = a.id /\ b.totalProcesses = a.totalProcesses
      /\ b.lockR = a.lockR /\ b.lockW = a.lockW /\ b.readIndex = r /\ b.writeIndex = Advanced(w)
      /\ b.buffer = [a.buffer EXCEPT ![w] = c]
  <2>1. [a.buffer EXCEPT ![w] = c] \in [0 .. BUFF_SIZE - 1 -> PipeChar]
    BY <1>0
  <2>2. Advanced(w) \in 0 .. BUFF_SIZE - 1
    BY <1>0, <1>1
  <2>. QED  BY <1>2, <2>1, <2>2 DEF Pipe
<1>4. w = IF r + n < BUFF_SIZE THEN r + n ELSE r + n - BUFF_SIZE
  BY <1>0, RingIndex DEF WritesBehind
<1>5. WritesBehind(b, n + 1)
  <2>1. Place(r, n + 1) = IF r + (n + 1) < BUFF_SIZE THEN r + (n + 1) ELSE r + (n + 1) - BUFF_SIZE
    BY <1>0, RingIndex
  <2>2. Place(r, n + 1) = Advanced(w)
    BY <1>0, <1>1, <1>4, <2>1
  <2>. QED  BY <1>3, <2>2 DEF WritesBehind
<1>6. /\ CharsIn(a, n) \in Seq(PipeChar) /\ Len(CharsIn(a, n)) = n
      /\ \A j \in 1 .. n : CharsIn(a, n)[j] = a.buffer[Place(r, j - 1)]
  BY <1>0, CharsSeq
<1>7. /\ CharsIn(b, n + 1) \in Seq(PipeChar) /\ Len(CharsIn(b, n + 1)) = n + 1
      /\ \A j \in 1 .. n + 1 : CharsIn(b, n + 1)[j] = b.buffer[Place(r, j - 1)]
  <2>. HIDE DEF b
  <2>1. PICK m \in 0 .. BUFF_SIZE : m = n + 1
    BY <1>0
  <2>2. /\ CharsIn(b, m) \in Seq(PipeChar) /\ Len(CharsIn(b, m)) = m
        /\ \A j \in 1 .. m : CharsIn(b, m)[j] = b.buffer[Place(b.readIndex, j - 1)]
    BY <1>3, CharsSeq
  <2>. QED  BY <1>3, <2>1, <2>2, Zenon
<1>8. ASSUME NEW j \in 1 .. n + 1 PROVE CharsIn(b, n + 1)[j] = Append(CharsIn(a, n), c)[j]
  <2>0. j - 1 \in 0 .. BUFF_SIZE 
    BY <1>0
  <2>1. Place(r, j - 1) = (IF r + (j - 1) < BUFF_SIZE THEN r + (j - 1) ELSE r + (j - 1) - BUFF_SIZE)
        /\ Place(r, j - 1) \in 0 .. BUFF_SIZE - 1
    BY <1>0, <2>0, RingIndex
  <2>2. CASE j = n + 1
    <3>1. Place(r, j - 1) = w
      BY <1>0, <1>4, <2>1, <2>2
    <3>2. b.buffer[w] = c
      BY <1>0, <1>3
    <3>3. Append(CharsIn(a, n), c)[j] = c
      BY <1>6, <2>2
    <3>. QED  BY <1>7, <3>1, <3>2, <3>3
  <2>3. CASE j # n + 1
    <3>1. j \in 1 .. n /\ Place(r, j - 1) # w
      BY <1>0, <1>4, <2>1, <2>3
    <3>2. b.buffer[Place(r, j - 1)] = a.buffer[Place(r, j - 1)]
      BY <1>0, <1>3, <2>1, <3>1
    <3>3. Append(CharsIn(a, n), c)[j] = CharsIn(a, n)[j]
      BY <1>6, <3>1
    <3>. QED  BY <1>6, <1>7, <3>1, <3>2, <3>3
  <2>. QED  BY <2>2, <2>3
<1>9. CharsIn(b, n + 1) = Append(CharsIn(a, n), c)
  <2>. DEFINE s == CharsIn(b, n + 1)  t == Append(CharsIn(a, n), c)  m == n + 1
  <2>1. /\ s \in Seq(PipeChar) /\ t \in Seq(PipeChar) /\ Len(s) = m /\ Len(t) = m
        /\ \A j \in 1 .. m : s[j] = t[j]
    BY <1>6, <1>7, <1>8
  <2>. HIDE DEF s, t, m
  <2>2. s = t
    BY <2>1
  <2>. QED  BY <2>2 DEF s, t
<1>. QED  BY <1>3, <1>5, <1>9

\* The first character leaves.
LEMMA ReadTakes ==
  ASSUME NEW a \in Pipe, NEW n \in 1 .. BUFF_SIZE, WritesBehind(a, n)
  PROVE  LET b == Consumed(a) IN
         /\ b \in Pipe /\ WritesBehind(b, n - 1)
         /\ CharsIn(a, n) # <<>> /\ a.buffer[a.readIndex] = Head(CharsIn(a, n))
         /\ CharsIn(b, n - 1) = Tail(CharsIn(a, n))
         /\ a.buffer[a.readIndex] \in PipeChar
         /\ b.state = a.state /\ b.id = a.id /\ b.totalProcesses = a.totalProcesses
         /\ b.lockR = a.lockR /\ b.lockW = a.lockW
<1>. DEFINE b == Consumed(a)  r == a.readIndex  q == Advanced(r)
<1>0. /\ BUFF_SIZE \in Nat /\ BUFF_SIZE >= 1 /\ n \in 0 .. BUFF_SIZE /\ n - 1 \in 0 .. BUFF_SIZE
      /\ a.buffer \in [0 .. BUFF_SIZE - 1 -> PipeChar] /\ r \in 0 .. BUFF_SIZE - 1
      /\ 1 \in 1 .. n
  BY PipesAssumption DEF Pipe
<1>1. q = IF r + 1 < BUFF_SIZE THEN r + 1 ELSE 0
  BY <1>0, RingIndex
<1>2. q \in 0 .. BUFF_SIZE - 1
  BY <1>0, <1>1
<1>. HIDE DEF q
<1>3. /\ b \in Pipe /\ b.state = a.state /\ b.id = a.id /\ b.totalProcesses = a.totalProcesses
      /\ b.lockR = a.lockR /\ b.lockW = a.lockW /\ b.readIndex = q /\ b.writeIndex = a.writeIndex
      /\ b.buffer = a.buffer
  <2>1. b = [a EXCEPT !.readIndex = q]
    BY DEF Consumed, q
  <2>. QED  BY <1>2, <2>1 DEF Pipe
<1>. HIDE DEF b
<1>4. WritesBehind(b, n - 1)
  <2>1. Place(r, n) = IF r + n < BUFF_SIZE THEN r + n ELSE r + n - BUFF_SIZE
    BY <1>0, RingIndex
  <2>2. Place(q, n - 1) = IF q + (n - 1) < BUFF_SIZE THEN q + (n - 1) ELSE q + (n - 1) - BUFF_SIZE
    BY <1>0, <1>2, RingIndex
  <2>3. Place(q, n - 1) = Place(r, n)
    BY <1>0, <1>1, <2>1, <2>2
  <2>. QED  BY <1>3, <2>3 DEF WritesBehind
<1>5. /\ CharsIn(a, n) \in Seq(PipeChar) /\ Len(CharsIn(a, n)) = n
      /\ \A j \in 1 .. n : CharsIn(a, n)[j] = a.buffer[Place(r, j - 1)]
  BY <1>0, CharsSeq
<1>6. /\ CharsIn(b, n - 1) \in Seq(PipeChar) /\ Len(CharsIn(b, n - 1)) = n - 1
      /\ \A j \in 1 .. n - 1 : CharsIn(b, n - 1)[j] = a.buffer[Place(q, j - 1)]
  BY <1>0, <1>3, CharsSeq
<1>7. CharsIn(a, n) # <<>> /\ Head(CharsIn(a, n)) = a.buffer[r] /\ a.buffer[r] \in PipeChar
  <2>1. Place(r, 0) = r
    <3>1. 0 \in 0 .. BUFF_SIZE /\ r + 0 = r /\ r + 0 < BUFF_SIZE
      BY <1>0
    <3>2. Place(r, 0) = IF r + 0 < BUFF_SIZE THEN r + 0 ELSE r + 0 - BUFF_SIZE
      BY <1>0, <3>1, RingIndex
    <3>. QED  BY <3>1, <3>2
  <2>2. 1 - 1 = 0
    OBVIOUS
  <2>3. CharsIn(a, n)[1] = a.buffer[r]
    BY <1>0, <1>5, <2>1, <2>2
  <2>4. CharsIn(a, n) # <<>> /\ Head(CharsIn(a, n)) = CharsIn(a, n)[1]
    BY <1>0, <1>5
  <2>. QED  BY <1>0, <2>3, <2>4
<1>8. ASSUME NEW j \in 1 .. n - 1 PROVE CharsIn(b, n - 1)[j] = Tail(CharsIn(a, n))[j]
  <2>0. j - 1 \in 0 .. BUFF_SIZE /\ j \in 0 .. BUFF_SIZE /\ j + 1 \in 1 .. n
    BY <1>0, <1>2
  <2>1. Place(q, j - 1) = IF q + (j - 1) < BUFF_SIZE THEN q + (j - 1) ELSE q + (j - 1) - BUFF_SIZE
    BY <1>2, <2>0, RingIndex
  <2>2. Place(r, j) = IF r + j < BUFF_SIZE THEN r + j ELSE r + j - BUFF_SIZE
    BY <1>0, <2>0, RingIndex
  <2>3. Place(q, j - 1) = Place(r, j)
    BY <1>0, <1>1, <2>0, <2>1, <2>2, SMTT(30)
  <2>4. CharsIn(a, n)[j + 1] = a.buffer[Place(r, j)]
    <3>1. j + 1 - 1 = j
      BY <2>0
    <3>. QED  BY <1>5, <2>0, <3>1
  <2>5. CharsIn(b, n - 1)[j] = a.buffer[Place(q, j - 1)]
    BY <1>6, <2>0
  <2>6. Tail(CharsIn(a, n))[j] = CharsIn(a, n)[j + 1]
    BY <1>0, <1>5
  <2>. QED  BY <2>3, <2>4, <2>5, <2>6
<1>9. CharsIn(b, n - 1) = Tail(CharsIn(a, n))
  <2>. DEFINE s == CharsIn(b, n - 1)  t == Tail(CharsIn(a, n))  m == n - 1
  <2>0. Tail(CharsIn(a, n)) \in Seq(PipeChar) /\ Len(Tail(CharsIn(a, n))) = n - 1
    BY <1>0, <1>5
  <2>1. /\ s \in Seq(PipeChar) /\ t \in Seq(PipeChar) /\ Len(s) = m /\ Len(t) = m
        /\ \A j \in 1 .. m : s[j] = t[j]
    BY <1>6, <1>8, <2>0
  <2>. HIDE DEF s, t, m
  <2>2. s = t
    BY <2>1
  <2>. QED  BY <2>2 DEF s, t
<1>. QED  BY <1>3, <1>4, <1>7, <1>9 DEF b

-----------------------------------------------------------------------------
(***************************************************************************)
(* The tokens of a semaphore on which only the members of T wait: those in *)
(* it, and those that the awake members of T were given.                   *)
(***************************************************************************)
Members(S, s) == Range(S[s].blockedPIDs)
Held(S, s, T) == S[s].value + Cardinality(T \ Members(S, s))
Kept(S, s, T) ==
  /\ S[s] \in Semaphore /\ S[s].listeners = 1
  /\ Distinct(S[s].blockedPIDs) /\ Members(S, s) \subseteq T
  /\ S[s].value > 0 => S[s].blockedPIDs = <<>>

\* A finite set with one element more or less.
LEMMA OneMore ==
  ASSUME NEW T, IsFiniteSet(T), NEW x
  PROVE  /\ Cardinality(T) \in Nat
         /\ IsFiniteSet(T \cup {x}) /\ IsFiniteSet(T \ {x})
         /\ x \notin T => Cardinality(T \cup {x}) = Cardinality(T) + 1
         /\ x \in T => Cardinality(T \ {x}) = Cardinality(T) - 1
BY FS_AddElement, FS_RemoveElement, FS_CardinalityType

\* The tokens are a number.
LEMMA HeldIsNat ==
  ASSUME NEW S, NEW s, NEW T, IsFiniteSet(T), Kept(S, s, T)
  PROVE  /\ Held(S, s, T) \in Nat /\ S[s].value \in Nat /\ S[s].value <= Held(S, s, T)
         /\ Cardinality(T \ Members(S, s)) \in Nat
<1>1. IsFiniteSet(T \ Members(S, s))
  BY FS_Subset
<1>2. Cardinality(T \ Members(S, s)) \in Nat
  BY <1>1, FS_CardinalityType
<1>. QED  BY <1>2 DEF Kept, Held, Semaphore

\* A semaphore that does not change.
LEMMA KeptStays ==
  ASSUME NEW S, NEW U, NEW s, NEW T, U[s] = S[s]
  PROVE  Kept(U, s, T) = Kept(S, s, T) /\ Held(U, s, T) = Held(S, s, T)
         /\ Members(U, s) = Members(S, s)
BY DEF Kept, Held, Members

\* A post makes one more.
LEMMA PostGives ==
  ASSUME NEW S \in Semaphores, NEW s \in SyncId, NEW T, IsFiniteSet(T), Kept(S, s, T)
  PROVE  LET U == AfterPost(S, s) IN
         /\ U \in Semaphores /\ \A t \in SyncId \ {s} : U[t] = S[t]
         /\ Kept(U, s, T) /\ Held(U, s, T) = Held(S, s, T) + 1
         /\ Members(U, s) \subseteq Members(S, s)
<1>. DEFINE U == AfterPost(S, s)  line == S[s].blockedPIDs
<1>0. S[s] \in Semaphore /\ S[s] # NoSync /\ line \in Seq(Process) /\ S[s].value \in Nat
  BY SyncAssumption DEF Kept, Semaphore
<1>1. /\ U \in Semaphores /\ U[s] \in Semaphore /\ U[s].listeners = S[s].listeners
      /\ \A t \in SyncId \ {s} : U[t] = S[t]
      /\ line = <<>> => U[s].value = S[s].value + 1 /\ U[s].blockedPIDs = <<>>
      /\ line # <<>> => U[s].value = S[s].value /\ U[s].blockedPIDs = Tail(line)
  BY <1>0, AfterPostDoes
<1>2. CASE line = <<>>
  <2>1. Members(U, s) = Members(S, s) /\ Members(S, s) = {} /\ Distinct(U[s].blockedPIDs)
    BY <1>1, <1>2 DEF Members, Distinct, Range
  <2>2. Kept(U, s, T)
    BY <1>1, <1>2, <2>1 DEF Kept
  <2>3. Held(U, s, T) = Held(S, s, T) + 1
    <3>1. Cardinality(T \ Members(S, s)) \in Nat
      BY HeldIsNat
    <3>. QED  BY <1>0, <1>1, <1>2, <2>1, <3>1 DEF Held
  <2>. QED  BY <1>1, <2>1, <2>2, <2>3
<1>3. CASE line # <<>>
  <2>. DEFINE h == Head(line)
  <2>1. /\ h \in Range(line) /\ Range(Tail(line)) = Range(line) \ {h} /\ Distinct(Tail(line))
    BY <1>0, <1>3, RangeTail DEF Kept
  <2>2. Members(U, s) = Members(S, s) \ {h} /\ h \in Members(S, s) /\ h \in T
    BY <1>1, <1>3, <2>1 DEF Members, Kept
  <2>. HIDE DEF h
  <2>3. Kept(U, s, T)
    BY <1>0, <1>1, <1>3, <2>1, <2>2 DEF Kept
  <2>4. T \ Members(U, s) = (T \ Members(S, s)) \cup {h} /\ h \notin T \ Members(S, s)
    BY <2>2
  <2>5. IsFiniteSet(T \ Members(S, s))
    BY FS_Subset
  <2>6. Cardinality(T \ Members(U, s)) = Cardinality(T \ Members(S, s)) + 1
        /\ Cardinality(T \ Members(S, s)) \in Nat
    BY <2>4, <2>5, OneMore
  <2>7. Held(U, s, T) = Held(S, s, T) + 1
    BY <1>0, <1>1, <1>3, <2>6 DEF Held
  <2>. QED  BY <1>1, <2>2, <2>3, <2>7
<1>. QED  BY <1>2, <1>3

\* A wait that finds a token takes it.
LEMMA WaitTakes ==
  ASSUME NEW S \in Semaphores, NEW s \in SyncId, NEW T, IsFiniteSet(T), Kept(S, s, T),
         S[s].value # 0, NEW p \in Process
  PROVE  LET U == AfterWait(S, s, p) IN
         /\ U \in Semaphores /\ \A t \in SyncId \ {s} : U[t] = S[t]
         /\ Kept(U, s, T) /\ Held(U, s, T) = Held(S, s, T) - 1 /\ U[s].value = S[s].value - 1
         /\ Members(U, s) = Members(S, s)
<1>. DEFINE U == AfterWait(S, s, p)
<1>0. S[s] \in Semaphore /\ S[s] # NoSync /\ S[s].value \in Nat
  BY SyncAssumption DEF Kept, Semaphore
<1>1. /\ U \in Semaphores /\ U[s] \in Semaphore /\ U[s].listeners = S[s].listeners
      /\ \A t \in SyncId \ {s} : U[t] = S[t]
      /\ U[s].value = S[s].value - 1 /\ U[s].blockedPIDs = S[s].blockedPIDs
  BY <1>0, AfterWaitDoes
<1>. HIDE DEF U
<1>2. Members(U, s) = Members(S, s) /\ Kept(U, s, T)
  BY <1>0, <1>1 DEF Members, Kept
<1>3. Cardinality(T \ Members(S, s)) \in Nat
  BY HeldIsNat
<1>4. Held(U, s, T) = Held(S, s, T) - 1
  BY <1>0, <1>1, <1>2, <1>3 DEF Held
<1>. QED  BY <1>1, <1>2, <1>4 DEF U

\* A wait that finds none puts its caller into the line.
LEMMA WaitSleeps ==
  ASSUME NEW S \in Semaphores, NEW s \in SyncId, NEW T, IsFiniteSet(T), Kept(S, s, T),
         S[s].value = 0, NEW p \in Process, p \notin T
  PROVE  LET U == AfterWait(S, s, p) IN
         /\ U \in Semaphores /\ \A t \in SyncId \ {s} : U[t] = S[t]
         /\ Kept(U, s, T \cup {p}) /\ Held(U, s, T \cup {p}) = Held(S, s, T)
         /\ Members(U, s) = Members(S, s) \cup {p}
<1>. DEFINE U == AfterWait(S, s, p)  line == S[s].blockedPIDs
<1>0. S[s] \in Semaphore /\ S[s] # NoSync /\ line \in Seq(Process)
  BY SyncAssumption DEF Kept, Semaphore
<1>1. /\ U \in Semaphores /\ U[s] \in Semaphore /\ U[s].listeners = S[s].listeners
      /\ \A t \in SyncId \ {s} : U[t] = S[t]
      /\ U[s].value = 0 /\ U[s].blockedPIDs = Append(line, p)
  BY <1>0, AfterWaitDoes
<1>. HIDE DEF U
<1>2. p \notin Range(line) /\ Distinct(line)
  BY DEF Kept, Members
<1>3. Members(U, s) = Members(S, s) \cup {p} /\ Distinct(U[s].blockedPIDs)
  BY <1>0, <1>1, <1>2, RangeAppend, DistinctAppend DEF Members
<1>4. Kept(U, s, T \cup {p})
  BY <1>1, <1>3 DEF Kept
<1>5. (T \cup {p}) \ Members(U, s) = T \ Members(S, s)
  BY <1>3
<1>6. Held(U, s, T \cup {p}) = Held(S, s, T)
  BY <1>1, <1>5 DEF Held
<1>. QED  BY <1>1, <1>3, <1>4, <1>6 DEF U

\* One that was given a token uses it.
LEMMA OneGoesOn ==
  ASSUME NEW S \in Semaphores, NEW s \in SyncId, NEW T, IsFiniteSet(T), Kept(S, s, T),
         NEW p \in T, p \notin Members(S, s)
  PROVE  Kept(S, s, T \ {p}) /\ Held(S, s, T \ {p}) = Held(S, s, T) - 1
<1>1. Kept(S, s, T \ {p})
  BY DEF Kept
<1>2. (T \ {p}) \ Members(S, s) = (T \ Members(S, s)) \ {p} /\ p \in T \ Members(S, s)
  OBVIOUS
<1>3. IsFiniteSet(T \ Members(S, s))
  BY FS_Subset
<1>4. Cardinality((T \ {p}) \ Members(S, s)) = Cardinality(T \ Members(S, s)) - 1
      /\ Cardinality(T \ Members(S, s)) \in Nat
  BY <1>2, <1>3, OneMore
<1>5. S[s].value \in Nat
  BY DEF Kept, Semaphore
<1>. QED  BY <1>1, <1>4, <1>5 DEF Held

-----------------------------------------------------------------------------
(***************************************************************************)
(* A slot with n characters: A is the array of pipes, S the semaphores, T  *)
(* the readers inside a call and U the writers; spare counts the places    *)
(* that a writer holds which has not written yet.                          *)
(***************************************************************************)
SlotKeeps(A, S, i, T, U, spare) ==
  /\ A \in [Slot -> Pipe] /\ S \in Semaphores
  /\ A[i].lockR \in SyncId /\ A[i].lockW \in SyncId /\ A[i].lockR # A[i].lockW
  /\ IsFiniteSet(T) /\ Kept(S, A[i].lockR, T)
  /\ IsFiniteSet(U) /\ Kept(S, A[i].lockW, U)
  /\ WritesBehind(A[i], Held(S, A[i].lockR, T))
  /\ Held(S, A[i].lockR, T) + Held(S, A[i].lockW, U) + spare = BUFF_SIZE

Inside(A, S, i, T) == CharsIn(A[i], Held(S, A[i].lockR, T))

SamePipe(a, b) == /\ b.state = a.state /\ b.id = a.id /\ b.totalProcesses = a.totalProcesses
                  /\ b.lockR = a.lockR /\ b.lockW = a.lockW

\* From A and S to B and V: the characters s went into slot i, and New went to sleep.
Wrote(A, S, B, V, i, T, U, s, New) ==
  /\ SlotKeeps(B, V, i, T, U, 0)
  /\ \A j \in Slot \ {i} : B[j] = A[j]
  /\ SamePipe(A[i], B[i])
  /\ \A t \in SyncId \ {A[i].lockR, A[i].lockW} : V[t] = S[t]
  /\ Members(V, A[i].lockR) \subseteq Members(S, A[i].lockR)
  /\ Members(V, A[i].lockW) = Members(S, A[i].lockW) \cup New
  /\ Inside(B, V, i, T) = Inside(A, S, i, T) \o s

\* The bounds of a slot.
LEMMA SlotHolds ==
  ASSUME NEW A, NEW S, NEW i \in Slot, NEW T, NEW U, NEW spare \in {0, 1},
         SlotKeeps(A, S, i, T, U, spare)
  PROVE  /\ A[i] \in Pipe
         /\ Held(S, A[i].lockR, T) \in 0 .. BUFF_SIZE - spare
         /\ Held(S, A[i].lockW, U) \in 0 .. BUFF_SIZE - spare
         /\ Inside(A, S, i, T) \in Seq(PipeChar)
         /\ Len(Inside(A, S, i, T)) = Held(S, A[i].lockR, T)
         /\ S[A[i].lockW].value \in Nat /\ S[A[i].lockW].value <= Held(S, A[i].lockW, U)
         /\ S[A[i].lockR] # NoSync /\ S[A[i].lockW] # NoSync
<1>1. A[i] \in Pipe
  BY DEF SlotKeeps
<1>2. /\ Held(S, A[i].lockR, T) \in Nat /\ Held(S, A[i].lockW, U) \in Nat
      /\ S[A[i].lockW].value \in Nat /\ S[A[i].lockW].value <= Held(S, A[i].lockW, U)
  BY HeldIsNat DEF SlotKeeps
<1>3. /\ Held(S, A[i].lockR, T) \in 0 .. BUFF_SIZE - spare
      /\ Held(S, A[i].lockW, U) \in 0 .. BUFF_SIZE - spare
      /\ Held(S, A[i].lockR, T) \in 0 .. BUFF_SIZE
  BY <1>2, PipesAssumption DEF SlotKeeps
<1>4. Inside(A, S, i, T) \in Seq(PipeChar) /\ Len(Inside(A, S, i, T)) = Held(S, A[i].lockR, T)
  BY <1>1, <1>3, CharsSeq DEF Inside
<1>5. S[A[i].lockR] # NoSync /\ S[A[i].lockW] # NoSync
  BY SyncAssumption DEF SlotKeeps, Kept
<1>. QED  BY <1>1, <1>2, <1>3, <1>4, <1>5

\* What waits in it is a sequence that fits.
LEMMA SlotFits ==
  ASSUME NEW A, NEW S, NEW i \in Slot, NEW T, NEW U, SlotKeeps(A, S, i, T, U, 0)
  PROVE  Inside(A, S, i, T) \in Seq(PipeChar) /\ Len(Inside(A, S, i, T)) <= BUFF_SIZE
<1>. DEFINE n == Held(S, A[i].lockR, T)
<1>0. 0 \in {0, 1}
  OBVIOUS
<1>1. n \in 0 .. BUFF_SIZE - 0
  BY <1>0, SlotHolds
<1>2. Inside(A, S, i, T) \in Seq(PipeChar)
  BY <1>0, SlotHolds
<1>3. Len(Inside(A, S, i, T)) = n
  BY <1>0, SlotHolds
<1>. HIDE DEF n
<1>. QED  BY <1>1, <1>2, <1>3, PipesAssumption

\* putCharPipeByIdx after its sWait.
LEMMA PutCharDoes ==
  ASSUME NEW A, NEW S, NEW i \in Slot, NEW T, NEW U, NEW c \in PipeChar,
         SlotKeeps(A, S, i, T, U, 1)
  PROVE  LET k == PutChar([array |-> A, sems |-> S], i, c) IN
         /\ k = [array |-> k.array, sems |-> k.sems]
         /\ Wrote(A, S, k.array, k.sems, i, T, U, <<c>>, {})
         /\ k.sems[A[i].lockW] = S[A[i].lockW]
<1>. DEFINE k == PutChar([array |-> A, sems |-> S], i, c)
            B == [A EXCEPT ![i] = Written(A[i], c)]
            r == A[i].lockR
            V == AfterPost(S, r)
<1>1. k = [array |-> B, sems |-> V]
  BY DEF PutChar, Written
<1>2. /\ A \in [Slot -> Pipe] /\ S \in Semaphores /\ r \in SyncId /\ A[i].lockW \in SyncId
      /\ r # A[i].lockW /\ IsFiniteSet(T) /\ IsFiniteSet(U) /\ Kept(S, r, T) /\ Kept(S, A[i].lockW, U)
      /\ WritesBehind(A[i], Held(S, r, T))
      /\ Held(S, r, T) + Held(S, A[i].lockW, U) + 1 = BUFF_SIZE
  BY DEF SlotKeeps
<1>3. A[i] \in Pipe /\ Held(S, r, T) \in 0 .. BUFF_SIZE - 1 /\ Held(S, A[i].lockW, U) \in Nat
  <2>1. A[i] \in Pipe /\ Held(S, r, T) \in Nat /\ Held(S, A[i].lockW, U) \in Nat
    BY <1>2, HeldIsNat
  <2>. QED  BY <1>2, <2>1, PipesAssumption
<1>. DEFINE b == Written(A[i], c)  n == Held(S, r, T)
<1>4. /\ b \in Pipe /\ WritesBehind(b, n + 1)
      /\ CharsIn(b, n + 1) = Append(CharsIn(A[i], n), c)
      /\ SamePipe(A[i], b)
  <2>. HIDE DEF n
  <2>1. n \in 0 .. BUFF_SIZE - 1 /\ WritesBehind(A[i], n)
    BY <1>2, <1>3 DEF n
  <2>. QED  BY <1>3, <2>1, WriteAppends DEF SamePipe
<1>5. /\ V \in Semaphores /\ \A t \in SyncId \ {r} : V[t] = S[t]
      /\ Kept(V, r, T) /\ Held(V, r, T) = n + 1
      /\ Members(V, r) \subseteq Members(S, r)
  BY <1>2, PostGives
<1>. HIDE DEF V, b, n
<1>6. B \in [Slot -> Pipe] /\ B[i] = b /\ \A j \in Slot \ {i} : B[j] = A[j]
  BY <1>2, <1>4 DEF b
<1>. HIDE DEF B
<1>7. /\ Kept(V, A[i].lockW, U) /\ Held(V, A[i].lockW, U) = Held(S, A[i].lockW, U)
      /\ Members(V, A[i].lockW) = Members(S, A[i].lockW) /\ V[A[i].lockW] = S[A[i].lockW]
  BY <1>2, <1>5, KeptStays
<1>8. B[i].lockR = r /\ B[i].lockW = A[i].lockW
  BY <1>4, <1>6 DEF SamePipe
<1>9. SlotKeeps(B, V, i, T, U, 0)
  <2>1. WritesBehind(B[i], Held(V, r, T))
    BY <1>4, <1>5, <1>6
  <2>2. Held(V, r, T) + Held(V, A[i].lockW, U) + 0 = BUFF_SIZE
    BY <1>2, <1>3, <1>5, <1>7 DEF n
  <2>. QED  BY <1>2, <1>5, <1>6, <1>7, <1>8, <2>1, <2>2 DEF SlotKeeps
<1>10. Inside(B, V, i, T) = Inside(A, S, i, T) \o <<c>>
  <2>1. Inside(A, S, i, T) \in Seq(PipeChar)
    BY SlotHolds
  <2>2. Inside(B, V, i, T) = Append(Inside(A, S, i, T), c)
    BY <1>4, <1>5, <1>6, <1>8 DEF Inside, n
  <2>. DEFINE s == Inside(A, S, i, T)
  <2>3. Append(s, c) = s \o <<c>>
    <3>. HIDE DEF s
    <3>1. s \in Seq(PipeChar)
      BY <2>1 DEF s
    <3>. QED  BY <3>1
  <2>. QED  BY <2>2, <2>3
<1>11. Wrote(A, S, B, V, i, T, U, <<c>>, {})
  BY <1>4, <1>5, <1>6, <1>7, <1>9, <1>10 DEF Wrote
<1>. QED  BY <1>1, <1>7, <1>11

\* Nothing written yet.
LEMMA WroteNothing ==
  ASSUME NEW A, NEW S, NEW i \in Slot, NEW T, NEW U, SlotKeeps(A, S, i, T, U, 0)
  PROVE  Wrote(A, S, A, S, i, T, U, <<>>, {})
<1>. DEFINE s == Inside(A, S, i, T)
<1>1. s \in Seq(PipeChar)
  BY SlotHolds
<1>2. s \o <<>> = s
  <2>. HIDE DEF s
  <2>. QED  BY <1>1
<1>. QED  BY <1>2 DEF Wrote, SamePipe

\* First some characters, then others.
LEMMA WroteOneMore ==
  ASSUME NEW A, NEW S, NEW B, NEW V, NEW C, NEW X, NEW i \in Slot, NEW T, NEW U, NEW W, NEW New,
         NEW spare \in {0, 1}, SlotKeeps(A, S, i, T, U, spare),
         NEW s \in Seq(PipeChar), NEW t \in Seq(PipeChar),
         Wrote(A, S, B, V, i, T, U, s, {}), Wrote(B, V, C, X, i, T, W, t, New)
  PROVE  Wrote(A, S, C, X, i, T, W, s \o t, New)
<1>1. SamePipe(A[i], B[i]) /\ SamePipe(B[i], C[i])
  BY DEF Wrote
<1>2. SamePipe(A[i], C[i]) /\ B[i].lockR = A[i].lockR /\ B[i].lockW = A[i].lockW
  BY <1>1 DEF SamePipe
<1>3. Inside(C, X, i, T) = Inside(A, S, i, T) \o (s \o t)
  <2>. DEFINE a == Inside(A, S, i, T)
  <2>1. a \in Seq(PipeChar)
    BY SlotHolds
  <2>2. Inside(C, X, i, T) = (a \o s) \o t
    BY DEF Wrote
  <2>3. (a \o s) \o t = a \o (s \o t)
    <3>. HIDE DEF a
    <3>. QED  BY <2>1
  <2>. QED  BY <2>2, <2>3
<1>4. \A u \in SyncId \ {A[i].lockR, A[i].lockW} : X[u] = S[u]
  BY <1>2 DEF Wrote
<1>5. /\ Members(X, A[i].lockR) \subseteq Members(S, A[i].lockR)
      /\ Members(X, A[i].lockW) = Members(S, A[i].lockW) \cup New
  BY <1>2 DEF Wrote
<1>6. SlotKeeps(C, X, i, T, W, 0) /\ \A j \in Slot \ {i} : C[j] = A[j]
  BY DEF Wrote
<1>. QED  BY <1>2, <1>3, <1>4, <1>5, <1>6 DEF Wrote

\* A turn of the loop that finds space.
LEMMA PutNextDoes ==
  ASSUME NEW A, NEW S, NEW i \in Slot, NEW T, NEW U, NEW c \in PipeChar,
         SlotKeeps(A, S, i, T, U, 0), S[A[i].lockW].value # 0, pipes[i].lockW = A[i].lockW
  PROVE  LET k == PutNext([array |-> A, sems |-> S], i, c) IN
         /\ k = [array |-> k.array, sems |-> k.sems]
         /\ Wrote(A, S, k.array, k.sems, i, T, U, <<c>>, {})
         /\ k.sems[A[i].lockW].value = S[A[i].lockW].value - 1
<1>. DEFINE V == AfterWait(S, A[i].lockW, 0)
            k == PutNext([array |-> A, sems |-> S], i, c)
            w == A[i].lockW
<1>1. k = PutChar([array |-> A, sems |-> V], i, c)
  BY DEF PutNext
<1>2. 0 \in Process
  BY PipelineAssumption DEF ShellProc
<1>3. /\ A \in [Slot -> Pipe] /\ S \in Semaphores /\ A[i].lockR \in SyncId /\ w \in SyncId
      /\ A[i].lockR # w /\ IsFiniteSet(T) /\ IsFiniteSet(U) /\ Kept(S, A[i].lockR, T) /\ Kept(S, w, U)
      /\ WritesBehind(A[i], Held(S, A[i].lockR, T))
      /\ Held(S, A[i].lockR, T) + Held(S, w, U) + 0 = BUFF_SIZE
  BY DEF SlotKeeps
<1>4. /\ V \in Semaphores /\ \A t \in SyncId \ {w} : V[t] = S[t]
      /\ Kept(V, w, U) /\ Held(V, w, U) = Held(S, w, U) - 1 /\ V[w].value = S[w].value - 1
      /\ Members(V, w) = Members(S, w)
  BY <1>2, <1>3, WaitTakes
<1>. HIDE DEF V
<1>5. /\ Kept(V, A[i].lockR, T) /\ Held(V, A[i].lockR, T) = Held(S, A[i].lockR, T)
      /\ Members(V, A[i].lockR) = Members(S, A[i].lockR)
  BY <1>3, <1>4, KeptStays
<1>6. SlotKeeps(A, V, i, T, U, 1)
  <2>1. Held(S, A[i].lockR, T) \in Nat /\ Held(S, w, U) \in Nat
    BY SlotHolds
  <2>2. Held(V, A[i].lockR, T) + Held(V, w, U) + 1 = BUFF_SIZE
    BY <1>3, <1>4, <1>5, <2>1
  <2>. QED  BY <1>3, <1>4, <1>5, <2>2 DEF SlotKeeps
<1>7. /\ k = [array |-> k.array, sems |-> k.sems]
      /\ Wrote(A, V, k.array, k.sems, i, T, U, <<c>>, {})
      /\ k.sems[w] = V[w]
  BY <1>1, <1>6, PutCharDoes
<1>. HIDE DEF k
<1>8. Inside(A, V, i, T) = Inside(A, S, i, T)
  BY <1>5 DEF Inside
<1>9. Wrote(A, S, k.array, k.sems, i, T, U, <<c>>, {})
  BY <1>4, <1>5, <1>7, <1>8 DEF Wrote
<1>. QED  BY <1>4, <1>7, <1>9 DEF k

-----------------------------------------------------------------------------
(***************************************************************************)
(* The loop of pWrite.                                                     *)
(***************************************************************************)
\* w lists what there is after each turn.
Turns(w, k0, i, str, m) ==
  w = [n \in 0 .. m |-> IF n = 0 THEN k0 ELSE PutNext(w[n - 1], i, str[n])]

\* The turns are well defined.
LEMMA TurnsExist ==
  ASSUME NEW k0, NEW i, NEW str, NEW m \in Nat
  PROVE  \E w : Turns(w, k0, i, str, m)
<1>. DEFINE N == {n \in Nat : \E w : Turns(w, k0, i, str, n)}
<1>1. 0 \in N
  <2>. DEFINE w == [n \in 0 .. 0 |-> k0]
  <2>1. \A n \in 0 .. 0 : n = 0
    OBVIOUS
  <2>2. w = [n \in 0 .. 0 |-> IF n = 0 THEN k0 ELSE PutNext(w[n - 1], i, str[n])]
    BY <2>1
  <2>. QED  BY <2>2 DEF Turns
<1>2. ASSUME NEW n \in Nat, n \in N PROVE n + 1 \in N
  <2>1. PICK w : Turns(w, k0, i, str, n)
    BY <1>2
  <2>. DEFINE v == [k \in 0 .. n + 1 |-> IF k = n + 1 THEN PutNext(w[n], i, str[n + 1]) ELSE w[k]]
  <2>2. \A k \in 0 .. n : w[k] = IF k = 0 THEN k0 ELSE PutNext(w[k - 1], i, str[k])
    <3>. DEFINE f == [k \in 0 .. n |-> IF k = 0 THEN k0 ELSE PutNext(w[k - 1], i, str[k])]
    <3>1. w = f
      BY <2>1, Zenon DEF Turns
    <3>2. \A k \in 0 .. n : f[k] = IF k = 0 THEN k0 ELSE PutNext(w[k - 1], i, str[k])
      OBVIOUS
    <3>. QED  BY <3>1, <3>2, Zenon
  <2>3. ASSUME NEW k \in 0 .. n + 1
        PROVE  v[k] = IF k = 0 THEN k0 ELSE PutNext(v[k - 1], i, str[k])
    <3>1. CASE k = n + 1
      <4>1. k # 0 /\ k - 1 = n /\ v[k] = PutNext(w[n], i, str[n + 1]) /\ n \in 0 .. n + 1 /\ n # n + 1
        BY <3>1
      <4>2. v[n] = w[n]
        BY <4>1
      <4>. QED  BY <3>1, <4>1, <4>2
    <3>2. CASE k # n + 1
      <4>1. k \in 0 .. n /\ v[k] = w[k]
        BY <3>2
      <4>2. k # 0 => k - 1 \in 0 .. n + 1 /\ k - 1 # n + 1
        BY <4>1
      <4>3. k # 0 => v[k - 1] = w[k - 1]
        BY <4>2
      <4>. QED  BY <2>2, <4>1, <4>3
    <3>. QED  BY <3>1, <3>2
  <2>4. v = [k \in 0 .. n + 1 |-> v[k]]
    OBVIOUS
  <2>. HIDE DEF v
  <2>5. v = [k \in 0 .. n + 1 |-> IF k = 0 THEN k0 ELSE PutNext(v[k - 1], i, str[k])]
    BY <2>3, <2>4
  <2>6. Turns(v, k0, i, str, n + 1)
    BY <2>5, Zenon DEF Turns
  <2>. QED  BY <2>6
<1>. HIDE DEF N
<1>3. m \in N
  BY <1>1, <1>2, NatSetInduction
<1>. QED  BY <1>3 DEF N

\* After n turns n characters are written.
AfterTurns(A, S, k, i, T, U, str, n) ==
  /\ k = [array |-> k.array, sems |-> k.sems]
  /\ Wrote(A, S, k.array, k.sems, i, T, U, SubSeq(str, 1, n), {})
  /\ k.sems[A[i].lockW].value = S[A[i].lockW].value - n

\* The first characters of a string, and the next.
LEMMA NextPrefix ==
  ASSUME NEW str \in Seq(PipeChar), NEW n \in Nat, n < Len(str)
  PROVE  /\ SubSeq(str, 1, n) \in Seq(PipeChar) /\ str[n + 1] \in PipeChar
         /\ <<str[n + 1]>> \in Seq(PipeChar)
         /\ SubSeq(str, 1, n + 1) = SubSeq(str, 1, n) \o <<str[n + 1]>>
<1>1. n + 1 \in 1 .. Len(str)
  OBVIOUS
<1>2. str[n + 1] \in PipeChar /\ SubSeq(str, 1, n) \in Seq(PipeChar)
  BY <1>1
<1>3. SubSeq(str, 1, n + 1) = SubSeq(str, 1, n) \o <<str[n + 1]>>
  BY <1>1, <1>2
<1>. QED  BY <1>2, <1>3

\* The loop, as far as there is space.
LEMMA LoopDoes ==
  ASSUME NEW A, NEW S, NEW i \in Slot, NEW T, NEW U, SlotKeeps(A, S, i, T, U, 0),
         pipes[i].lockW = A[i].lockW,
         NEW str \in Seq(PipeChar), NEW m \in 0 .. Len(str), m <= S[A[i].lockW].value,
         NEW w, Turns(w, [array |-> A, sems |-> S], i, str, m)
  PROVE  AfterTurns(A, S, w[m], i, T, U, str, m)
<1>. DEFINE k0 == [array |-> A, sems |-> S]
            N == {n \in Nat : n <= m => AfterTurns(A, S, w[n], i, T, U, str, n)}
<1>0. S[A[i].lockW].value \in Nat
  BY SlotHolds
<1>1. \A k \in 0 .. m : w[k] = IF k = 0 THEN k0 ELSE PutNext(w[k - 1], i, str[k])
  <2>. DEFINE f == [k \in 0 .. m |-> IF k = 0 THEN k0 ELSE PutNext(w[k - 1], i, str[k])]
  <2>1. w = f
    BY Zenon DEF Turns
  <2>2. \A k \in 0 .. m : f[k] = IF k = 0 THEN k0 ELSE PutNext(w[k - 1], i, str[k])
    OBVIOUS
  <2>. QED  BY <2>1, <2>2, Zenon
<1>2. 0 \in N
  <2>1. w[0] = k0
    BY <1>1
  <2>2. SubSeq(str, 1, 0) = <<>>
    OBVIOUS
  <2>3. Wrote(A, S, A, S, i, T, U, <<>>, {})
    BY WroteNothing
  <2>4. k0.array = A /\ k0.sems = S /\ S[A[i].lockW].value = S[A[i].lockW].value - 0
    BY <1>0
  <2>. QED  BY <2>1, <2>2, <2>3, <2>4 DEF AfterTurns
<1>3. ASSUME NEW n \in Nat, n \in N PROVE n + 1 \in N
  <2>. SUFFICES ASSUME n + 1 <= m PROVE AfterTurns(A, S, w[n + 1], i, T, U, str, n + 1)
    OBVIOUS
  <2>. DEFINE k == w[n]  c == str[n + 1]
  <2>1. AfterTurns(A, S, k, i, T, U, str, n)
    BY <1>3
  <2>2. w[n + 1] = PutNext(k, i, c)
    <3>1. n + 1 \in 0 .. m /\ n + 1 # 0 /\ n + 1 - 1 = n
      OBVIOUS
    <3>2. PICK j \in 0 .. m : j = n + 1
      BY <3>1
    <3>3. w[j] = PutNext(w[j - 1], i, str[j])
      BY <1>1, <3>1, <3>2
    <3>. QED  BY <3>1, <3>2, <3>3
  <2>3. /\ SubSeq(str, 1, n) \in Seq(PipeChar) /\ c \in PipeChar /\ <<c>> \in Seq(PipeChar)
        /\ SubSeq(str, 1, n + 1) = SubSeq(str, 1, n) \o <<c>>
    BY NextPrefix
  <2>. HIDE DEF k, c
  <2>4. /\ k = [array |-> k.array, sems |-> k.sems]
        /\ Wrote(A, S, k.array, k.sems, i, T, U, SubSeq(str, 1, n), {})
        /\ k.sems[A[i].lockW].value = S[A[i].lockW].value - n
    BY <2>1 DEF AfterTurns
  <2>. DEFINE B == k.array  V == k.sems  l == PutNext([array |-> B, sems |-> V], i, c)
              C == l.array  X == l.sems  lock == A[i].lockW
  <2>5. SlotKeeps(B, V, i, T, U, 0) /\ B[i].lockW = lock /\ V[lock].value = S[lock].value - n
    BY <2>4 DEF Wrote, SamePipe
  <2>6. V[B[i].lockW].value # 0 /\ pipes[i].lockW = B[i].lockW
    BY <1>0, <2>5
  <2>. HIDE DEF B, V
  <2>7. l = [array |-> C, sems |-> X] /\ Wrote(B, V, C, X, i, T, U, <<c>>, {})
        /\ X[B[i].lockW].value = V[B[i].lockW].value - 1
    BY <2>3, <2>5, <2>6, PutNextDoes
  <2>8. l = w[n + 1]
    BY <2>2, <2>4 DEF B, V
  <2>. HIDE DEF C, X
  <2>9. Wrote(A, S, C, X, i, T, U, SubSeq(str, 1, n) \o <<c>>, {})
    BY <2>3, <2>4, <2>7, WroteOneMore DEF B, V
  <2>10. X[lock].value = S[lock].value - (n + 1)
    <3>1. X[lock].value = V[lock].value - 1 /\ V[lock].value = S[lock].value - n
      BY <2>5, <2>7
    <3>2. S[lock].value \in Nat
      BY <1>0
    <3>. HIDE DEF lock
    <3>. QED  BY <3>1, <3>2
  <2>. QED  BY <2>3, <2>7, <2>8, <2>9, <2>10 DEF AfterTurns, C, X
<1>. HIDE DEF N
<1>4. m \in N
  BY <1>2, <1>3, NatSetInduction
<1>. QED  BY <1>4 DEF N

\* The writer finds no space for the next character.
LEMMA WriterSleeps ==
  ASSUME NEW A, NEW S, NEW B, NEW V, NEW i \in Slot, NEW T, NEW U, NEW s,
         A[i].lockR \in SyncId, A[i].lockW \in SyncId, A[i].lockR # A[i].lockW,
         Wrote(A, S, B, V, i, T, U, s, {}), V[A[i].lockW].value = 0, NEW p \in Process, p \notin U
  PROVE  Wrote(A, S, B, AfterWait(V, A[i].lockW, p), i, T, U \cup {p}, s, {p})
<1>. DEFINE w == A[i].lockW  r == A[i].lockR  X == AfterWait(V, w, p)
<1>1. /\ SlotKeeps(B, V, i, T, U, 0) /\ B[i].lockW = w /\ B[i].lockR = r
      /\ Members(V, w) = Members(S, w)
  BY DEF Wrote, SamePipe
<1>2. /\ B \in [Slot -> Pipe] /\ V \in Semaphores /\ IsFiniteSet(T) /\ IsFiniteSet(U)
      /\ Kept(V, r, T) /\ Kept(V, w, U) /\ WritesBehind(B[i], Held(V, r, T))
      /\ Held(V, r, T) + Held(V, w, U) + 0 = BUFF_SIZE
  BY <1>1 DEF SlotKeeps
<1>3. /\ X \in Semaphores /\ \A t \in SyncId \ {w} : X[t] = V[t]
      /\ Kept(X, w, U \cup {p}) /\ Held(X, w, U \cup {p}) = Held(V, w, U)
      /\ Members(X, w) = Members(V, w) \cup {p}
  BY <1>2, WaitSleeps
<1>. HIDE DEF X
<1>4. /\ Kept(X, r, T) /\ Held(X, r, T) = Held(V, r, T) /\ Members(X, r) = Members(V, r)
  BY <1>2, <1>3, KeptStays
<1>5. IsFiniteSet(U \cup {p})
  BY <1>2, OneMore
<1>6. SlotKeeps(B, X, i, T, U \cup {p}, 0)
  BY <1>1, <1>2, <1>3, <1>4, <1>5 DEF SlotKeeps
<1>7. Inside(B, X, i, T) = Inside(B, V, i, T)
  BY <1>1, <1>4 DEF Inside
<1>8. Wrote(A, S, B, X, i, T, U \cup {p}, s, {p})
  BY <1>1, <1>3, <1>4, <1>6, <1>7 DEF Wrote
<1>. QED  BY <1>8 DEF X

\* A pWrite of str by p, up to the sleep of p or to its end: n characters are written.
WritesUpTo(A, S, i, T, U, p, str, n) ==
  /\ n \in 0 .. Len(str)
  /\ n = Len(str) => /\ Wrote(A, S, pipes', sync', i, T, U, str, {})
                     /\ inCall' = [inCall EXCEPT ![p] = [op |-> "none"]]
  /\ n # Len(str) => /\ Wrote(A, S, pipes', sync', i, T, U \cup {p}, SubSeq(str, 1, n), {p})
                     /\ inCall' = [inCall EXCEPT ![p] =
                                     [op |-> "pWrite", slot |-> i, rest |-> SubSeq(str, n + 1, Len(str))]]
  /\ UNCHANGED <<semId, lastRead>>

\* It is so.
LEMMA WriteFromDoes ==
  ASSUME NEW A, NEW S, NEW i \in Slot, NEW T, NEW U, SlotKeeps(A, S, i, T, U, 0),
         pipes[i].lockW = A[i].lockW, NEW str \in Seq(PipeChar), NEW p \in Process, p \notin U,
         WriteFrom(p, [array |-> A, sems |-> S], i, str)
  PROVE  \E n \in 0 .. Len(str) : WritesUpTo(A, S, i, T, U, p, str, n)
<1>. DEFINE k0 == [array |-> A, sems |-> S]
            m == Room(S, i, str)
            w == CHOOSE w : Turns(w, k0, i, str, m)
            lock == A[i].lockW
<1>1. /\ lock \in SyncId /\ A[i].lockR \in SyncId /\ A[i].lockR # lock
      /\ S[lock].value \in Nat /\ S[lock] # NoSync /\ Len(str) \in Nat
  <2>1. 0 \in {0, 1}
    OBVIOUS
  <2>2. S[lock].value \in Nat /\ S[lock] # NoSync
    BY <2>1, SlotHolds
  <2>. QED  BY <2>2 DEF SlotKeeps
<1>2. m \in 0 .. Len(str) /\ m <= S[lock].value /\ (m # Len(str) => m = S[lock].value)
  BY <1>1 DEF Room
<1>3. /\ pipes' = w[m].array
      /\ sync' = IF m = Len(str) THEN w[m].sems ELSE AfterWait(w[m].sems, lock, p)
      /\ inCall' = [inCall EXCEPT ![p] = IF m = Len(str) THEN [op |-> "none"]
                      ELSE [op |-> "pWrite", slot |-> i, rest |-> SubSeq(str, m + 1, Len(str))]]
      /\ UNCHANGED <<semId, lastRead>>
  <2>1. k0.sems = S
    OBVIOUS
  <2>. QED  BY <2>1 DEF WriteFrom, Turns
<1>. HIDE DEF m
<1>4. Turns(w, k0, i, str, m)
  <2>1. m \in Nat
    BY <1>1, <1>2
  <2>2. \E v : Turns(v, k0, i, str, m)
    BY <2>1, TurnsExist
  <2>. QED  BY <2>2
<1>. HIDE DEF w
<1>5. PICK n \in 0 .. Len(str) : n = m
  BY <1>2
<1>6. PICK v : v = w
  OBVIOUS
<1>7. AfterTurns(A, S, v[n], i, T, U, str, n)
  BY <1>2, <1>4, <1>5, <1>6, LoopDoes
<1>. DEFINE B == v[n].array  V == v[n].sems
<1>8. /\ Wrote(A, S, B, V, i, T, U, SubSeq(str, 1, n), {})
      /\ V[lock].value = S[lock].value - n
  BY <1>7 DEF AfterTurns
<1>9. pipes' = B /\ (n = Len(str) => sync' = V) /\ (n # Len(str) => sync' = AfterWait(V, lock, p))
  BY <1>3, <1>5, <1>6
<1>. HIDE DEF B, V
<1>10. n = Len(str) => Wrote(A, S, pipes', sync', i, T, U, str, {})
  <2>1. SubSeq(str, 1, Len(str)) = str
    OBVIOUS
  <2>. QED  BY <1>8, <1>9, <2>1
<1>11. n # Len(str) => Wrote(A, S, pipes', sync', i, T, U \cup {p}, SubSeq(str, 1, n), {p})
  <2>. SUFFICES ASSUME n # Len(str)
                PROVE  Wrote(A, S, pipes', sync', i, T, U \cup {p}, SubSeq(str, 1, n), {p})
    OBVIOUS
  <2>1. V[lock].value = 0
    BY <1>1, <1>2, <1>5, <1>8
  <2>2. Wrote(A, S, B, AfterWait(V, A[i].lockW, p), i, T, U \cup {p}, SubSeq(str, 1, n), {p})
    BY <1>1, <1>8, <2>1, WriterSleeps
  <2>. QED  BY <1>9, <2>2
<1>12. WritesUpTo(A, S, i, T, U, p, str, n)
  BY <1>3, <1>5, <1>10, <1>11 DEF WritesUpTo
<1>. QED  BY <1>12

-----------------------------------------------------------------------------
(***************************************************************************)
(* The invariant.  First what the pipes, the programs and the shell have   *)
(* to do with each other.                                                  *)
(***************************************************************************)
InUse(i) == pipes[i].state = "IN_USE"
Whole(i) == InUse(i) /\ pipes[i].lockR # -1 /\ pipes[i].lockW = pipes[i].lockR + 1
Serves(i, id) == i \in Slot /\ Whole(i) /\ pipes[i].id = id

Call == [op : {"none"}] \cup [op : {"pRead"}, slot : Slot]
          \cup [op : {"pWrite"}, slot : Slot, rest : Seq(PipeChar) \ {<<>>}]
Command == {"none", "cat", "filter", "wc", "invalid"}
ProgramState == [command : Command, pc : {"dead", "read", "write", "count"},
                 char : PipeChar, lines : Nat]

TypesOK ==
  /\ inCall \in [Process -> Call]
  /\ prog \in [Program -> ProgramState]
  /\ commands \in Command \X Command
  /\ pipeline \in 0 .. MaxPipelines /\ shellPipe = FIRST_PIPE + pipeline
  /\ semId \in FIRST_SEM .. FIRST_SEM + 2 * pipeline
  /\ leaked \in Nat

\* No two slots share an id or a semaphore, and a slot counts one user at most.
SlotsApart ==
  /\ pipes \in [Slot -> Pipe]
  /\ \A i \in Slot : pipes[i].lockW <= semId
  /\ \A i \in Slot : InUse(i) => /\ pipes[i].id \in FIRST_PIPE .. shellPipe - 1
                                 /\ pipes[i].lockR \in {-1} \cup FIRST_SEM .. semId - 2
  /\ \A i, j \in Slot : InUse(i) /\ InUse(j) /\ pipes[i].id = pipes[j].id => i = j
  /\ \A i, j \in Slot : InUse(i) /\ InUse(j) /\ i # j /\ pipes[i].lockR # -1 =>
       pipes[i].lockR # pipes[j].lockR /\ pipes[i].lockR + 1 # pipes[j].lockR
  /\ \A i \in Slot : pipes[i].totalProcesses <= IF i < shellPipe THEN 1 ELSE 0

\* The programs that live have their pipe.
ProgramsServed ==
  \A p \in Program : Alive(p) => p <= 2 * pipeline /\ \E i \in Slot : Serves(i, PipeOf(p))

\* Where the shell is in runPipe, and what it knows then.
Working == shellPc \in {"right", "left", "sleep", "writing", "wait", "pClose"}
ShellKnows ==
  /\ shellPc = "pOpen" => pipeline < MaxPipelines
  /\ Working => pipeline >= 1 /\ \E i \in Slot : Serves(i, OurPipe)
  /\ shellPc \in {"right", "left", "writing", "wait", "pClose"} => ~ Alive(Left(pipeline))
  /\ shellPc \in {"right", "pClose"} => ~ Alive(Right(pipeline))

\* Who sleeps in a call is a living program or the shell, in the slot of its pipe.
CallOK(p) ==
  \/ inCall[p].op = "none"
  \/ /\ inCall[p].op = "pWrite" /\ p = ShellProc /\ shellPc = "writing"
     /\ Serves(inCall[p].slot, OurPipe)
  \/ /\ inCall[p].op = "pWrite" /\ p \in Program /\ IsLeft(p) /\ prog[p].pc \in {"write", "count"}
     /\ Serves(inCall[p].slot, PipeOf(p))
  \/ /\ inCall[p].op = "pRead" /\ p \in Program /\ ~ IsLeft(p) /\ prog[p].pc = "read"
     /\ Serves(inCall[p].slot, PipeOf(p))
CallsServed == \A p \in Process : CallOK(p)

UsedSlots == {i \in Slot : InUse(i)}
SlotsCounted == Cardinality(UsedSlots) = leaked + IF Working THEN 1 ELSE 0

\* What is typed is a character, and no program counts more lines than were typed.
LinesCounted(p) ==
  /\ prog[p].lines + keys.size <= pressed
  /\ Alive(p) => prog[p].command \in LeftCommands
  /\ prog[p].pc = "count" => prog[p].command = "wc"
KeysCounted ==
  /\ keys.queue \in [0 .. dim - 1 -> Keystrokes \cup {Zero}]
  /\ keys.front \in 0 .. dim - 1 /\ keys.rear \in -1 .. dim - 1 /\ keys.size \in Nat
  /\ pressed \in 0 .. KeyCap /\ keys.size <= pressed
  /\ shellPc \in {"pOpen", "right", "left"} => commands[1] \in LeftCommands
  /\ \A p \in Program : IsLeft(p) => LinesCounted(p)
  /\ \A p \in getting : p = ShellProc \/ (p \in Program /\ IsLeft(p) /\ prog[p].pc = "read")

Control == /\ TypesOK /\ SlotsApart /\ ProgramsServed /\ ShellKnows /\ CallsServed
           /\ SlotsCounted /\ KeysCounted

\* Then the semaphores.  Who is in a line waits for a key or sleeps in a call.
Readers(i) == {p \in Process : inCall[p].op = "pRead" /\ inCall[p].slot = i}
Writers(i) == {p \in Process : inCall[p].op = "pWrite" /\ inCall[p].slot = i}

InLine(p, s) ==
  \/ s = KEY_SEM_ID /\ p \in getting
  \/ inCall[p].op = "pRead" /\ s = pipes[inCall[p].slot].lockR
  \/ inCall[p].op = "pWrite" /\ s = pipes[inCall[p].slot].lockW
LinesOK ==
  /\ sync \in Semaphores /\ sync[KEY_SEM_ID] # NoSync
  /\ \A s \in PipeSems : s >= semId => sync[s] = NoSync
  /\ \A s \in SyncId : sync[s] # NoSync => \A p \in Members(sync, s) : InLine(p, s)

\* A slot that newPipe could not finish stays empty.
SlotsFlow ==
  \A i \in Slot :
    /\ Whole(i) => SlotKeeps(pipes, sync, i, Readers(i), Writers(i), 0)
    /\ InUse(i) /\ ~ Whole(i) /\ pipes[i].lockR # -1 => sync[pipes[i].lockR].value = 0

LastOK == lastRead \in [Slot -> PipeChar]

PipesInv == Control /\ LinesOK /\ SlotsFlow /\ LastOK

-----------------------------------------------------------------------------
(***************************************************************************)
(* Ids and slots.                                                          *)
(***************************************************************************)
\* The constants.
LEMMA Bounds ==
  /\ MaxPipelines \in Nat /\ KeyCap \in Nat /\ PIPE_COUNT \in Nat \ {0} /\ BUFF_SIZE \in Nat \ {0}
  /\ FIRST_SEM \in Nat /\ dim \in Nat \ {0}
  /\ IsFiniteSet(Slot) /\ IsFiniteSet(Program) /\ -1 \notin Slot
  /\ Program \subseteq Process /\ ShellProc \in Process /\ ShellProc \notin Program
  /\ KEY_SEM_ID \in SyncId /\ PipeSems \subseteq SyncId /\ KEY_SEM_ID \notin PipeSems
  /\ FIRST_PIPE = 42 /\ NoChar \in PipeChar /\ ~ IsLeft(ShellProc)
<1>1. MaxPipelines \in Nat /\ PIPE_COUNT \in Nat \ {0}
  BY PipelineAssumption, PipesAssumption
<1>2. 0 \in Int /\ PIPE_COUNT - 1 \in Int /\ 1 \in Int /\ 2 * MaxPipelines \in Int
  BY <1>1
<1>3. IsFiniteSet(Slot) /\ IsFiniteSet(Program)
  BY <1>2, FS_Interval DEF Slot, Program
<1>4. -1 \notin Slot /\ 0 \notin Program /\ ~ IsLeft(0)
  BY <1>1 DEF Slot, Program, IsLeft
<1>. QED
  BY <1>1, <1>3, <1>4, PipelineAssumption, PipesAssumption, KeyboardAssumption,
     StaticQueueAssumption DEF FIRST_PIPE, ShellProc

\* The two programs of a pipeline.
LEMMA TwoPrograms ==
  ASSUME NEW n \in 1 .. MaxPipelines
  PROVE  /\ Left(n) \in Program /\ Right(n) \in Program /\ Left(n) # Right(n)
         /\ IsLeft(Left(n)) /\ ~ IsLeft(Right(n))
         /\ PipeOf(Left(n)) = FIRST_PIPE + n - 1 /\ PipeOf(Right(n)) = FIRST_PIPE + n - 1
         /\ \A p \in Program : PipeOf(p) = FIRST_PIPE + n - 1 => p = Left(n) \/ p = Right(n)
<1>1. MaxPipelines \in Nat
  BY Bounds
<1>. QED  BY <1>1 DEF Left, Right, Program, IsLeft, PipeOf, FIRST_PIPE

\* The id of a pipe is a number.
LEMMA PipeIds == ASSUME NEW p \in Program PROVE PipeOf(p) \in Nat
<1>1. MaxPipelines \in Nat
  BY Bounds
<1>. QED  BY <1>1 DEF Program, PipeOf, FIRST_PIPE

\* The first slot of a set.
LEMMA FirstSlotIs ==
  ASSUME NEW S \in SUBSET Slot
  PROVE  /\ S = {} => FirstSlot(S) = -1
         /\ S # {} => FirstSlot(S) \in S
         /\ \A i \in S : (\A j \in S : j = i) => FirstSlot(S) = i
<1>1. S # {} => FirstSlot(S) \in S
  <2>. SUFFICES ASSUME S # {} PROVE FirstSlot(S) \in S
    OBVIOUS
  <2>1. S \subseteq Nat
    BY Bounds DEF Slot
  <2>2. \E i \in S : \A j \in S : i <= j
    BY <2>1, LeastNatural
  <2>. QED  BY <2>2 DEF FirstSlot
<1>. QED  BY <1>1 DEF FirstSlot

\* A pipe with that id is found.
LEMMA SlotFound ==
  ASSUME SlotsApart, NEW id, NEW i, Serves(i, id)
  PROVE  getPipeIdx(id) = i /\ i \in Slot /\ i # -1
<1>. DEFINE S == {j \in Slot : pipes[j].state = "IN_USE" /\ pipes[j].id = id}
<1>1. i \in S /\ (\A j \in S : j = i) /\ S \in SUBSET Slot
  BY DEF SlotsApart, Serves, Whole, InUse
<1>. HIDE DEF S
<1>2. FirstSlot(S) = i
  BY <1>1, FirstSlotIs
<1>3. getPipeIdx(id) = i
  BY <1>2 DEF getPipeIdx, S
<1>. QED  BY <1>3, Bounds DEF Serves

\* The next id is not in use.
LEMMA NextIdIsNew ==
  ASSUME TypesOK, SlotsApart
  PROVE  getPipeIdx(shellPipe) = -1
<1>1. shellPipe \in Nat
  BY Bounds DEF TypesOK
<1>2. {j \in Slot : pipes[j].state = "IN_USE" /\ pipes[j].id = shellPipe} = {}
  BY <1>1 DEF SlotsApart, InUse, FIRST_PIPE
<1>. QED  BY <1>2 DEF getPipeIdx, FirstSlot

\* The invariant is enough.
LEMMA ControlGivesSlots == Control => SlotOutlivesUsers
<1>. SUFFICES ASSUME Control PROVE SlotOutlivesUsers
  OBVIOUS
<1>1. ASSUME NEW p \in Program, Alive(p) PROVE getPipeIdx(PipeOf(p)) # -1
  <2>1. PICK i \in Slot : Serves(i, PipeOf(p))
    BY <1>1 DEF Control, ProgramsServed
  <2>. QED  BY <2>1, SlotFound DEF Control
<1>2. ASSUME NEW p \in Program, InCall(p) PROVE inCall[p].slot = getPipeIdx(PipeOf(p))
  <2>1. Serves(inCall[p].slot, PipeOf(p))
    BY <1>2, Bounds DEF Control, CallsServed, CallOK, InCall
  <2>2. PICK i : i = inCall[p].slot
    OBVIOUS
  <2>. QED  BY <2>1, <2>2, SlotFound DEF Control
<1>3. ASSUME InCall(ShellProc) PROVE inCall[ShellProc].slot = getPipeIdx(OurPipe)
  <2>1. Serves(inCall[ShellProc].slot, OurPipe)
    BY <1>3, Bounds DEF Control, CallsServed, CallOK, InCall
  <2>2. PICK i, id : i = inCall[ShellProc].slot /\ id = OurPipe
    OBVIOUS
  <2>. QED  BY <2>1, <2>2, SlotFound DEF Control
<1>4. ASSUME shellPc = "prompt" PROVE Cardinality({i \in Slot : pipes[i].state = "IN_USE"}) = leaked
  <2>1. ~ Working /\ leaked \in Nat
    BY <1>4 DEF Working, Control, TypesOK
  <2>2. Cardinality(UsedSlots) = leaked
    BY <2>1 DEF Control, SlotsCounted
  <2>. QED  BY <2>2 DEF UsedSlots, InUse
<1>. QED  BY <1>1, <1>2, <1>3, <1>4 DEF SlotOutlivesUsers

-----------------------------------------------------------------------------
(***************************************************************************)
(* Steps that open and close nothing keep the control.                     *)
(***************************************************************************)
SameSlots ==
  /\ pipes' \in [Slot -> Pipe]
  /\ \A i \in Slot : SamePipe(pipes[i], pipes'[i])
  /\ UNCHANGED <<semId, pipeline, shellPipe>>

\* Each slot serves whom it served.
LEMMA SlotsStay ==
  ASSUME Control, SameSlots
  PROVE  /\ SlotsApart' /\ UsedSlots' = UsedSlots /\ OurPipe' = OurPipe
         /\ \A i \in Slot : InUse(i)' = InUse(i) /\ Whole(i)' = Whole(i)
         /\ \A i \in Slot : \A id \in Nat : Serves(i, id) => Serves(i, id)'
<1>1. \A i \in Slot : /\ pipes'[i].state = pipes[i].state /\ pipes'[i].id = pipes[i].id
                      /\ pipes'[i].totalProcesses = pipes[i].totalProcesses
                      /\ pipes'[i].lockR = pipes[i].lockR /\ pipes'[i].lockW = pipes[i].lockW
  BY DEF SameSlots, SamePipe
<1>2. \A i \in Slot : InUse(i)' = InUse(i) /\ Whole(i)' = Whole(i)
  BY <1>1 DEF InUse, Whole
<1>3. \A i \in Slot : \A id \in Nat : Serves(i, id) => Serves(i, id)'
  BY <1>1, <1>2 DEF Serves
<1>4. SlotsApart'
  BY <1>1, <1>2 DEF SlotsApart, Control, SameSlots
<1>5. UsedSlots' = UsedSlots /\ OurPipe' = OurPipe
  BY <1>2 DEF UsedSlots, OurPipe, SameSlots
<1>. QED  BY <1>2, <1>3, <1>4, <1>5

\* One process makes a step: it stays alive or dies, and sleeps in its own slot.
Acts(p) ==
  /\ SameSlots /\ UNCHANGED <<leaked, commands, shellPc>>
  /\ inCall' \in [Process -> Call] /\ prog' \in [Program -> ProgramState]
  /\ \A q \in Process \ {p} : inCall'[q] = inCall[q]
  /\ \A q \in Program \ {p} : prog'[q] = prog[q]
  /\ p \in Program /\ prog'[p].pc # "dead" => Alive(p)

\* The others are served as before.
LEMMA ActorMoves ==
  ASSUME Control, NEW p \in Process, Acts(p), CallOK(p)', KeysCounted'
  PROVE  Control'
<1>1. /\ SameSlots /\ UNCHANGED <<leaked, commands, shellPc>>
      /\ inCall' \in [Process -> Call] /\ prog' \in [Program -> ProgramState]
      /\ \A q \in Process \ {p} : inCall'[q] = inCall[q]
      /\ \A q \in Program \ {p} : prog'[q] = prog[q]
      /\ \A q \in Program : Alive(q)' => Alive(q)
  BY DEF Acts, Alive
<1>2. /\ SlotsApart' /\ UsedSlots' = UsedSlots /\ OurPipe' = OurPipe
      /\ \A i \in Slot : \A id \in Nat : Serves(i, id) => Serves(i, id)'
  BY <1>1, SlotsStay
<1>3. TypesOK'
  BY <1>1 DEF Control, TypesOK, SameSlots
<1>4. ProgramsServed'
  BY <1>1, <1>2, PipeIds DEF Control, ProgramsServed, SameSlots
<1>5. OurPipe \in Nat
  BY Bounds DEF OurPipe, Control, TypesOK
<1>6. ShellKnows'
  <2>1. pipeline' = pipeline /\ shellPc' = shellPc
    BY <1>1 DEF SameSlots
  <2>2. Working' = Working
    BY <2>1 DEF Working
  <2>3. Working' => pipeline' >= 1 /\ \E i \in Slot : Serves(i, OurPipe)'
    <3>. SUFFICES ASSUME Working PROVE pipeline' >= 1 /\ \E i \in Slot : Serves(i, OurPipe)'
      BY <2>2
    <3>1. PICK i \in Slot, id \in Nat : Serves(i, id) /\ id = OurPipe
      BY <1>5 DEF Control, ShellKnows
    <3>2. Serves(i, id)' /\ id = OurPipe'
      BY <1>2, <3>1
    <3>3. Serves(i, OurPipe)'
      BY <3>2 DEF Serves
    <3>. QED  BY <2>1, <3>3 DEF Control, ShellKnows
  <2>4. ASSUME NEW n \in {Left(pipeline), Right(pipeline)}, ~ Alive(n), pipeline \in 1 .. MaxPipelines
        PROVE  ~ Alive(n)'
    BY <1>1, <2>4, TwoPrograms
  <2>5. shellPc \in {"right", "left", "writing", "wait", "pClose"} => ~ Alive(Left(pipeline))'
    <3>. SUFFICES ASSUME shellPc \in {"right", "left", "writing", "wait", "pClose"}
                  PROVE  ~ Alive(Left(pipeline))'
      OBVIOUS
    <3>1. pipeline \in 1 .. MaxPipelines /\ ~ Alive(Left(pipeline))
      BY Bounds DEF Control, ShellKnows, Working, TypesOK
    <3>2. PICK n : n = Left(pipeline)
      OBVIOUS
    <3>3. ~ Alive(n)'
      BY <2>4, <3>1, <3>2
    <3>4. Left(pipeline)' = n
      BY <2>1, <3>2 DEF Left
    <3>. QED  BY <3>3, <3>4 DEF Alive
  <2>6. shellPc \in {"right", "pClose"} => ~ Alive(Right(pipeline))'
    <3>. SUFFICES ASSUME shellPc \in {"right", "pClose"}
                  PROVE  ~ Alive(Right(pipeline))'
      OBVIOUS
    <3>1. pipeline \in 1 .. MaxPipelines /\ ~ Alive(Right(pipeline))
      BY Bounds DEF Control, ShellKnows, Working, TypesOK
    <3>2. PICK n : n = Right(pipeline)
      OBVIOUS
    <3>3. ~ Alive(n)'
      BY <2>4, <3>1, <3>2
    <3>4. Right(pipeline)' = n
      BY <2>1, <3>2 DEF Right
    <3>. QED  BY <3>3, <3>4 DEF Alive
  <2>. QED  BY <2>1, <2>3, <2>5, <2>6 DEF ShellKnows, Control
<1>7. CallsServed'
  <2>1. ASSUME NEW q \in Process, q # p PROVE CallOK(q)'
    <3>1. /\ inCall'[q] = inCall[q] /\ shellPc' = shellPc /\ CallOK(q)
          /\ q \in Program => prog'[q] = prog[q]
      BY <1>1, <2>1 DEF Control, CallsServed, SameSlots
    <3>2. PICK i : i = inCall[q].slot
      OBVIOUS
    <3>3. Serves(inCall[q].slot, OurPipe) => Serves(inCall[q].slot, OurPipe)'
      <4>0. PICK id \in Nat : id = OurPipe
        BY <1>5
      <4>1. Serves(i, id) => Serves(i, id)'
        BY <1>2 DEF Serves
      <4>. QED  BY <1>2, <3>1, <3>2, <4>0, <4>1 DEF Serves
    <3>4. q \in Program /\ Serves(inCall[q].slot, PipeOf(q)) => Serves(inCall[q].slot, PipeOf(q))'
      <4>. SUFFICES ASSUME q \in Program, Serves(inCall[q].slot, PipeOf(q))
                    PROVE  Serves(inCall[q].slot, PipeOf(q))'
        OBVIOUS
      <4>1. Serves(i, PipeOf(q)) => Serves(i, PipeOf(q))'
        BY <1>2, PipeIds DEF Serves
      <4>. QED  BY <3>1, <3>2, <4>1 DEF Serves
    <3>. QED  BY <3>1, <3>3, <3>4 DEF CallOK
  <2>. QED  BY <2>1 DEF CallsServed
<1>8. SlotsCounted'
  BY <1>1, <1>2 DEF Control, SlotsCounted, Working, SameSlots
<1>. QED  BY <1>2, <1>3, <1>4, <1>6, <1>7, <1>8 DEF Control

\* The key that leaves the ring, and what is left.
LEMMA TakeKeyCounts ==
  ASSUME KeysCounted, TakeKey
  PROVE  /\ taken' \in Keystrokes \cup {Zero}
         /\ keys'.queue \in [0 .. dim - 1 -> Keystrokes \cup {Zero}]
         /\ keys'.front \in 0 .. dim - 1 /\ keys'.rear \in -1 .. dim - 1 /\ keys'.size \in Nat
         /\ keys'.size <= keys.size
         /\ taken' = "newline" => keys'.size + 1 = keys.size
<1>1. taken' = Removed(keys) /\ keys' = queueRemoveData(keys)
  BY DEF TakeKey
<1>2. CASE keys.size = 0
  BY <1>1, <1>2, PipelineAssumption DEF Removed, queueRemoveData, queueIsEmpty, KeysCounted
<1>3. CASE keys.size # 0
  <2>1. taken' = keys.queue[keys.front]
    BY <1>1, <1>3 DEF Removed, queueIsEmpty
  <2>2. keys' = [queue |-> keys.queue, front |-> NextFront(keys.front), rear |-> keys.rear,
                 size |-> keys.size - 1]
    BY <1>1, <1>3 DEF queueRemoveData, queueIsEmpty
  <2>3. NextFront(keys.front) \in 0 .. dim - 1
    BY Bounds DEF NextFront, KeysCounted
  <2>4. keys.size - 1 \in Nat /\ keys.queue \in [0 .. dim - 1 -> Keystrokes \cup {Zero}]
        /\ keys.rear \in -1 .. dim - 1 /\ keys.size \in Nat /\ keys.front \in 0 .. dim - 1
    BY <1>3 DEF KeysCounted
  <2>5. taken' \in Keystrokes \cup {Zero}
    BY <2>1, <2>4
  <2>. QED  BY <2>2, <2>3, <2>4, <2>5
<1>. QED  BY <1>2, <1>3

\* What a program does with a character.
LEMMA ReadsDo ==
  ASSUME prog \in [Program -> ProgramState], NEW p \in Program, Alive(p),
         NEW c \in PipeChar, Reads(p, c)
  PROVE  /\ prog' \in [Program -> ProgramState]
         /\ \A q \in Program \ {p} : prog'[q] = prog[q]
         /\ prog'[p].lines <= prog[p].lines \/ (c = "newline" /\ prog'[p].lines = prog[p].lines + 1)
         /\ prog'[p].pc # "dead" => prog'[p].command = prog[p].command
         /\ prog'[p].pc = "count" => prog'[p].command = "wc"
<1>. DEFINE r == prog[p]  x == Received(r, c)
<1>1. prog' = [prog EXCEPT ![p] = x]
  BY DEF Reads
<1>2. r \in ProgramState
  OBVIOUS
<1>. HIDE DEF r, x
<1>3. /\ x \in ProgramState
      /\ x.lines <= r.lines \/ (c = "newline" /\ x.lines = r.lines + 1)
      /\ x.pc # "dead" => x.command = r.command
      /\ x.pc = "count" => x.command = "wc"
  <2>1. CASE c = EOF /\ r.command = "wc"
    <3>1. x = [r EXCEPT !.pc = "count"]
      BY <2>1 DEF x, Received
    <3>. QED  BY <1>2, <2>1, <3>1 DEF ProgramState
  <2>2. CASE c = EOF /\ r.command # "wc"
    <3>1. x = NoProgram
      BY <2>2 DEF x, Received
    <3>. QED  BY <1>2, <2>2, <3>1, Bounds DEF ProgramState, NoProgram, Command
  <2>3. CASE c # EOF /\ r.command = "filter" /\ c \in Vowel
    <3>1. x = [r EXCEPT !.pc = "read"]
      BY <2>3 DEF x, Received
    <3>. QED  BY <1>2, <2>3, <3>1 DEF ProgramState
  <2>4. CASE c # EOF /\ ~ (r.command = "filter" /\ c \in Vowel)
    <3>. DEFINE n == IF c = "newline" THEN r.lines + 1 ELSE r.lines
    <3>1. x = [r EXCEPT !.pc = "write", !.char = c, !.lines = n]
      BY <2>4 DEF x, Received
    <3>2. /\ n \in Nat /\ (n <= r.lines \/ (c = "newline" /\ n = r.lines + 1))
      BY <1>2 DEF ProgramState
    <3>. HIDE DEF n
    <3>. QED  BY <1>2, <2>4, <3>1, <3>2 DEF ProgramState
  <2>. QED  BY <2>1, <2>2, <2>3, <2>4
<1>. QED  BY <1>1, <1>3 DEF r

\* What it does after a write.
LEMMA AfterWriteDoes ==
  ASSUME prog \in [Program -> ProgramState], NEW p \in Program, AfterWrite(p)
  PROVE  /\ prog' \in [Program -> ProgramState]
         /\ \A q \in Program \ {p} : prog'[q] = prog[q]
         /\ prog'[p].lines <= prog[p].lines
         /\ prog'[p].pc # "dead" => prog'[p].command = prog[p].command
         /\ prog'[p].pc # "count"
<1>1. CASE prog[p].pc = "count"
  <2>1. prog' = [prog EXCEPT ![p] = NoProgram]
    BY <1>1 DEF AfterWrite
  <2>2. NoProgram \in ProgramState
    BY Bounds DEF ProgramState, NoProgram, Command
  <2>3. prog[p] \in ProgramState
    OBVIOUS
  <2>. QED  BY <2>1, <2>2, <2>3 DEF ProgramState, NoProgram
<1>2. CASE prog[p].pc # "count"
  <2>1. prog' = [prog EXCEPT ![p] = [prog[p] EXCEPT !.pc = "read"]]
    BY <1>2 DEF AfterWrite
  <2>2. prog[p] \in ProgramState
    OBVIOUS
  <2>. QED  BY <2>1, <2>2 DEF ProgramState
<1>. QED  BY <1>1, <1>2

\* A step of a program, or of the shell, that does not touch the keyboard.
LEMMA KeysStay ==
  ASSUME Control, NEW p \in Process, Acts(p), UNCHANGED <<keys, pressed, getting>>,
         p \in Program =>
           /\ p \notin getting
           /\ prog'[p].lines <= prog[p].lines \/ ~ IsLeft(p)
           /\ prog'[p].pc # "dead" => prog'[p].command = prog[p].command /\ Alive(p)
           /\ prog'[p].pc = "count" => prog'[p].command = "wc" \/ ~ IsLeft(p)
  PROVE  KeysCounted'
<1>1. /\ \A q \in Program \ {p} : prog'[q] = prog[q]
      /\ shellPc' = shellPc /\ commands' = commands
      /\ prog \in [Program -> ProgramState] /\ prog' \in [Program -> ProgramState]
  BY DEF Acts, SameSlots, Control, TypesOK
<1>2. ASSUME NEW q \in Program, IsLeft(q) PROVE LinesCounted(q)'
  <2>1. LinesCounted(q)
    BY <1>2 DEF Control, KeysCounted
  <2>2. CASE q = p
    <3>1. prog[p].lines \in Nat /\ prog'[p].lines \in Nat /\ keys.size \in Nat /\ pressed \in Nat
      BY <1>1, <2>2, Bounds DEF ProgramState, Control, KeysCounted
    <3>. QED  BY <1>2, <2>1, <2>2, <3>1 DEF LinesCounted, Alive
  <2>3. CASE q # p
    BY <1>1, <2>1, <2>3 DEF LinesCounted, Alive
  <2>. QED  BY <2>2, <2>3
<1>3. ASSUME NEW q \in getting'
      PROVE  q = ShellProc \/ (q \in Program /\ IsLeft(q) /\ prog'[q].pc = "read")
  BY <1>1 DEF Control, KeysCounted
<1>. QED  BY <1>1, <1>2, <1>3 DEF Control, KeysCounted

\* A step that takes a key.
LEMMA KeysTaken ==
  ASSUME Control, NEW p \in Process, Acts(p), TakeKey, pressed' = pressed,
         getting' \subseteq getting, p \notin getting',
         p \in Program =>
           /\ prog'[p].lines <= prog[p].lines
                \/ (taken' = "newline" /\ prog'[p].lines = prog[p].lines + 1)
           /\ prog'[p].pc # "dead" => prog'[p].command = prog[p].command /\ Alive(p)
           /\ prog'[p].pc = "count" => prog'[p].command = "wc"
  PROVE  KeysCounted'
<1>1. /\ \A q \in Program \ {p} : prog'[q] = prog[q]
      /\ shellPc' = shellPc /\ commands' = commands
      /\ prog \in [Program -> ProgramState] /\ prog' \in [Program -> ProgramState]
  BY DEF Acts, SameSlots, Control, TypesOK
<1>2. /\ keys'.queue \in [0 .. dim - 1 -> Keystrokes \cup {Zero}]
      /\ keys'.front \in 0 .. dim - 1 /\ keys'.rear \in -1 .. dim - 1 /\ keys'.size \in Nat
      /\ keys'.size <= keys.size
      /\ taken' = "newline" => keys'.size + 1 = keys.size
  BY TakeKeyCounts DEF Control
<1>3. keys.size \in Nat /\ pressed \in 0 .. KeyCap /\ KeyCap \in Nat /\ keys.size <= pressed
  BY Bounds DEF Control, KeysCounted
<1>4. ASSUME NEW q \in Program, IsLeft(q) PROVE LinesCounted(q)'
  <2>1. LinesCounted(q) /\ prog[q].lines \in Nat /\ prog'[q].lines \in Nat
    BY <1>1, <1>4 DEF Control, KeysCounted, ProgramState
  <2>2. CASE q = p
    <3>1. prog'[p].lines + keys'.size <= pressed'
      <4>. DEFINE m == prog[p].lines  n == prog'[p].lines
      <4>1. m \in Nat /\ n \in Nat /\ m + keys.size <= pressed
            /\ (n <= m \/ (taken' = "newline" /\ n = m + 1))
        BY <2>1, <2>2 DEF LinesCounted
      <4>. HIDE DEF m, n
      <4>. QED  BY <1>2, <1>3, <4>1 DEF n
    <3>. QED  BY <2>1, <2>2, <3>1 DEF LinesCounted, Alive
  <2>3. CASE q # p
    <3>1. prog'[q] = prog[q]
      BY <1>1, <2>3
    <3>2. prog[q].lines + keys'.size <= pressed
      BY <1>2, <1>3, <2>1 DEF LinesCounted
    <3>. QED  BY <2>1, <3>1, <3>2 DEF LinesCounted, Alive
  <2>. QED  BY <2>2, <2>3
<1>5. ASSUME NEW q \in getting'
      PROVE  q = ShellProc \/ (q \in Program /\ IsLeft(q) /\ prog'[q].pc = "read")
  BY <1>1 DEF Control, KeysCounted
<1>6. keys'.size <= pressed'
  BY <1>2, <1>3
<1>. QED  BY <1>1, <1>2, <1>4, <1>5, <1>6 DEF Control, KeysCounted

-----------------------------------------------------------------------------
(***************************************************************************)
(* What is in a slot, and the semaphores of a slot.                        *)
(***************************************************************************)
Holds(i) == IF Whole(i) THEN Inside(pipes, sync, i, Readers(i)) ELSE <<>>

\* The semaphores of a slot are its own.
LEMMA LocksAre ==
  ASSUME Control, NEW i \in Slot, InUse(i), pipes[i].lockR # -1
  PROVE  /\ pipes[i].lockR \in PipeSems /\ pipes[i].lockR + 1 \in PipeSems
         /\ pipes[i].lockR + 1 < semId /\ pipes[i].lockR \in Nat /\ semId \in Nat
         /\ pipes[i].lockR # KEY_SEM_ID /\ pipes[i].lockR + 1 # KEY_SEM_ID
         /\ pipes[i].lockR \in SyncId /\ pipes[i].lockR + 1 \in SyncId
         /\ \A j \in Slot : j # i /\ InUse(j) /\ pipes[j].lockR # -1 =>
              /\ pipes[j].lockR \notin {pipes[i].lockR, pipes[i].lockR + 1}
              /\ pipes[j].lockR + 1 \notin {pipes[i].lockR, pipes[i].lockR + 1}
<1>. DEFINE r == pipes[i].lockR
<1>1. /\ r \in FIRST_SEM .. semId - 2 /\ semId \in FIRST_SEM .. FIRST_SEM + 2 * pipeline
      /\ pipeline \in 0 .. MaxPipelines
  BY DEF Control, SlotsApart, TypesOK
<1>2. FIRST_SEM \in Nat /\ MaxPipelines \in Nat
  BY Bounds
<1>3. ASSUME NEW j \in Slot, j # i, InUse(j), pipes[j].lockR # -1
      PROVE  /\ pipes[j].lockR \notin {r, r + 1} /\ pipes[j].lockR + 1 \notin {r, r + 1}
  <2>1. /\ pipes[j].lockR \in FIRST_SEM .. semId - 2 
        /\ r # pipes[j].lockR /\ r + 1 # pipes[j].lockR /\ pipes[j].lockR + 1 # r
    BY <1>3 DEF Control, SlotsApart
  <2>. HIDE DEF r
  <2>. QED  BY <1>1, <1>2, <2>1
<1>. HIDE DEF r
<1>4. r \in PipeSems /\ r + 1 \in PipeSems /\ r + 1 < semId /\ r \in Nat /\ semId \in Nat
  BY <1>1, <1>2 DEF PipeSems
<1>5. r # KEY_SEM_ID /\ r + 1 # KEY_SEM_ID /\ r \in SyncId /\ r + 1 \in SyncId
  BY <1>4, Bounds
<1>. QED  BY <1>3, <1>4, <1>5 DEF r

\* The callers are finitely many.
LEMMA CallersFinite ==
  ASSUME Control, NEW i \in Slot
  PROVE  /\ IsFiniteSet(Readers(i)) /\ IsFiniteSet(Writers(i))
         /\ Readers(i) \subseteq Process /\ Writers(i) \subseteq Process
<1>1. IsFiniteSet(Program \cup {ShellProc})
  BY Bounds, OneMore
<1>2. Readers(i) \subseteq Program \cup {ShellProc} /\ Writers(i) \subseteq Program \cup {ShellProc}
  BY DEF Control, CallsServed, CallOK, Readers, Writers
<1>. QED  BY <1>1, <1>2, FS_Subset DEF Readers, Writers

\* Calls sleep only in slots that serve a pipe.
LEMMA NobodyElsewhere ==
  ASSUME Control, NEW i \in Slot, ~ Whole(i)
  PROVE  Readers(i) = {} /\ Writers(i) = {}
BY DEF Control, CallsServed, CallOK, Serves, Readers, Writers

ContentsHeld == \A i \in Slot : Contents(i) = Holds(i)

\* That is what the property calls the contents of a slot.
LEMMA ContentsAre == PipesInv => ContentsHeld
<1>. SUFFICES ASSUME PipesInv, NEW i \in Slot PROVE Contents(i) = Holds(i)
  BY DEF ContentsHeld
<1>. DEFINE n == InSlot(i)
<1>0. Control /\ LinesOK /\ pipes \in [Slot -> Pipe] /\ pipes[i] \in Pipe
  BY DEF PipesInv, Control, SlotsApart
<1>1. n = 0 => Contents(i) = <<>>
  <2>. HIDE DEF n
  <2>. SUFFICES ASSUME n = 0 PROVE Contents(i) = <<>>
    OBVIOUS
  <2>1. 1 .. n = {}
    OBVIOUS
  <2>2. Contents(i) = [j \in 1 .. n |-> pipes[i].buffer[(pipes[i].readIndex + j - 1) % BUFF_SIZE]]
    BY DEF Contents, n
  <2>3. Contents(i) = [j \in {} |-> pipes[i].buffer[(pipes[i].readIndex + j - 1) % BUFF_SIZE]]
    BY <2>1, <2>2, Zenon
  <2>. QED  BY <2>3
<1>2. CASE ~ InUse(i) \/ pipes[i].lockR = -1
  <2>1. pipes[i].state = "EMPTY" \/ pipes[i].lockR = -1
    BY <1>0, <1>2 DEF InUse, Pipe
  <2>2. n = 0 /\ ~ Whole(i)
    BY <1>2, <2>1 DEF InSlot, Whole
  <2>. QED  BY <1>1, <2>2 DEF Holds
<1>3. CASE InUse(i) /\ pipes[i].lockR # -1
  <2>. DEFINE T == {p \in Process : inCall[p].op = "pRead" /\ inCall[p].slot = i /\ ~ Asleep(p)}
              r == pipes[i].lockR
  <2>1. pipes[i].state # "EMPTY"
    BY <1>3 DEF InUse
  <2>2. n = sync[r].value + Cardinality(T)
    BY <1>3, <2>1 DEF InSlot
  <2>3. CASE ~ Whole(i)
    <3>1. T = {}
      BY <1>0, <2>3, NobodyElsewhere DEF Readers
    <3>2. sync[r].value = 0
      BY <1>3, <2>3 DEF PipesInv, SlotsFlow
    <3>3. n = 0
      <4>1. Cardinality(T) = 0
        BY <3>1, FS_EmptySet
      <4>. HIDE DEF n, T
      <4>. QED  BY <2>2, <3>2, <4>1
    <3>. QED  BY <1>1, <2>3, <3>3 DEF Holds
  <2>4. CASE Whole(i)
    <3>1. SlotKeeps(pipes, sync, i, Readers(i), Writers(i), 0)
      BY <2>4 DEF PipesInv, SlotsFlow
    <3>2. r \in SyncId /\ sync[r] # NoSync /\ r # KEY_SEM_ID
      BY <1>0, <1>3, <3>1, LocksAre, SyncAssumption DEF SlotKeeps, Kept
    <3>3. ASSUME NEW p \in Readers(i) PROVE Asleep(p) <=> p \in Members(sync, r)
      <4>1. p \in Process /\ inCall[p].op = "pRead" /\ inCall[p].slot = i
        BY DEF Readers
      <4>2. p \in Members(sync, r) => Asleep(p)
        BY <3>2 DEF Asleep, Members
      <4>3. ASSUME NEW s \in SyncId, sync[s] # NoSync, p \in Range(sync[s].blockedPIDs)
            PROVE  s = r
        <5>1. InLine(p, s)
          BY <1>0, <4>3 DEF LinesOK, Members
        <5>2. p \notin getting
          <6>1. p \in Program /\ ~ IsLeft(p)
            BY <1>0, <4>1 DEF Control, CallsServed, CallOK
          <6>. QED  BY <1>0, <6>1, Bounds DEF Control, KeysCounted
        <5>. QED  BY <4>1, <5>1, <5>2 DEF InLine
      <4>. QED  BY <4>2, <4>3 DEF Asleep, Members
    <3>4. T = Readers(i) \ Members(sync, r)
      BY <3>3 DEF Readers
    <3>5. n = Held(sync, r, Readers(i))
      BY <2>2, <3>4 DEF Held
    <3>6. n \in 0 .. BUFF_SIZE
      <4>1. 0 \in {0, 1}
        OBVIOUS
      <4>2. Held(sync, r, Readers(i)) \in 0 .. BUFF_SIZE - 0
        BY <3>1, <4>1, SlotHolds
      <4>. QED  BY <3>5, <4>2, PipesAssumption
    <3>. DEFINE a == pipes[i]  q == a.readIndex
    <3>7. a \in Pipe /\ q \in Int
      BY <1>0 DEF Pipe
    <3>8. ASSUME NEW j \in 1 .. n PROVE (q + j - 1) % BUFF_SIZE = Place(q, j - 1)
      <4>. HIDE DEF q, n
      <4>1. q + j - 1 = q + (j - 1)
        BY <3>6, <3>7
      <4>. QED  BY <4>1, Zenon DEF Place
    <3>9. Contents(i) = [j \in 1 .. n |-> a.buffer[(q + j - 1) % BUFF_SIZE]]
      BY DEF Contents
    <3>10. CharsIn(a, n) = [j \in 1 .. n |-> a.buffer[Place(q, j - 1)]]
      BY DEF CharsIn
    <3>11. Contents(i) = CharsIn(a, n)
      <4>. HIDE DEF a, q, n
      <4>. QED  BY <3>8, <3>9, <3>10, Zenon DEF q
    <3>. QED  BY <2>4, <3>5, <3>11 DEF Holds, Inside
  <2>. QED  BY <2>3, <2>4
<1>. QED  BY <1>2, <1>3

\* The same afterwards.
LEMMA ContentsAreNext == PipesInv' => ContentsHeld'
BY ContentsAre, PTL

-----------------------------------------------------------------------------
(***************************************************************************)
(* What a step does to the slots, and to the semaphores.                   *)
(***************************************************************************)
Keeps(i) == Holds(i)' = Holds(i) /\ InUse(i)' = InUse(i) /\ lastRead'[i] = lastRead[i]

OthersKeep(i) == \A j \in Slot \ {i} : Keeps(j)

Flow == LinesOK /\ SlotsFlow

\* A step that leaves the semaphores of the pipes alone.
LEMMA PassiveFlow ==
  ASSUME PipesInv, UNCHANGED <<pipes, semId, lastRead, inCall>>,
         sync' \in Semaphores, sync'[KEY_SEM_ID] # NoSync,
         \A t \in SyncId \ {KEY_SEM_ID} : sync'[t] = sync[t],
         \A p \in Members(sync', KEY_SEM_ID) : p \in getting'
  PROVE  Flow' /\ \A i \in Slot : Keeps(i)
<1>0. Control /\ LinesOK /\ SlotsFlow /\ pipes \in [Slot -> Pipe]
  BY DEF PipesInv, Control, SlotsApart
<1>1. \A i \in Slot : /\ InUse(i)' = InUse(i) /\ Whole(i)' = Whole(i)
                      /\ Readers(i)' = Readers(i) /\ Writers(i)' = Writers(i)
  BY DEF InUse, Whole, Readers, Writers
<1>2. ASSUME NEW i \in Slot, InUse(i), pipes[i].lockR # -1
      PROVE  /\ sync'[pipes[i].lockR] = sync[pipes[i].lockR]
             /\ sync'[pipes[i].lockR + 1] = sync[pipes[i].lockR + 1]
  BY <1>0, <1>2, LocksAre
<1>3. LinesOK'
  <2>1. ASSUME NEW t \in SyncId, sync'[t] # NoSync, NEW p \in Members(sync', t) PROVE InLine(p, t)'
    <3>1. CASE t = KEY_SEM_ID
      BY <2>1, <3>1 DEF InLine
    <3>2. CASE t # KEY_SEM_ID
      <4>1. sync[t] # NoSync /\ p \in Members(sync, t)
        BY <2>1, <3>2 DEF Members
      <4>2. InLine(p, t)
        BY <1>0, <4>1 DEF LinesOK
      <4>. QED  BY <3>2, <4>2 DEF InLine
    <3>. QED  BY <3>1, <3>2
  <2>2. ASSUME NEW t \in PipeSems, t >= semId' PROVE sync'[t] = NoSync
    <3>1. t \in SyncId /\ t # KEY_SEM_ID
      BY Bounds
    <3>. QED  BY <1>0, <2>2, <3>1 DEF LinesOK
  <2>. QED  BY <2>1, <2>2 DEF LinesOK
<1>4. ASSUME NEW i \in Slot, Whole(i)
      PROVE  /\ SlotKeeps(pipes, sync', i, Readers(i), Writers(i), 0)
             /\ Inside(pipes, sync', i, Readers(i)) = Inside(pipes, sync, i, Readers(i))
  <2>. DEFINE r == pipes[i].lockR  w == pipes[i].lockW  T == Readers(i)  U == Writers(i)
  <2>1. SlotKeeps(pipes, sync, i, T, U, 0)
    BY <1>0, <1>4 DEF SlotsFlow
  <2>2. sync'[r] = sync[r] /\ sync'[w] = sync[w]
    BY <1>2, <1>4 DEF Whole
  <2>3. PICK V : V = sync'
    OBVIOUS
  <2>. HIDE DEF r, w, T, U
  <2>4. /\ Kept(V, r, T) = Kept(sync, r, T) /\ Held(V, r, T) = Held(sync, r, T)
        /\ Kept(V, w, U) = Kept(sync, w, U) /\ Held(V, w, U) = Held(sync, w, U)
    BY <2>2, <2>3 DEF Kept, Held, Members
  <2>. QED  BY <2>1, <2>3, <2>4 DEF SlotKeeps, Inside, r, w, T, U
<1>5. SlotsFlow'
  <2>1. ASSUME NEW i \in Slot, Whole(i)'
        PROVE  SlotKeeps(pipes', sync', i, Readers(i)', Writers(i)', 0)
    <3>1. Whole(i) /\ pipes' = pipes
      BY <1>1, <2>1
    <3>2. SlotKeeps(pipes, sync', i, Readers(i), Writers(i), 0)
      BY <1>4, <3>1
    <3>. QED  BY <1>1, <3>1, <3>2
  <2>2. ASSUME NEW i \in Slot, InUse(i)', ~ Whole(i)', pipes'[i].lockR # -1
        PROVE  sync'[pipes'[i].lockR].value = 0
    BY <1>0, <1>1, <1>2, <2>2 DEF SlotsFlow
  <2>. QED  BY <2>1, <2>2 DEF SlotsFlow
<1>6. ASSUME NEW i \in Slot PROVE Keeps(i)
  <2>1. Whole(i) => Inside(pipes, sync, i, Readers(i))' = Inside(pipes, sync, i, Readers(i))
    <3>. SUFFICES ASSUME Whole(i)
                  PROVE  Inside(pipes', sync', i, Readers(i)') = Inside(pipes, sync, i, Readers(i))
      OBVIOUS
    <3>1. Inside(pipes, sync', i, Readers(i)) = Inside(pipes, sync, i, Readers(i))
      BY <1>4
    <3>. QED  BY <1>1, <3>1
  <2>2. Holds(i)' = Holds(i)
    BY <1>1, <2>1 DEF Holds
  <2>. QED  BY <1>1, <2>2 DEF Keeps
<1>. QED  BY <1>3, <1>5, <1>6 DEF Flow

\* The call of p moves something in slot i: nobody else notices, and only p may have
\* gone to sleep, in one of the two semaphores of the slot.
Moves(p, i) ==
  /\ SlotKeeps(pipes', sync', i, Readers(i)', Writers(i)', 0)
  /\ \A j \in Slot \ {i} : pipes'[j] = pipes[j] /\ lastRead'[j] = lastRead[j]
  /\ SamePipe(pipes[i], pipes'[i])
  /\ \A t \in SyncId \ {pipes[i].lockR, pipes[i].lockW} : sync'[t] = sync[t]
  /\ inCall' \in [Process -> Call] /\ \A q \in Process \ {p} : inCall'[q] = inCall[q]
  /\ inCall[p].op # "none" => inCall[p].slot = i
  /\ inCall'[p].op # "none" => inCall'[p].slot = i
  /\ \A q \in Members(sync', pipes[i].lockR) :
       q \in Members(sync, pipes[i].lockR) \/ (q = p /\ inCall'[p].op = "pRead")
  /\ \A q \in Members(sync', pipes[i].lockW) :
       q \in Members(sync, pipes[i].lockW) \/ (q = p /\ inCall'[p].op = "pWrite")
  /\ UNCHANGED <<semId, getting>>

\* Whoever makes a call waits for nothing else.
Ready(p) == inCall[p].op = "none" \/ ~ Asleep(p)

\* It is so.
LEMMA MovesFlow ==
  ASSUME PipesInv, NEW p \in Process, NEW i \in Slot, Whole(i), Moves(p, i), Ready(p)
  PROVE  Flow' /\ OthersKeep(i)
<1>. DEFINE r == pipes[i].lockR  w == pipes[i].lockW
<1>0. Control /\ LinesOK /\ SlotsFlow /\ pipes \in [Slot -> Pipe]
  BY DEF PipesInv, Control, SlotsApart
<1>1. /\ r \in SyncId /\ w \in SyncId /\ r # KEY_SEM_ID /\ w # KEY_SEM_ID /\ r < semId /\ w < semId
      /\ w = r + 1 /\ InUse(i) /\ r # -1 /\ sync[r] # NoSync /\ sync[w] # NoSync
  <2>1. InUse(i) /\ r # -1 /\ w = r + 1
    BY DEF Whole
  <2>2. r \in SyncId /\ r # KEY_SEM_ID /\ w # KEY_SEM_ID /\ w < semId /\ r \in Nat /\ semId \in Nat
    BY <1>0, <2>1, LocksAre
  <2>3. SlotKeeps(pipes, sync, i, Readers(i), Writers(i), 0)
    BY <1>0 DEF SlotsFlow
  <2>4. w \in SyncId /\ sync[r] # NoSync /\ sync[w] # NoSync
    BY <2>3, SyncAssumption DEF SlotKeeps, Kept
  <2>. HIDE DEF r, w
  <2>. QED  BY <2>1, <2>2, <2>4
<1>2. /\ SlotKeeps(pipes', sync', i, Readers(i)', Writers(i)', 0)
      /\ \A j \in Slot \ {i} : pipes'[j] = pipes[j] /\ lastRead'[j] = lastRead[j]
      /\ SamePipe(pipes[i], pipes'[i])
      /\ \A t \in SyncId \ {r, w} : sync'[t] = sync[t]
      /\ inCall' \in [Process -> Call] /\ \A q \in Process \ {p} : inCall'[q] = inCall[q]
      /\ UNCHANGED <<semId, getting>>
  BY DEF Moves
<1>3. /\ pipes' \in [Slot -> Pipe] /\ sync' \in Semaphores
      /\ \A j \in Slot : /\ pipes'[j].lockR = pipes[j].lockR /\ pipes'[j].lockW = pipes[j].lockW
                         /\ pipes'[j].state = pipes[j].state
                         /\ InUse(j)' = InUse(j) /\ Whole(j)' = Whole(j)
  BY <1>2 DEF SlotKeeps, SamePipe, InUse, Whole
<1>4. ASSUME NEW j \in Slot, j # i PROVE Readers(j)' = Readers(j) /\ Writers(j)' = Writers(j)
  <2>1. ASSUME NEW q \in Process
        PROVE  /\ (inCall'[q].op = "pRead" /\ inCall'[q].slot = j) <=> (inCall[q].op = "pRead" /\ inCall[q].slot = j)
               /\ (inCall'[q].op = "pWrite" /\ inCall'[q].slot = j) <=> (inCall[q].op = "pWrite" /\ inCall[q].slot = j)
    <3>1. CASE q = p
      BY <1>4, <3>1 DEF Moves
    <3>2. CASE q # p
      BY <1>2, <3>2
    <3>. QED  BY <3>1, <3>2
  <2>. QED  BY <2>1 DEF Readers, Writers
<1>5. ASSUME NEW j \in Slot, j # i, InUse(j), pipes[j].lockR # -1
      PROVE  /\ sync'[pipes[j].lockR] = sync[pipes[j].lockR]
             /\ sync'[pipes[j].lockR + 1] = sync[pipes[j].lockR + 1]
  <2>1. /\ pipes[j].lockR \in SyncId /\ pipes[j].lockR + 1 \in SyncId
    BY <1>0, <1>5, LocksAre
  <2>2. pipes[j].lockR \notin {r, w} /\ pipes[j].lockR + 1 \notin {r, w}
    BY <1>0, <1>1, <1>5, LocksAre
  <2>. QED  BY <1>2, <2>1, <2>2
<1>6. LinesOK'
  <2>1. ASSUME NEW t \in SyncId, sync'[t] # NoSync, NEW q \in Members(sync', t) PROVE InLine(q, t)'
    <3>1. CASE t = r /\ q = p /\ inCall'[p].op = "pRead"
      <4>1. inCall'[q].slot = i
        BY <3>1 DEF Moves
      <4>. QED  BY <1>3, <3>1, <4>1 DEF InLine
    <3>2. CASE t = w /\ q = p /\ inCall'[p].op = "pWrite"
      <4>1. inCall'[q].slot = i
        BY <3>2 DEF Moves
      <4>. QED  BY <1>3, <3>2, <4>1 DEF InLine
    <3>3. CASE ~ (t = r /\ q = p /\ inCall'[p].op = "pRead") /\ ~ (t = w /\ q = p /\ inCall'[p].op = "pWrite")
      <4>1. q \in Members(sync, t) /\ sync[t] # NoSync
        <5>1. CASE t = r
          BY <1>1, <2>1, <3>3, <5>1 DEF Moves
        <5>2. CASE t = w
          BY <1>1, <2>1, <3>3, <5>2 DEF Moves
        <5>3. CASE t \notin {r, w}
          BY <1>2, <2>1, <5>3 DEF Members
        <5>. QED  BY <5>1, <5>2, <5>3
      <4>2. InLine(q, t) /\ q \in Process
        <5>1. sync[t] \in Semaphore
          BY <1>0, <4>1 DEF LinesOK, Semaphores
        <5>2. q \in Process
          BY <4>1, <5>1 DEF Members, Semaphore, Range
        <5>. QED  BY <1>0, <4>1, <5>2 DEF LinesOK
      <4>3. CASE q = p
        <5>1. Asleep(p)
          BY <4>1, <4>3 DEF Asleep, Members
        <5>2. t = KEY_SEM_ID /\ p \in getting
          BY <4>2, <4>3, <5>1 DEF InLine, Ready
        <5>. QED  BY <1>2, <4>3, <5>2 DEF InLine
      <4>4. CASE q # p
        <5>1. inCall'[q] = inCall[q] /\ inCall[q] \in Call
          BY <1>0, <1>2, <4>2, <4>4 DEF Control, TypesOK
        <5>2. CASE t = KEY_SEM_ID /\ q \in getting
          BY <1>2, <5>2 DEF InLine
        <5>3. CASE inCall[q].op = "pRead" /\ t = pipes[inCall[q].slot].lockR
          <6>1. inCall[q].slot \in Slot
            BY <5>1, <5>3 DEF Call
          <6>. QED  BY <1>3, <5>1, <5>3, <6>1 DEF InLine
        <5>4. CASE inCall[q].op = "pWrite" /\ t = pipes[inCall[q].slot].lockW
          <6>1. inCall[q].slot \in Slot
            BY <5>1, <5>4 DEF Call
          <6>. QED  BY <1>3, <5>1, <5>4, <6>1 DEF InLine
        <5>. QED  BY <4>2, <5>2, <5>3, <5>4 DEF InLine
      <4>. QED  BY <4>3, <4>4
    <3>. QED  BY <3>1, <3>2, <3>3
  <2>2. ASSUME NEW t \in PipeSems, t >= semId' PROVE sync'[t] = NoSync
    <3>1. t \in SyncId /\ t >= semId /\ t \in Nat /\ semId \in Nat
      BY <1>0, <1>2, <2>2, Bounds DEF Control, TypesOK, PipeSems
    <3>2. t \notin {r, w}
      <4>. HIDE DEF r, w
      <4>. QED  BY <1>1, <3>1, PipesAssumption
    <3>. QED  BY <1>0, <1>2, <3>1, <3>2 DEF LinesOK
  <2>3. sync'[KEY_SEM_ID] = sync[KEY_SEM_ID]
    BY <1>1, <1>2, Bounds
  <2>. QED  BY <1>0, <1>3, <2>1, <2>2, <2>3 DEF LinesOK
<1>7. ASSUME NEW j \in Slot, j # i, Whole(j)
      PROVE  /\ SlotKeeps(pipes', sync', j, Readers(j)', Writers(j)', 0)
             /\ Inside(pipes', sync', j, Readers(j)') = Inside(pipes, sync, j, Readers(j))
  <2>. DEFINE a == pipes[j].lockR  b == pipes[j].lockW  T == Readers(j)  U == Writers(j)
  <2>1. SlotKeeps(pipes, sync, j, T, U, 0)
    BY <1>0, <1>7 DEF SlotsFlow
  <2>2. sync'[a] = sync[a] /\ sync'[b] = sync[b]
    BY <1>5, <1>7 DEF Whole
  <2>3. PICK V, B : V = sync' /\ B = pipes'
    OBVIOUS
  <2>4. B[j] = pipes[j] /\ Readers(j)' = T /\ Writers(j)' = U
    BY <1>2, <1>4, <1>7, <2>3
  <2>. HIDE DEF a, b, T, U
  <2>5. /\ Kept(V, a, T) = Kept(sync, a, T) /\ Held(V, a, T) = Held(sync, a, T)
        /\ Kept(V, b, U) = Kept(sync, b, U) /\ Held(V, b, U) = Held(sync, b, U)
    BY <2>2, <2>3 DEF Kept, Held, Members
  <2>6. SlotKeeps(B, V, j, T, U, 0) /\ Inside(B, V, j, T) = Inside(pipes, sync, j, T)
    BY <1>3, <2>1, <2>3, <2>4, <2>5 DEF SlotKeeps, Inside, a, b
  <2>. QED  BY <2>3, <2>4, <2>6 DEF T
<1>8. SlotsFlow'
  <2>1. ASSUME NEW j \in Slot, Whole(j)'
        PROVE  SlotKeeps(pipes', sync', j, Readers(j)', Writers(j)', 0)
    BY <1>2, <1>3, <1>7, <2>1
  <2>2. ASSUME NEW j \in Slot, InUse(j)', ~ Whole(j)', pipes'[j].lockR # -1
        PROVE  sync'[pipes'[j].lockR].value = 0
    BY <1>0, <1>3, <1>5, <2>2 DEF SlotsFlow
  <2>. QED  BY <2>1, <2>2 DEF SlotsFlow
<1>9. ASSUME NEW j \in Slot \ {i} PROVE Keeps(j)
  BY <1>2, <1>3, <1>7 DEF Keeps, Holds
<1>. QED  BY <1>6, <1>8, <1>9 DEF Flow, OthersKeep

-----------------------------------------------------------------------------
(***************************************************************************)
(* pWrite.                                                                 *)
(***************************************************************************)
Puts(i) ==
  /\ InUse(i) /\ InUse(i)' /\ lastRead'[i] = lastRead[i]
  /\ Holds(i) \in Seq(PipeChar) /\ Len(Holds(i)') <= BUFF_SIZE
  /\ \E s \in Seq(PipeChar) : Holds(i)' = Holds(i) \o s

\* Pipes are where they were, and the call of p ends, or sleeps in slot i.
Stays(p, i, op) ==
  /\ pipes' \in [Slot -> Pipe] /\ (\A j \in Slot : SamePipe(pipes[j], pipes'[j])) /\ semId' = semId
  /\ inCall' \in [Process -> Call] /\ \A q \in Process \ {p} : inCall'[q] = inCall[q]
  /\ inCall'[p].op # "none" => inCall'[p].op = op /\ inCall'[p].slot = i

\* What p has yet to write, and a step in which it was to write str and wrote the beginning.
Rest(p) == IF inCall[p].op = "pWrite" THEN inCall[p].rest ELSE <<>>
Sends(p, i, str) == \E s \in Seq(PipeChar) : Holds(i)' = Holds(i) \o s /\ str = s \o Rest(p)'

\* From A and S on p writes s, and sleeps if New says so.
Outcome(A, S, p, i, s, New) ==
  /\ Wrote(A, S, pipes', sync', i, Readers(i), (Writers(i) \ {p}) \cup New, s, New)
  /\ inCall' \in [Process -> Call] /\ \A q \in Process \ {p} : inCall'[q] = inCall[q]
  /\ New = {} => inCall'[p].op = "none"
  /\ New = {p} => inCall'[p].op = "pWrite" /\ inCall'[p].slot = i
  /\ UNCHANGED <<semId, lastRead, getting>>

\* A write puts its characters behind the others.
LEMMA WroteFlows ==
  ASSUME PipesInv, NEW p \in Process, NEW i \in Slot, Whole(i), Ready(p),
         inCall[p].op \in {"none", "pWrite"}, inCall[p].op # "none" => inCall[p].slot = i,
         NEW s \in Seq(PipeChar), NEW New \in {{}, {p}}, Outcome(pipes, sync, p, i, s, New)
  PROVE  Flow' /\ OthersKeep(i) /\ Puts(i) /\ Stays(p, i, "pWrite") /\ Holds(i)' = Holds(i) \o s
<1>. DEFINE r == pipes[i].lockR  w == pipes[i].lockW  T == Readers(i)
            U == (Writers(i) \ {p}) \cup New
<1>0. Control /\ SlotsFlow /\ pipes \in [Slot -> Pipe] /\ SlotKeeps(pipes, sync, i, T, Writers(i), 0)
  BY DEF PipesInv, Control, SlotsApart, SlotsFlow
<1>1. /\ inCall' \in [Process -> Call] /\ \A q \in Process \ {p} : inCall'[q] = inCall[q]
      /\ New = {} => inCall'[p].op = "none"
      /\ New = {p} => inCall'[p].op = "pWrite" /\ inCall'[p].slot = i
      /\ UNCHANGED <<semId, lastRead, getting>>
      /\ Wrote(pipes, sync, pipes', sync', i, T, U, s, New)
  BY DEF Outcome
<1>2. /\ SlotKeeps(pipes', sync', i, T, U, 0)
      /\ \A j \in Slot \ {i} : pipes'[j] = pipes[j]
      /\ SamePipe(pipes[i], pipes'[i])
      /\ \A t \in SyncId \ {r, w} : sync'[t] = sync[t]
      /\ Members(sync', r) \subseteq Members(sync, r)
      /\ Members(sync', w) = Members(sync, w) \cup New
      /\ Inside(pipes', sync', i, T) = Inside(pipes, sync, i, T) \o s
  BY <1>1 DEF Wrote
<1>3. Readers(i)' = T /\ Writers(i)' = U
  <2>1. inCall[p].op # "pRead" /\ inCall'[p].op # "pRead"
    <3>1. inCall'[p].op \in {"none", "pWrite"}
      BY <1>1
    <3>2. "none" # "pRead" /\ "pWrite" # "pRead"
      OBVIOUS
    <3>. QED  BY <3>1, <3>2
  <2>2. New = {} \/ New = {p}
    OBVIOUS
  <2>3. Readers(i)' = T
    BY <1>1, <2>1 DEF Readers
  <2>4. Writers(i)' = U
    <3>1. CASE New = {}
      <4>1. inCall'[p].op # "pWrite"
        BY <1>1, <3>1
      <4>. QED  BY <1>1, <3>1, <4>1 DEF Writers
    <3>2. CASE New = {p}
      BY <1>1, <3>2 DEF Writers
    <3>. QED  BY <2>2, <3>1, <3>2
  <2>. QED  BY <2>3, <2>4
<1>4. Moves(p, i)
  <2>1. \A q \in Members(sync', r) : q \in Members(sync, r) \/ (q = p /\ inCall'[p].op = "pRead")
    BY <1>2
  <2>2. \A q \in Members(sync', w) : q \in Members(sync, w) \/ (q = p /\ inCall'[p].op = "pWrite")
    BY <1>1, <1>2
  <2>3. inCall'[p].op # "none" => inCall'[p].slot = i
    BY <1>1
  <2>4. \A j \in Slot \ {i} : pipes'[j] = pipes[j] /\ lastRead'[j] = lastRead[j]
    BY <1>1, <1>2
  <2>5. SlotKeeps(pipes', sync', i, Readers(i)', Writers(i)', 0)
    BY <1>2, <1>3
  <2>. QED  BY <1>1, <1>2, <2>1, <2>2, <2>3, <2>4, <2>5 DEF Moves
<1>5. Flow' /\ OthersKeep(i)
  BY <1>4, MovesFlow
<1>6. Stays(p, i, "pWrite")
  <2>1. pipes' \in [Slot -> Pipe]
    BY <1>2 DEF SlotKeeps
  <2>2. ASSUME NEW j \in Slot PROVE SamePipe(pipes[j], pipes'[j])
    BY <1>2 DEF SamePipe
  <2>3. inCall'[p].op # "none" => inCall'[p].op = "pWrite" /\ inCall'[p].slot = i
    BY <1>1
  <2>. QED  BY <1>1, <2>1, <2>2, <2>3 DEF Stays
<1>7. Puts(i) /\ Holds(i)' = Holds(i) \o s
  <2>1. InUse(i) /\ InUse(i)' /\ Whole(i)'
    BY <1>2 DEF SamePipe, Whole, InUse
  <2>2. 0 \in {0, 1}
    OBVIOUS
  <2>3. Inside(pipes, sync, i, T) \in Seq(PipeChar)
    BY <1>0, <2>2, SlotHolds
  <2>4. PICK B, V : B = pipes' /\ V = sync'
    OBVIOUS
  <2>5. Inside(B, V, i, T) \in Seq(PipeChar) /\ Len(Inside(B, V, i, T)) <= BUFF_SIZE
    <3>1. PICK X, Y : X = T /\ Y = U
      OBVIOUS
    <3>2. SlotKeeps(B, V, i, X, Y, 0)
      BY <1>2, <2>4, <3>1
    <3>3. Inside(B, V, i, X) \in Seq(PipeChar) /\ Len(Inside(B, V, i, X)) <= BUFF_SIZE
      BY <3>2, SlotFits
    <3>. QED  BY <3>1, <3>3
  <2>6. Holds(i)' = Inside(B, V, i, T) /\ Holds(i) = Inside(pipes, sync, i, T)
    BY <1>3, <2>1, <2>4 DEF Holds
  <2>7. Holds(i)' = Holds(i) \o s
    BY <1>2, <2>4, <2>6
  <2>. QED  BY <1>1, <2>1, <2>3, <2>5, <2>6, <2>7 DEF Puts
<1>. QED  BY <1>5, <1>6, <1>7

LoopEnds(A, S, p, i, str) ==
  \E s \in Seq(PipeChar), New \in {{}, {p}} : Outcome(A, S, p, i, s, New) /\ str = s \o Rest(p)'

\* The outcomes of the loop.
LEMMA LoopOutcome ==
  ASSUME PipesInv, NEW A, NEW S, NEW p \in Process, NEW i \in Slot, NEW str \in Seq(PipeChar),
         NEW n \in 0 .. Len(str), WritesUpTo(A, S, i, Readers(i), Writers(i) \ {p}, p, str, n),
         getting' = getting
  PROVE  LoopEnds(A, S, p, i, str)
<1>0. inCall \in [Process -> Call]
  BY DEF PipesInv, Control, TypesOK
<1>1. CASE n = Len(str)
  <2>1. /\ Wrote(A, S, pipes', sync', i, Readers(i), Writers(i) \ {p}, str, {})
        /\ inCall' = [inCall EXCEPT ![p] = [op |-> "none"]] /\ UNCHANGED <<semId, lastRead>>
    BY <1>1 DEF WritesUpTo
  <2>2. (Writers(i) \ {p}) \cup {} = Writers(i) \ {p} /\ {} # {p} /\ [op |-> "none"] \in Call
    BY DEF Call
  <2>3. Wrote(A, S, pipes', sync', i, Readers(i), (Writers(i) \ {p}) \cup {}, str, {})
    BY <2>1, <2>2
  <2>4. Outcome(A, S, p, i, str, {})
    BY <1>0, <2>1, <2>2, <2>3 DEF Outcome
  <2>5. Rest(p)' = <<>>
    BY <1>0, <2>1 DEF Rest
  <2>6. str = str \o Rest(p)'
    BY <2>5
  <2>. QED  BY <2>4, <2>6 DEF LoopEnds
<1>2. CASE n # Len(str)
  <2>. DEFINE rest == SubSeq(str, n + 1, Len(str))  new == [op |-> "pWrite", slot |-> i, rest |-> rest]
  <2>1. /\ Wrote(A, S, pipes', sync', i, Readers(i), (Writers(i) \ {p}) \cup {p}, SubSeq(str, 1, n), {p})
        /\ inCall' = [inCall EXCEPT ![p] = new] /\ UNCHANGED <<semId, lastRead>>
    BY <1>2 DEF WritesUpTo
  <2>2. rest \in Seq(PipeChar) /\ rest # <<>> /\ SubSeq(str, 1, n) \in Seq(PipeChar)
    <3>1. n \in Nat /\ n < Len(str)
      BY <1>2
    <3>2. rest \in Seq(PipeChar) /\ Len(rest) = Len(str) - n
      BY <3>1
    <3>3. rest # <<>>
      <4>. HIDE DEF rest
      <4>. QED  BY <3>1, <3>2
    <3>4. SubSeq(str, 1, n) \in Seq(PipeChar)
      BY <3>1, NextPrefix
    <3>. QED  BY <3>2, <3>3, <3>4
  <2>5. str = SubSeq(str, 1, n) \o rest
    <3>1. PICK len \in Nat : len = Len(str)
      OBVIOUS
    <3>2. n \in Nat /\ n \in 1 - 1 .. len /\ len \in n .. len /\ 1 \in 1 .. len + 1
      BY <3>1
    <3>3. SubSeq(str, 1, n) \o SubSeq(str, n + 1, len) = SubSeq(str, 1, len)
      BY <3>1, <3>2, ConcatAdjacentSubSeq
    <3>4. SubSeq(str, 1, len) = str
      BY <3>1, SubSeqFull
    <3>. QED  BY <3>1, <3>3, <3>4
  <2>. HIDE DEF rest
  <2>3. new \in Call /\ new.op = "pWrite" /\ new.slot = i /\ new.rest = rest /\ {p} # {}
    BY <2>2 DEF Call
  <2>. HIDE DEF new
  <2>4. Outcome(A, S, p, i, SubSeq(str, 1, n), {p})
    BY <1>0, <2>1, <2>3 DEF Outcome
  <2>6. Rest(p)' = rest
    BY <1>0, <2>1, <2>3 DEF Rest
  <2>. QED  BY <2>2, <2>4, <2>5, <2>6 DEF LoopEnds
<1>. QED  BY <1>1, <1>2

\* pWrite as it is called.
LEMMA WriteFlows ==
  ASSUME PipesInv, NEW p \in Process, NEW i \in Slot, Whole(i), inCall[p].op = "none",
         NEW str \in Seq(PipeChar), pWrite(p, i, str), getting' = getting
  PROVE  Flow' /\ OthersKeep(i) /\ Puts(i) /\ Stays(p, i, "pWrite") /\ Sends(p, i, str)
<1>. DEFINE T == Readers(i)  U == Writers(i)
<1>1. SlotKeeps(pipes, sync, i, T, U, 0)
  BY DEF PipesInv, SlotsFlow
<1>2. p \notin U /\ U \ {p} = U
  BY DEF Writers
<1>3. PICK A, S : A = pipes /\ S = sync
  OBVIOUS
<1>4. PICK X, Y : X = T /\ Y = U
  OBVIOUS
<1>5. WriteFrom(p, [array |-> A, sems |-> S], i, str)
  BY <1>3 DEF pWrite
<1>6. SlotKeeps(A, S, i, X, Y, 0) /\ pipes[i].lockW = A[i].lockW /\ p \notin Y
  BY <1>1, <1>2, <1>3, <1>4
<1>7. PICK n \in 0 .. Len(str) : WritesUpTo(A, S, i, X, Y, p, str, n)
  BY <1>5, <1>6, WriteFromDoes
<1>8. WritesUpTo(A, S, i, Readers(i), Writers(i) \ {p}, p, str, n)
  BY <1>2, <1>4, <1>7
<1>9. PICK s \in Seq(PipeChar), New \in {{}, {p}} : Outcome(A, S, p, i, s, New) /\ str = s \o Rest(p)'
  <2>1. LoopEnds(A, S, p, i, str)
    BY <1>8, LoopOutcome
  <2>. QED  BY <2>1 DEF LoopEnds
<1>10. Ready(p) /\ inCall[p].op \in {"none", "pWrite"}
  BY DEF Ready
<1>11. Outcome(pipes, sync, p, i, s, New)
  BY <1>3, <1>9
<1>12. Flow' /\ OthersKeep(i) /\ Puts(i) /\ Stays(p, i, "pWrite") /\ Holds(i)' = Holds(i) \o s
  BY <1>10, <1>11, WroteFlows
<1>13. Sends(p, i, str)
  BY <1>9, <1>12 DEF Sends
<1>. QED  BY <1>12, <1>13

\* pWrite after a sleep.
LEMMA GoesOnFlows ==
  ASSUME PipesInv, NEW p \in Process, NEW i \in Slot, Whole(i), inCall[p].slot = i,
         pWriteGoesOn(p), getting' = getting
  PROVE  Flow' /\ OthersKeep(i) /\ Puts(i) /\ Stays(p, i, "pWrite") /\ Sends(p, i, inCall[p].rest)
<1>. DEFINE T == Readers(i)  U == Writers(i)  rest == inCall[p].rest
            c == Head(rest)  str == Tail(rest)  w == pipes[i].lockW
<1>0. /\ SlotKeeps(pipes, sync, i, T, U, 0) /\ Control /\ inCall[p] \in Call
      /\ inCall[p].op = "pWrite" /\ ~ Asleep(p)
  BY DEF PipesInv, SlotsFlow, Control, TypesOK, pWriteGoesOn
<1>1. c \in PipeChar /\ str \in Seq(PipeChar) /\ <<c>> \in Seq(PipeChar) /\ rest = <<c>> \o str
  <2>1. rest \in Seq(PipeChar) /\ rest # <<>>
    BY <1>0 DEF Call
  <2>. HIDE DEF rest
  <2>. QED  BY <2>1
<1>2. WriteFrom(p, PutChar([array |-> pipes, sems |-> sync], i, c), i, str)
  BY DEF pWriteGoesOn
<1>. HIDE DEF c, str
<1>3. p \in U /\ p \notin Members(sync, w) /\ U \ {p} \subseteq U
  <2>1. w \in SyncId /\ sync[w] # NoSync
    BY <1>0, SyncAssumption DEF SlotKeeps, Kept
  <2>. QED  BY <1>0, <2>1 DEF Writers, Asleep, Members
<1>4. SlotKeeps(pipes, sync, i, T, U \ {p}, 1)
  <2>1. /\ sync \in Semaphores /\ w \in SyncId /\ IsFiniteSet(U) /\ Kept(sync, w, U)
        /\ Held(sync, pipes[i].lockR, T) + Held(sync, w, U) + 0 = BUFF_SIZE
        /\ IsFiniteSet(T) /\ Kept(sync, pipes[i].lockR, T)
    BY <1>0 DEF SlotKeeps
  <2>2. Kept(sync, w, U \ {p}) /\ Held(sync, w, U \ {p}) = Held(sync, w, U) - 1
    BY <1>3, <2>1, OneGoesOn
  <2>3. IsFiniteSet(U \ {p})
    BY <2>1, OneMore
  <2>4. Held(sync, pipes[i].lockR, T) \in Nat /\ Held(sync, w, U) \in Nat
    BY <2>1, HeldIsNat
  <2>5. Held(sync, pipes[i].lockR, T) + Held(sync, w, U \ {p}) + 1 = BUFF_SIZE
    <3>. HIDE DEF T, U, w
    <3>. QED  BY <2>1, <2>2, <2>4
  <2>. QED  BY <1>0, <2>2, <2>3, <2>5 DEF SlotKeeps
<1>5. PICK A, S : A = pipes /\ S = sync
  OBVIOUS
<1>6. PICK X, Y : X = T /\ Y = U \ {p}
  OBVIOUS
<1>7. PICK d, s : d = c /\ s = str
  OBVIOUS
<1>. DEFINE k == PutChar([array |-> A, sems |-> S], i, d)  B == k.array  V == k.sems
<1>8. SlotKeeps(A, S, i, X, Y, 1) /\ d \in PipeChar /\ s \in Seq(PipeChar) /\ <<d>> \in Seq(PipeChar)
  BY <1>1, <1>4, <1>5, <1>6, <1>7
<1>9. k = [array |-> B, sems |-> V] /\ Wrote(A, S, B, V, i, X, Y, <<d>>, {})
  BY <1>8, PutCharDoes
<1>10. WriteFrom(p, [array |-> B, sems |-> V], i, s)
  <2>1. WriteFrom(p, k, i, s)
    BY <1>2, <1>5, <1>7
  <2>. QED  BY <1>9, <2>1
<1>. HIDE DEF B, V
<1>11. SlotKeeps(B, V, i, X, Y, 0) /\ pipes[i].lockW = B[i].lockW /\ p \notin Y
  BY <1>5, <1>6, <1>9 DEF Wrote, SamePipe
<1>12. PICK n \in 0 .. Len(s) : WritesUpTo(B, V, i, X, Y, p, s, n)
  BY <1>8, <1>10, <1>11, WriteFromDoes
<1>13. PICK t \in Seq(PipeChar), New \in {{}, {p}} : Outcome(B, V, p, i, t, New) /\ s = t \o Rest(p)'
  <2>1. WritesUpTo(B, V, i, Readers(i), Writers(i) \ {p}, p, s, n)
    BY <1>6, <1>12
  <2>2. LoopEnds(B, V, p, i, s)
    BY <1>8, <2>1, LoopOutcome
  <2>. QED  BY <2>2 DEF LoopEnds
<1>14. Wrote(B, V, pipes', sync', i, X, Y \cup New, t, New)
  BY <1>6, <1>13 DEF Outcome
<1>15. PICK C, Z : C = pipes' /\ Z = sync'
  OBVIOUS
<1>16. PICK W : W = Y \cup New
  OBVIOUS
<1>17. Wrote(A, S, C, Z, i, X, W, <<d>> \o t, New)
  <2>1. 1 \in {0, 1}
    OBVIOUS
  <2>2. Wrote(B, V, C, Z, i, X, W, t, New)
    BY <1>14, <1>15, <1>16
  <2>. QED  BY <1>8, <1>9, <1>13, <2>1, <2>2, WroteOneMore
<1>18. Outcome(pipes, sync, p, i, <<d>> \o t, New)
  <2>1. Wrote(pipes, sync, pipes', sync', i, Readers(i), (Writers(i) \ {p}) \cup New, <<d>> \o t, New)
    BY <1>5, <1>6, <1>15, <1>16, <1>17
  <2>. QED  BY <1>13, <2>1 DEF Outcome
<1>19. Ready(p) /\ inCall[p].op \in {"none", "pWrite"}
  BY <1>0 DEF Ready
<1>20. <<d>> \o t \in Seq(PipeChar)
  BY <1>8, <1>13
<1>21. PICK z \in Seq(PipeChar) : z = <<d>> \o t
  BY <1>20
<1>22. Outcome(pipes, sync, p, i, z, New)
  BY <1>18, <1>21
<1>23. New \in {{}, {p}} /\ (inCall[p].op # "none" => inCall[p].slot = i)
  BY <1>13
<1>24. Flow' /\ OthersKeep(i)
  BY <1>19, <1>22, <1>23, WroteFlows
<1>25. Puts(i) /\ Holds(i)' = Holds(i) \o z
  BY <1>19, <1>22, <1>23, WroteFlows
<1>26. Stays(p, i, "pWrite")
  BY <1>19, <1>22, <1>23, WroteFlows
<1>27. Sends(p, i, rest)
  <2>1. PICK R : R = Rest(p)' /\ R \in Seq(PipeChar)
    <3>1. inCall'[p] \in Call
      BY <1>26 DEF Stays
    <3>2. Rest(p)' \in Seq(PipeChar)
      BY <3>1 DEF Rest, Call
    <3>. QED  BY <3>2
  <2>2. rest = <<d>> \o (t \o R)
    BY <1>1, <1>7, <1>13, <2>1
  <2>3. rest = z \o R
    <3>1. (<<d>> \o t) \o R = <<d>> \o (t \o R)
      BY <1>8, <1>13, <2>1, ConcatAssociative
    <3>. HIDE DEF rest
    <3>. QED  BY <1>21, <2>2, <3>1
  <2>. QED  BY <1>25, <2>1, <2>3 DEF Sends
<1>. QED  BY <1>24, <1>25, <1>26, <1>27

-----------------------------------------------------------------------------
(***************************************************************************)
(* pRead.                                                                  *)
(***************************************************************************)
Takes(i) ==
  /\ InUse(i) /\ InUse(i)'
  /\ Holds(i) # <<>> /\ Holds(i)' = Tail(Holds(i)) /\ lastRead'[i] = Head(Holds(i))

\* A reader has its token, and its character is still there.
Reading(A, S, i, T, U) ==
  /\ A \in [Slot -> Pipe] /\ S \in Semaphores
  /\ A[i].lockR \in SyncId /\ A[i].lockW \in SyncId /\ A[i].lockR # A[i].lockW
  /\ IsFiniteSet(T) /\ Kept(S, A[i].lockR, T)
  /\ IsFiniteSet(U) /\ Kept(S, A[i].lockW, U)
  /\ WritesBehind(A[i], Held(S, A[i].lockR, T) + 1)
  /\ Held(S, A[i].lockR, T) + Held(S, A[i].lockW, U) + 1 = BUFF_SIZE

ReadFrom(A, S, B, V, i, T, U, s) ==
  /\ SlotKeeps(B, V, i, T, U, 0)
  /\ \A j \in Slot \ {i} : B[j] = A[j]
  /\ SamePipe(A[i], B[i])
  /\ \A t \in SyncId \ {A[i].lockW} : V[t] = S[t]
  /\ Members(V, A[i].lockW) \subseteq Members(S, A[i].lockW)
  /\ s # <<>> /\ A[i].buffer[A[i].readIndex] = Head(s) /\ Inside(B, V, i, T) = Tail(s)

\* pRead after its sWait.
LEMMA ReadCharDoes ==
  ASSUME NEW A, NEW S, NEW i \in Slot, NEW T, NEW U, Reading(A, S, i, T, U)
  PROVE  ReadFrom(A, S, [A EXCEPT ![i] = Consumed(A[i])], AfterPost(S, A[i].lockW), i, T, U,
                  CharsIn(A[i], Held(S, A[i].lockR, T) + 1))
<1>. DEFINE r == A[i].lockR  w == A[i].lockW  V == AfterPost(S, w)  a == A[i]
            B == [A EXCEPT ![i] = Consumed(a)]  n == Held(S, r, T) + 1
<1>1. /\ A \in [Slot -> Pipe] /\ S \in Semaphores /\ r \in SyncId /\ w \in SyncId /\ r # w
      /\ IsFiniteSet(T) /\ Kept(S, r, T) /\ IsFiniteSet(U) /\ Kept(S, w, U)
      /\ WritesBehind(a, n) /\ Held(S, r, T) + Held(S, w, U) + 1 = BUFF_SIZE
  BY DEF Reading
<1>2. Held(S, r, T) \in Nat /\ Held(S, w, U) \in Nat /\ a \in Pipe
  BY <1>1, HeldIsNat
<1>3. n \in 1 .. BUFF_SIZE /\ n - 1 = Held(S, r, T)
  BY <1>1, <1>2, PipesAssumption
<1>. DEFINE b == Consumed(a)
<1>4. /\ b \in Pipe /\ WritesBehind(b, n - 1) /\ CharsIn(a, n) # <<>>
      /\ a.buffer[a.readIndex] = Head(CharsIn(a, n)) /\ CharsIn(b, n - 1) = Tail(CharsIn(a, n))
      /\ SamePipe(a, b)
  <2>. HIDE DEF n, a
  <2>. QED  BY <1>1, <1>2, <1>3, ReadTakes DEF SamePipe
<1>5. /\ V \in Semaphores /\ \A t \in SyncId \ {w} : V[t] = S[t]
      /\ Kept(V, w, U) /\ Held(V, w, U) = Held(S, w, U) + 1
      /\ Members(V, w) \subseteq Members(S, w)
  BY <1>1, PostGives
<1>. HIDE DEF V, b
<1>6. B \in [Slot -> Pipe] /\ B[i] = b /\ \A j \in Slot \ {i} : B[j] = A[j]
  BY <1>1, <1>4 DEF b
<1>. HIDE DEF B
<1>7. Kept(V, r, T) /\ Held(V, r, T) = Held(S, r, T)
  BY <1>1, <1>5, KeptStays
<1>8. B[i].lockR = r /\ B[i].lockW = w
  BY <1>4, <1>6 DEF SamePipe
<1>9. SlotKeeps(B, V, i, T, U, 0)
  <2>1. WritesBehind(B[i], Held(V, r, T))
    BY <1>3, <1>4, <1>6, <1>7
  <2>2. Held(V, r, T) + Held(V, w, U) + 0 = BUFF_SIZE
    <3>. HIDE DEF r, w
    <3>. QED  BY <1>1, <1>2, <1>5, <1>7
  <2>. QED  BY <1>1, <1>5, <1>6, <1>7, <1>8, <2>1, <2>2 DEF SlotKeeps
<1>10. Inside(B, V, i, T) = Tail(CharsIn(a, n))
  BY <1>3, <1>4, <1>6, <1>7, <1>8 DEF Inside
<1>11. ReadFrom(A, S, B, V, i, T, U, CharsIn(a, n))
  BY <1>4, <1>5, <1>6, <1>9, <1>10 DEF ReadFrom
<1>. QED  BY <1>11 DEF B, V, b

\* A read takes the first character.
LEMMA ReadFlows ==
  ASSUME PipesInv, NEW p \in Process, NEW i \in Slot, Whole(i), Ready(p),
         inCall[p].op # "none" => inCall[p].slot = i,
         NEW S, Reading(pipes, S, i, Readers(i)', Writers(i)),
         Held(S, pipes[i].lockR, Readers(i)') + 1 = Held(sync, pipes[i].lockR, Readers(i)),
         \A t \in SyncId \ {pipes[i].lockR} : S[t] = sync[t],
         Members(S, pipes[i].lockR) = Members(sync, pipes[i].lockR),
         ReadChar(i, S), Writers(i)' = Writers(i), lastRead \in [Slot -> PipeChar],
         inCall' \in [Process -> Call], \A q \in Process \ {p} : inCall'[q] = inCall[q],
         inCall'[p].op = "none", UNCHANGED <<semId, getting>>
  PROVE  Flow' /\ OthersKeep(i) /\ Takes(i) /\ Stays(p, i, "pRead")
<1>. DEFINE r == pipes[i].lockR  w == pipes[i].lockW
<1>1. PICK T, U, A : T = Readers(i)' /\ U = Writers(i) /\ A = pipes
  OBVIOUS
<1>2. PICK B, V : B = [A EXCEPT ![i] = Consumed(A[i])] /\ V = AfterPost(S, A[i].lockW)
  OBVIOUS
<1>3. PICK s : s = CharsIn(A[i], Held(S, A[i].lockR, T) + 1)
  OBVIOUS
<1>4. ReadFrom(A, S, B, V, i, T, U, s)
  <2>1. Reading(A, S, i, T, U)
    BY <1>1
  <2>. QED  BY <1>2, <1>3, <2>1, ReadCharDoes
<1>5. pipes' = B /\ sync' = V /\ lastRead' = [lastRead EXCEPT ![i] = A[i].buffer[A[i].readIndex]]
  <2>1. A \in [Slot -> Pipe]
    BY <1>1 DEF Reading
  <2>2. pipes' = [pipes EXCEPT ![i].readIndex = Advanced(@)] /\ sync' = AfterPost(S, pipes[i].lockW)
        /\ lastRead' = [lastRead EXCEPT ![i] = NextChar(i)]
    BY DEF ReadChar
  <2>3. B = [pipes EXCEPT ![i].readIndex = Advanced(@)]
    BY <1>1, <1>2 DEF Consumed
  <2>. QED  BY <1>1, <1>2, <2>2, <2>3 DEF NextChar
<1>6. /\ SlotKeeps(pipes', sync', i, Readers(i)', Writers(i)', 0)
      /\ \A j \in Slot \ {i} : pipes'[j] = pipes[j] /\ lastRead'[j] = lastRead[j]
      /\ SamePipe(pipes[i], pipes'[i])
      /\ \A t \in SyncId \ {w} : sync'[t] = S[t]
      /\ Members(sync', w) \subseteq Members(S, w)
      /\ s # <<>> /\ lastRead'[i] = Head(s)
      /\ Inside(pipes', sync', i, Readers(i)') = Tail(s)
  <2>1. /\ SlotKeeps(B, V, i, T, U, 0) /\ (\A j \in Slot \ {i} : B[j] = A[j]) /\ SamePipe(A[i], B[i])
        /\ \A t \in SyncId \ {A[i].lockW} : V[t] = S[t]
        /\ Members(V, A[i].lockW) \subseteq Members(S, A[i].lockW)
        /\ s # <<>> /\ A[i].buffer[A[i].readIndex] = Head(s) /\ Inside(B, V, i, T) = Tail(s)
    BY <1>4 DEF ReadFrom
  <2>2. lastRead'[i] = Head(s) /\ \A j \in Slot \ {i} : lastRead'[j] = lastRead[j]
    BY <1>5, <2>1
  <2>. QED  BY <1>1, <1>5, <2>1, <2>2
<1>7. /\ \A q \in Members(sync', r) : q \in Members(sync, r)
      /\ \A q \in Members(sync', w) : q \in Members(sync, w)
      /\ \A t \in SyncId \ {r, w} : sync'[t] = sync[t]
  <2>1. r \in SyncId /\ w \in SyncId /\ r # w
    BY DEF Reading
  <2>2. S[w] = sync[w] /\ sync'[r] = S[r]
    BY <1>6, <2>1
  <2>. QED  BY <1>6, <2>1, <2>2 DEF Members
<1>8. Moves(p, i)
  BY <1>6, <1>7 DEF Moves
<1>9. Flow' /\ OthersKeep(i)
  BY <1>8, MovesFlow
<1>10. Stays(p, i, "pRead")
  <2>1. pipes' \in [Slot -> Pipe]
    BY <1>6 DEF SlotKeeps
  <2>2. ASSUME NEW j \in Slot PROVE SamePipe(pipes[j], pipes'[j])
    BY <1>6 DEF SamePipe
  <2>. QED  BY <2>1, <2>2 DEF Stays
<1>11. Takes(i)
  <2>1. InUse(i) /\ InUse(i)' /\ Whole(i)'
    BY <1>6 DEF SamePipe, Whole, InUse
  <2>2. Holds(i)' = Tail(s)
    BY <1>6, <2>1 DEF Holds
  <2>3. Holds(i) = s
    BY <1>1, <1>3 DEF Holds, Inside
  <2>. QED  BY <1>6, <2>1, <2>2, <2>3 DEF Takes
<1>. QED  BY <1>9, <1>10, <1>11

\* The character that is read is one.
LEMMA ReadIsChar ==
  ASSUME PipesInv, NEW i \in Slot, NEW S, ReadChar(i, S)
  PROVE  LastOK' /\ NextChar(i) \in PipeChar
<1>1. pipes \in [Slot -> Pipe] /\ lastRead \in [Slot -> PipeChar]
  BY DEF PipesInv, Control, SlotsApart, LastOK
<1>2. NextChar(i) \in PipeChar
  <2>1. pipes[i] \in Pipe
    BY <1>1
  <2>2. pipes[i].readIndex \in 0 .. BUFF_SIZE - 1 /\ pipes[i].buffer \in [0 .. BUFF_SIZE - 1 -> PipeChar]
    BY <2>1 DEF Pipe
  <2>. QED  BY <2>2 DEF NextChar
<1>. QED  BY <1>1, <1>2 DEF ReadChar, LastOK

\* pRead that finds a character.
LEMMA PassFlows ==
  ASSUME PipesInv, NEW p \in Process, NEW i \in Slot, Whole(i), inCall[p].op = "none",
         pReadPasses(p, i), getting' = getting
  PROVE  Flow' /\ OthersKeep(i) /\ Takes(i) /\ Stays(p, i, "pRead")
<1>. DEFINE T == Readers(i)  U == Writers(i)  r == pipes[i].lockR  w == pipes[i].lockW
<1>0. /\ SlotKeeps(pipes, sync, i, T, U, 0) /\ Control
      /\ inCall \in [Process -> Call] /\ inCall' = inCall /\ semId' = semId
      /\ lastRead \in [Slot -> PipeChar]
  BY DEF PipesInv, SlotsFlow, Control, TypesOK, pReadPasses, LastOK
<1>1. /\ pipes \in [Slot -> Pipe] /\ sync \in Semaphores /\ r \in SyncId /\ w \in SyncId /\ r # w
      /\ IsFiniteSet(T) /\ Kept(sync, r, T) /\ IsFiniteSet(U) /\ Kept(sync, w, U)
      /\ WritesBehind(pipes[i], Held(sync, r, T)) /\ Held(sync, r, T) + Held(sync, w, U) + 0 = BUFF_SIZE
  BY <1>0 DEF SlotKeeps
<1>2. sync[r].value # 0
  BY <1>1, SyncAssumption DEF pReadPasses, Sleeps, Kept
<1>3. PICK S : S = AfterWait(sync, r, p)
  OBVIOUS
<1>4. /\ S \in Semaphores /\ \A t \in SyncId \ {r} : S[t] = sync[t]
      /\ Kept(S, r, T) /\ Held(S, r, T) = Held(sync, r, T) - 1
      /\ Members(S, r) = Members(sync, r)
  BY <1>1, <1>2, <1>3, WaitTakes
<1>5. Kept(S, w, U) /\ Held(S, w, U) = Held(sync, w, U)
  BY <1>1, <1>4, KeptStays
<1>6. Held(sync, r, T) \in Nat /\ Held(sync, w, U) \in Nat
  BY <1>1, HeldIsNat
<1>7. /\ Held(S, r, T) + 1 = Held(sync, r, T)
      /\ Held(S, r, T) + Held(S, w, U) + 1 = BUFF_SIZE
  <2>. HIDE DEF T, U, r, w
  <2>. QED  BY <1>1, <1>4, <1>5, <1>6
<1>8. Reading(pipes, S, i, T, U)
  BY <1>1, <1>4, <1>5, <1>7 DEF Reading
<1>9. Readers(i)' = T /\ Writers(i)' = U
  BY <1>0 DEF Readers, Writers
<1>10. ReadChar(i, S)
  BY <1>3 DEF pReadPasses
<1>11. Reading(pipes, S, i, Readers(i)', Writers(i))
  BY <1>8, <1>9
<1>12. Held(S, r, Readers(i)') + 1 = Held(sync, r, Readers(i))
  BY <1>7, <1>9
<1>13. Ready(p) /\ Writers(i)' = Writers(i) /\ inCall'[p].op = "none" /\ semId' = semId
       /\ inCall' \in [Process -> Call] /\ \A q \in Process \ {p} : inCall'[q] = inCall[q]
  BY <1>0, <1>9 DEF Ready
<1>. QED  BY <1>0, <1>4, <1>10, <1>11, <1>12, <1>13, ReadFlows

\* pRead after a sleep.
LEMMA ReturnFlows ==
  ASSUME PipesInv, NEW p \in Process, NEW i \in Slot, Whole(i), inCall[p].slot = i,
         pReadReturns(p), getting' = getting
  PROVE  Flow' /\ OthersKeep(i) /\ Takes(i) /\ Stays(p, i, "pRead")
<1>. DEFINE T == Readers(i)  U == Writers(i)  r == pipes[i].lockR  w == pipes[i].lockW
<1>0. /\ SlotKeeps(pipes, sync, i, T, U, 0) /\ Control
      /\ inCall \in [Process -> Call] /\ inCall' = [inCall EXCEPT ![p] = [op |-> "none"]]
      /\ semId' = semId /\ inCall[p].op = "pRead" /\ ~ Asleep(p)
      /\ lastRead \in [Slot -> PipeChar] /\ ReadChar(i, sync)
  BY DEF PipesInv, SlotsFlow, Control, TypesOK, pReadReturns, LastOK
<1>1. /\ pipes \in [Slot -> Pipe] /\ sync \in Semaphores /\ r \in SyncId /\ w \in SyncId /\ r # w
      /\ IsFiniteSet(T) /\ Kept(sync, r, T) /\ IsFiniteSet(U) /\ Kept(sync, w, U)
      /\ WritesBehind(pipes[i], Held(sync, r, T)) /\ Held(sync, r, T) + Held(sync, w, U) + 0 = BUFF_SIZE
  BY <1>0 DEF SlotKeeps
<1>2. p \in T /\ p \notin Members(sync, r)
  BY <1>0, <1>1, SyncAssumption DEF Readers, Asleep, Members, Kept
<1>3. Kept(sync, r, T \ {p}) /\ Held(sync, r, T \ {p}) = Held(sync, r, T) - 1
  BY <1>1, <1>2, OneGoesOn
<1>4. Held(sync, r, T) \in Nat /\ Held(sync, w, U) \in Nat
  BY <1>1, HeldIsNat
<1>5. /\ Held(sync, r, T \ {p}) + 1 = Held(sync, r, T)
      /\ Held(sync, r, T \ {p}) + Held(sync, w, U) + 1 = BUFF_SIZE
  <2>. HIDE DEF T, U, r, w
  <2>. QED  BY <1>1, <1>3, <1>4
<1>6. Reading(pipes, sync, i, T \ {p}, U)
  <2>1. IsFiniteSet(T \ {p})
    BY <1>1, OneMore
  <2>. QED  BY <1>1, <1>3, <1>5, <2>1 DEF Reading
<1>7. [op |-> "none"] \in Call
  BY DEF Call
<1>8. /\ inCall' \in [Process -> Call] /\ (\A q \in Process \ {p} : inCall'[q] = inCall[q])
      /\ inCall'[p].op = "none"
  BY <1>0, <1>7
<1>9. Readers(i)' = T \ {p} /\ Writers(i)' = Writers(i)
  BY <1>0, <1>8 DEF Readers, Writers
<1>10. PICK S : S = sync
  OBVIOUS
<1>11. Reading(pipes, S, i, Readers(i)', Writers(i)) /\ ReadChar(i, S)
  BY <1>0, <1>6, <1>9, <1>10
<1>12. Held(S, r, Readers(i)') + 1 = Held(sync, r, Readers(i))
  BY <1>5, <1>9, <1>10
<1>13. (\A t \in SyncId \ {r} : S[t] = sync[t]) /\ Members(S, r) = Members(sync, r)
  BY <1>10
<1>14. Ready(p) /\ semId' = semId
  BY <1>0 DEF Ready
<1>. QED  BY <1>0, <1>8, <1>9, <1>11, <1>12, <1>13, <1>14, ReadFlows

Joins(A, S, V, i, T, U, p) ==
  /\ SlotKeeps(A, V, i, T \cup {p}, U, 0)
  /\ \A t \in SyncId \ {A[i].lockR} : V[t] = S[t]
  /\ Members(V, A[i].lockR) = Members(S, A[i].lockR) \cup {p}
  /\ Members(V, A[i].lockW) = Members(S, A[i].lockW)
  /\ Inside(A, V, i, T \cup {p}) = Inside(A, S, i, T)

\* A reader joins the line.
LEMMA ReaderSleeps ==
  ASSUME NEW A, NEW S, NEW i \in Slot, NEW T, NEW U, SlotKeeps(A, S, i, T, U, 0),
         S[A[i].lockR].value = 0, NEW p \in Process, p \notin T
  PROVE  Joins(A, S, AfterWait(S, A[i].lockR, p), i, T, U, p)
<1>. DEFINE r == A[i].lockR  w == A[i].lockW  V == AfterWait(S, r, p)
<1>1. /\ A \in [Slot -> Pipe] /\ S \in Semaphores /\ r \in SyncId /\ w \in SyncId /\ r # w
      /\ IsFiniteSet(T) /\ Kept(S, r, T) /\ IsFiniteSet(U) /\ Kept(S, w, U)
      /\ WritesBehind(A[i], Held(S, r, T)) /\ Held(S, r, T) + Held(S, w, U) + 0 = BUFF_SIZE
  BY DEF SlotKeeps
<1>2. /\ V \in Semaphores /\ \A t \in SyncId \ {r} : V[t] = S[t]
      /\ Kept(V, r, T \cup {p}) /\ Held(V, r, T \cup {p}) = Held(S, r, T)
      /\ Members(V, r) = Members(S, r) \cup {p}
  BY <1>1, WaitSleeps
<1>. HIDE DEF V
<1>3. /\ Kept(V, w, U) /\ Held(V, w, U) = Held(S, w, U) /\ Members(V, w) = Members(S, w)
  BY <1>1, <1>2, KeptStays
<1>4. IsFiniteSet(T \cup {p})
  BY <1>1, OneMore
<1>5. SlotKeeps(A, V, i, T \cup {p}, U, 0)
  BY <1>1, <1>2, <1>3, <1>4 DEF SlotKeeps
<1>6. Inside(A, V, i, T \cup {p}) = Inside(A, S, i, T)
  BY <1>2 DEF Inside
<1>. QED  BY <1>2, <1>3, <1>5, <1>6 DEF V, Joins

\* pRead that finds none.
LEMMA SleepFlows ==
  ASSUME PipesInv, NEW p \in Process, NEW i \in Slot, Whole(i), inCall[p].op = "none",
         pReadSleeps(p, i), getting' = getting
  PROVE  Flow' /\ OthersKeep(i) /\ Keeps(i) /\ Stays(p, i, "pRead")
<1>. DEFINE T == Readers(i)  U == Writers(i)  r == pipes[i].lockR  w == pipes[i].lockW
            new == [op |-> "pRead", slot |-> i]
<1>0. /\ SlotKeeps(pipes, sync, i, T, U, 0) /\ Control
      /\ inCall \in [Process -> Call] /\ inCall' = [inCall EXCEPT ![p] = new]
      /\ UNCHANGED <<pipes, semId, lastRead>>
  BY DEF PipesInv, SlotsFlow, Control, TypesOK, pReadSleeps
<1>1. /\ pipes \in [Slot -> Pipe] /\ w \in SyncId /\ r # w
  BY <1>0 DEF SlotKeeps
<1>2. sync[r].value = 0 /\ sync' = AfterWait(sync, r, p)
  BY DEF pReadSleeps, Sleeps
<1>3. p \notin T
  BY DEF Readers
<1>4. PICK A, S, X, Y, V : A = pipes /\ S = sync /\ X = T /\ Y = U /\ V = sync'
  OBVIOUS
<1>5. SlotKeeps(A, S, i, X, Y, 0) /\ S[A[i].lockR].value = 0 /\ p \notin X
  BY <1>0, <1>2, <1>3, <1>4
<1>6. Joins(A, S, AfterWait(S, A[i].lockR, p), i, X, Y, p)
  BY <1>5, ReaderSleeps
<1>7. Joins(A, S, V, i, X, Y, p)
  BY <1>2, <1>4, <1>6
<1>8. /\ SlotKeeps(pipes, sync', i, T \cup {p}, U, 0) /\ \A t \in SyncId \ {r} : sync'[t] = sync[t]
      /\ Members(sync', r) = Members(sync, r) \cup {p} /\ Members(sync', w) = Members(sync, w)
      /\ Inside(pipes, sync', i, T \cup {p}) = Inside(pipes, sync, i, T)
  BY <1>4, <1>7 DEF Joins
<1>9. new \in Call /\ new.op = "pRead" /\ new.slot = i
  BY DEF Call
<1>. HIDE DEF new
<1>10. /\ inCall' \in [Process -> Call] /\ (\A q \in Process \ {p} : inCall'[q] = inCall[q])
       /\ inCall'[p].op = "pRead" /\ inCall'[p].slot = i
  BY <1>0, <1>9
<1>11. Readers(i)' = T \cup {p} /\ Writers(i)' = U
  BY <1>10 DEF Readers, Writers
<1>12. /\ SlotKeeps(pipes', sync', i, Readers(i)', Writers(i)', 0)
       /\ Inside(pipes', sync', i, Readers(i)') = Inside(pipes, sync, i, T)
  BY <1>0, <1>8, <1>11
<1>13. Moves(p, i)
  <2>1. /\ \A q \in Members(sync', r) : q \in Members(sync, r) \/ (q = p /\ inCall'[p].op = "pRead")
        /\ \A q \in Members(sync', w) : q \in Members(sync, w) \/ (q = p /\ inCall'[p].op = "pWrite")
        /\ \A t \in SyncId \ {r, w} : sync'[t] = sync[t]
    BY <1>1, <1>8, <1>10
  <2>2. SamePipe(pipes[i], pipes'[i])
    BY <1>0 DEF SamePipe
  <2>3. inCall[p].op # "none" => inCall[p].slot = i
    OBVIOUS
  <2>. QED  BY <1>0, <1>10, <1>12, <2>1, <2>2, <2>3 DEF Moves
<1>14. Ready(p)
  BY DEF Ready
<1>15. Flow' /\ OthersKeep(i)
  BY <1>13, <1>14, MovesFlow
<1>16. Stays(p, i, "pRead")
  BY <1>0, <1>1, <1>10 DEF Stays, SamePipe
<1>17. Keeps(i)
  BY <1>0, <1>12 DEF Keeps, Holds, InUse, Whole
<1>. QED  BY <1>15, <1>16, <1>17

-----------------------------------------------------------------------------
(***************************************************************************)
(* The beginning.                                                          *)
(***************************************************************************)
\* At boot no pipe is open, and nobody is in a call.
LEMMA InitPipesInv == PipelineInit => PipesInv
<1>. SUFFICES ASSUME PipelineInit PROVE PipesInv
  OBVIOUS
<1>. USE Bounds
<1>1. /\ KeyboardInit /\ PipesInit
      /\ shellPc = "prompt" /\ pipeline = 0 /\ shellPipe = FIRST_PIPE
      /\ commands = <<"none", "none">> /\ prog = [p \in Program |-> NoProgram]
      /\ pressed = 0 /\ leaked = 0 /\ getting = {} /\ keys = EmptyRing
  BY DEF PipelineInit, KeyboardInit
<1>2. /\ semId = FIRST_SEM /\ inCall = [p \in Process |-> [op |-> "none"]]
      /\ lastRead = [i \in Slot |-> NoChar]
  BY <1>1 DEF PipesInit
<1>3. pipes \in [Slot -> Pipe] /\ \A i \in Slot : pipes[i].state = "EMPTY" /\ pipes[i].lockW = 0
                                                  /\ pipes[i].totalProcesses = 0
  <2>. DEFINE buffer == [j \in 0 .. BUFF_SIZE - 1 |-> NoChar]
              a == [state |-> "EMPTY", id |-> 0, totalProcesses |-> 0, lockR |-> 0, lockW |-> 0,
                    readIndex |-> 0, writeIndex |-> 0, buffer |-> buffer]
  <2>1. buffer \in [0 .. BUFF_SIZE - 1 -> PipeChar] /\ 0 \in 0 .. BUFF_SIZE - 1
    OBVIOUS
  <2>2. pipes = [i \in Slot |-> a]
    BY <1>1 DEF PipesInit
  <2>. HIDE DEF buffer
  <2>3. a \in Pipe
    BY <2>1 DEF Pipe
  <2>. QED  BY <2>2, <2>3
<1>4. \A i \in Slot : ~ InUse(i)
  BY <1>3 DEF InUse
<1>5. NoProgram \in ProgramState /\ [op |-> "none"] \in Call /\ "none" \in Command
  BY DEF NoProgram, ProgramState, Command, Call
<1>6. TypesOK
  BY <1>1, <1>2, <1>5 DEF TypesOK
<1>7. SlotsApart
  BY <1>1, <1>2, <1>3, <1>4 DEF SlotsApart
<1>8. \A p \in Program : ~ Alive(p) /\ prog[p].lines = 0 /\ prog[p].pc = "dead"
  BY <1>1 DEF Alive, NoProgram
<1>9. ProgramsServed /\ ShellKnows /\ CallsServed
  BY <1>1, <1>2, <1>8 DEF ProgramsServed, ShellKnows, Working, CallsServed, CallOK
<1>10. SlotsCounted
  <2>1. UsedSlots = {} /\ ~ Working
    BY <1>1, <1>4 DEF UsedSlots, Working
  <2>. QED  BY <1>1, <2>1, FS_EmptySet DEF SlotsCounted
<1>11. KeysCounted
  <2>1. /\ keys.queue \in [0 .. dim - 1 -> Keystrokes \cup {Zero}] /\ keys.front = 0 /\ keys.rear = -1
        /\ keys.size = 0
    BY <1>1 DEF EmptyRing
  <2>2. \A p \in Program : LinesCounted(p)
    BY <1>1, <1>8, <2>1 DEF LinesCounted
  <2>. QED  BY <1>1, <2>1, <2>2 DEF KeysCounted
<1>12. LinesOK
  <2>1. [value |-> 0, listeners |-> 1, blockedPIDs |-> <<>>] \in Semaphore
    BY SyncAssumption DEF Semaphore
  <2>2. /\ sync \in Semaphores /\ sync[KEY_SEM_ID] \in Semaphore /\ sync[KEY_SEM_ID].blockedPIDs = <<>>
        /\ \A s \in SyncId \ {KEY_SEM_ID} : sync[s] = NoSync
    BY <1>1, <2>1 DEF KeyboardInit, Semaphores
  <2>3. Members(sync, KEY_SEM_ID) = {}
    BY <2>2 DEF Members, Range
  <2>4. sync[KEY_SEM_ID] # NoSync
    BY <2>2, SyncAssumption
  <2>. QED  BY <2>2, <2>3, <2>4 DEF LinesOK
<1>13. SlotsFlow
  BY <1>4 DEF SlotsFlow, Whole
<1>14. LastOK
  BY <1>2 DEF LastOK
<1>. QED  BY <1>6, <1>7, <1>9, <1>10, <1>11, <1>12, <1>13, <1>14 DEF PipesInv, Control

-----------------------------------------------------------------------------
(***************************************************************************)
(* What is said of a step: the invariant holds after it, and each slot is  *)
(* opened or closed, or takes or gives characters, or is left alone.       *)
(***************************************************************************)
Opened(i) == ~ InUse(i) /\ InUse(i)' /\ Holds(i) = <<>> /\ Holds(i)' = <<>> /\ lastRead'[i] = lastRead[i]
Closed(i) == InUse(i) /\ ~ InUse(i)' /\ Holds(i)' = <<>> /\ lastRead'[i] = lastRead[i]
Streams == \A i \in Slot : Keeps(i) \/ Puts(i) \/ Takes(i) \/ Opened(i) \/ Closed(i)
Fine == PipesInv' /\ Streams

\* A step of p that leaves the pipes alone.
LEMMA IdleControl ==
  ASSUME Control, NEW p \in Process, inCall[p].op = "none", KeysCounted',
         UNCHANGED <<pipes, semId, inCall, shellPc, pipeline, shellPipe, leaked, commands>>,
         prog' \in [Program -> ProgramState], \A q \in Program \ {p} : prog'[q] = prog[q],
         p \in Program /\ prog'[p].pc # "dead" => Alive(p)
  PROVE  Control'
<1>1. Acts(p)
  BY DEF Acts, SameSlots, SamePipe, Control, TypesOK, SlotsApart
<1>2. CallOK(p)'
  BY DEF CallOK
<1>. QED  BY <1>1, <1>2, ActorMoves

\* A step that uses no semaphore but that of the keyboard.
LEMMA IdleFine ==
  ASSUME PipesInv, Control', UNCHANGED <<pipes, semId, lastRead, inCall>>,
         sync' \in Semaphores, sync'[KEY_SEM_ID] # NoSync,
         \A t \in SyncId \ {KEY_SEM_ID} : sync'[t] = sync[t],
         \A p \in Members(sync', KEY_SEM_ID) : p \in getting'
  PROVE  Fine
<1>1. Flow' /\ \A i \in Slot : Keeps(i)
  BY PassiveFlow
<1>2. LastOK'
  BY DEF PipesInv, LastOK
<1>3. PipesInv'
  BY <1>1, <1>2 DEF Flow, PipesInv
<1>. QED  BY <1>1, <1>3 DEF Fine, Streams

\* In the line of the keyboard are those who read it.
LEMMA KeyLine ==
  ASSUME PipesInv
  PROVE  /\ sync \in Semaphores /\ sync[KEY_SEM_ID] \in Semaphore /\ sync[KEY_SEM_ID] # NoSync
         /\ \A p \in Members(sync, KEY_SEM_ID) : p \in getting
<1>0. Control /\ LinesOK
  BY DEF PipesInv
<1>1. sync \in Semaphores /\ sync[KEY_SEM_ID] \in Semaphore /\ sync[KEY_SEM_ID] # NoSync
  BY <1>0, Bounds DEF LinesOK, Semaphores
<1>2. ASSUME NEW p \in Members(sync, KEY_SEM_ID) PROVE p \in getting
  <2>1. InLine(p, KEY_SEM_ID)
    BY <1>0, <1>1, <1>2, Bounds DEF LinesOK
  <2>2. p \in Process
    BY <1>1, <1>2 DEF Members, Range, Semaphore
  <2>. SUFFICES ASSUME p \notin getting PROVE FALSE
    OBVIOUS
  <2>3. inCall[p].op = "pRead" \/ inCall[p].op = "pWrite"
    BY <2>1 DEF InLine
  <2>4. Serves(inCall[p].slot, OurPipe) \/ Serves(inCall[p].slot, PipeOf(p))
    BY <1>0, <2>2, <2>3 DEF Control, CallsServed, CallOK
  <2>5. PICK i \in Slot : i = inCall[p].slot /\ Whole(i)
    BY <2>4 DEF Serves
  <2>6. pipes[i].lockR \in PipeSems /\ pipes[i].lockW \in PipeSems
    BY <1>0, <2>5, LocksAre DEF Whole
  <2>. QED  BY <2>1, <2>5, <2>6, Bounds DEF InLine
<1>. QED  BY <1>1, <1>2

-----------------------------------------------------------------------------
(***************************************************************************)
(* The keyboard, and ctrl-C.                                               *)
(***************************************************************************)
KeyMoves ==
  /\ sync' \in Semaphores /\ sync'[KEY_SEM_ID] # NoSync
  /\ \A t \in SyncId \ {KEY_SEM_ID} : sync'[t] = sync[t]
  /\ \A p \in Members(sync', KEY_SEM_ID) : p \in getting'

\* A key wakes the first reader.
LEMMA KeyPosts ==
  ASSUME PipesInv, sync' = AfterPost(sync, KEY_SEM_ID), getting' = getting
  PROVE  KeyMoves
<1>. DEFINE line == sync[KEY_SEM_ID].blockedPIDs
<1>1. /\ sync \in Semaphores /\ sync[KEY_SEM_ID] # NoSync /\ line \in Seq(Process)
      /\ \A p \in Range(line) : p \in getting
  BY KeyLine DEF Members, Semaphore
<1>2. /\ sync' \in Semaphores /\ sync'[KEY_SEM_ID] \in Semaphore
      /\ \A t \in SyncId \ {KEY_SEM_ID} : sync'[t] = sync[t]
      /\ line = <<>> => sync'[KEY_SEM_ID].blockedPIDs = <<>>
      /\ line # <<>> => sync'[KEY_SEM_ID].blockedPIDs = Tail(line)
  BY <1>1, Bounds, AfterPostDoes
<1>3. Members(sync', KEY_SEM_ID) \subseteq Range(line)
  <2>1. CASE line = <<>>
    BY <1>2, <2>1 DEF Members
  <2>2. CASE line # <<>>
    <3>1. Range(Tail(line)) \subseteq Range(line)
      BY <1>1, <2>2, RangeOfTail
    <3>. QED  BY <1>2, <2>2, <3>1 DEF Members
  <2>. QED  BY <2>1, <2>2
<1>4. sync'[KEY_SEM_ID] # NoSync
  BY <1>2, SyncAssumption
<1>. QED  BY <1>1, <1>2, <1>3, <1>4 DEF KeyMoves

\* getchar: through, or into the line.
LEMMA GetcharMoves ==
  ASSUME PipesInv, NEW p \in Process, Getchar(p)
  PROVE  /\ KeyMoves
         /\ p \notin getting' => TakeKey /\ getting' = getting
         /\ p \in getting' => UNCHANGED <<keys, taken>> /\ getting' = getting \cup {p}
<1>. DEFINE line == sync[KEY_SEM_ID].blockedPIDs
<1>1. /\ sync \in Semaphores /\ sync[KEY_SEM_ID] # NoSync /\ line \in Seq(Process)
      /\ \A q \in Range(line) : q \in getting
  BY KeyLine DEF Members, Semaphore
<1>2. /\ sync' \in Semaphores /\ sync'[KEY_SEM_ID] \in Semaphore
      /\ \A t \in SyncId \ {KEY_SEM_ID} : sync'[t] = sync[t]
      /\ sync[KEY_SEM_ID].value = 0 => sync'[KEY_SEM_ID].blockedPIDs = Append(line, p)
      /\ sync[KEY_SEM_ID].value # 0 => sync'[KEY_SEM_ID].blockedPIDs = line
  BY <1>1, Bounds, AfterWaitDoes DEF Getchar
<1>3. sync'[KEY_SEM_ID] # NoSync
  BY <1>2, SyncAssumption
<1>4. CASE sync[KEY_SEM_ID].value = 0
  <2>1. getting' = getting \cup {p} /\ UNCHANGED <<keys, taken>>
    BY <1>1, <1>4 DEF Getchar, Sleeps
  <2>2. Range(Append(line, p)) = Range(line) \cup {p}
    BY <1>1, RangeAppend
  <2>. QED  BY <1>1, <1>2, <1>3, <1>4, <2>1, <2>2 DEF KeyMoves, Members
<1>5. CASE sync[KEY_SEM_ID].value # 0
  <2>1. p \notin getting /\ getting' = getting /\ TakeKey
    BY <1>5 DEF Getchar, Sleeps
  <2>. QED  BY <1>1, <1>2, <1>3, <1>5, <2>1 DEF KeyMoves, Members
<1>. QED  BY <1>4, <1>5

\* getchar after a sleep.
LEMMA ReturnMoves ==
  ASSUME PipesInv, NEW p \in Process, GetcharReturns(p)
  PROVE  KeyMoves /\ TakeKey /\ getting' = getting \ {p}
<1>1. sync' = sync /\ TakeKey /\ getting' = getting \ {p} /\ ~ Asleep(p)
  BY DEF GetcharReturns
<1>2. p \notin Members(sync, KEY_SEM_ID)
  BY <1>1, Bounds, KeyLine DEF Asleep, Members
<1>. QED  BY <1>1, <1>2, KeyLine DEF KeyMoves

\* A key is typed.
LEMMA TypeFine ==
  ASSUME PipesInv, NEW c \in Keystrokes, Type(c)
  PROVE  Fine
<1>1. /\ pressed < KeyCap /\ ~ queueIsFull(keys) /\ pressed' = pressed + 1
      /\ sync' = AfterPost(sync, KEY_SEM_ID) /\ keys' = queueInsert(keys, c) /\ getting' = getting
      /\ UNCHANGED <<pipesVars, shellPc, pipeline, shellPipe, commands, prog, leaked>>
  BY DEF Type, sendKey, Announced
<1>2. Control /\ KeysCounted /\ TypesOK
  BY DEF PipesInv, Control
<1>3. /\ keys.queue \in [0 .. dim - 1 -> Keystrokes \cup {Zero}]
      /\ keys.front \in 0 .. dim - 1 /\ keys.rear \in -1 .. dim - 1 /\ keys.size \in Nat
      /\ pressed \in 0 .. KeyCap /\ KeyCap \in Nat /\ keys.size <= pressed /\ dim \in Nat \ {0}
  BY <1>2, Bounds DEF KeysCounted
<1>4. NextRear(keys.rear) \in 0 .. dim - 1
  BY <1>3 DEF NextRear
<1>5. keys' = [queue |-> [keys.queue EXCEPT ![NextRear(keys.rear)] = c], front |-> keys.front,
               rear |-> NextRear(keys.rear), size |-> keys.size + 1]
  BY <1>1 DEF queueInsert, Inserted
<1>6. /\ keys'.queue \in [0 .. dim - 1 -> Keystrokes \cup {Zero}]
      /\ keys'.front \in 0 .. dim - 1 /\ keys'.rear \in -1 .. dim - 1 /\ keys'.size = keys.size + 1
      /\ keys'.size \in Nat /\ pressed' \in 0 .. KeyCap /\ keys'.size <= pressed'
  BY <1>1, <1>3, <1>4, <1>5
<1>7. ASSUME NEW p \in Program, IsLeft(p) PROVE LinesCounted(p)'
  <2>1. LinesCounted(p) /\ prog[p].lines \in Nat
    BY <1>2, <1>7 DEF KeysCounted, TypesOK, ProgramState
  <2>2. prog[p].lines + keys'.size <= pressed'
    BY <1>1, <1>3, <1>6, <2>1 DEF LinesCounted
  <2>. QED  BY <1>1, <2>1, <2>2 DEF LinesCounted, Alive
<1>8. KeysCounted'
  BY <1>1, <1>2, <1>6, <1>7 DEF KeysCounted
<1>9. Control'
  <2>1. /\ UNCHANGED <<pipes, semId, inCall, shellPc, pipeline, shellPipe, leaked, commands, prog>>
        /\ prog \in [Program -> ProgramState]
    BY <1>1, <1>2 DEF pipesVars, TypesOK
  <2>2. Acts(ShellProc)
    BY <1>2, <2>1, Bounds DEF Acts, SameSlots, SamePipe, Control, TypesOK, SlotsApart
  <2>3. CallOK(ShellProc)'
    <3>1. CallOK(ShellProc)
      BY <1>2, Bounds DEF Control, CallsServed
    <3>. QED  BY <2>1, <3>1 DEF CallOK, Serves, Whole, InUse, OurPipe
  <2>. QED  BY <1>2, <1>8, <2>2, <2>3, Bounds, ActorMoves
<1>10. KeyMoves
  BY <1>1, KeyPosts
<1>. QED  BY <1>1, <1>9, <1>10, IdleFine DEF KeyMoves, pipesVars

\* ctrl-C kills a program that is in no call.
LEMMA InterruptsFine ==
  ASSUME PipesInv, NEW p \in Program, Interrupts(p)
  PROVE  Fine
<1>1. /\ prog' = [prog EXCEPT ![p] = NoProgram] /\ p \notin getting /\ inCall[p].op = "none"
      /\ UNCHANGED <<sync, keyboardVars, pipesVars, shellPc, pipeline, shellPipe, commands, pressed,
                     leaked>>
  BY DEF Interrupts, InCall
<1>2. Control /\ KeysCounted /\ TypesOK /\ p \in Process
  BY Bounds DEF PipesInv, Control
<1>3. /\ prog' \in [Program -> ProgramState] /\ (\A q \in Program \ {p} : prog'[q] = prog[q])
      /\ prog'[p].pc = "dead" /\ prog'[p].lines = 0 /\ prog[p].lines \in Nat
  <2>1. NoProgram \in ProgramState /\ prog \in [Program -> ProgramState]
    BY <1>2, Bounds DEF NoProgram, ProgramState, Command, TypesOK
  <2>. QED  BY <1>1, <2>1 DEF NoProgram, ProgramState
<1>4. UNCHANGED <<pipes, semId, inCall, lastRead, keys, getting>>
  BY <1>1 DEF pipesVars, keyboardVars
<1>5. Acts(p)
  BY <1>1, <1>2, <1>3, <1>4 DEF Acts, SameSlots, SamePipe, Control, TypesOK, SlotsApart
<1>6. KeysCounted'
  BY <1>1, <1>2, <1>3, <1>4, <1>5, KeysStay
<1>7. Control'
  BY <1>1, <1>2, <1>3, <1>4, <1>6, IdleControl
<1>. QED  BY <1>1, <1>4, <1>7, IdleFine, KeyLine

-----------------------------------------------------------------------------
(***************************************************************************)
(* The programs.                                                           *)
(***************************************************************************)
\* What a program is in depends on which it is and on what it does next.
LEMMA CallsAre ==
  ASSUME PipesInv, NEW p \in Program
  PROVE  /\ IsLeft(p) /\ prog[p].pc \notin {"write", "count"} => inCall[p].op = "none"
         /\ ~ IsLeft(p) /\ prog[p].pc # "read" => inCall[p].op = "none"
         /\ inCall[p].op = "pRead" => ~ IsLeft(p) /\ prog[p].pc = "read" /\ Serves(inCall[p].slot, PipeOf(p))
         /\ inCall[p].op = "pWrite" =>
              IsLeft(p) /\ prog[p].pc \in {"write", "count"} /\ Serves(inCall[p].slot, PipeOf(p))
         /\ inCall[p].op \in {"none", "pRead", "pWrite"}
         /\ ~ IsLeft(p) \/ prog[p].pc # "read" => p \notin getting
         /\ p \in Process /\ p # ShellProc /\ prog[p] \in ProgramState
<1>1. CallOK(p) /\ p \in Process /\ p # ShellProc /\ KeysCounted /\ prog[p] \in ProgramState
  BY Bounds DEF PipesInv, Control, CallsServed, TypesOK
<1>. QED  BY <1>1 DEF CallOK, KeysCounted

\* getchar of the left program.
LEMMA LeftReadsFine ==
  ASSUME PipesInv, NEW p \in Program, LeftReads(p)
  PROVE  Fine
<1>1. /\ IsLeft(p) /\ prog[p].pc = "read"
      /\ Getchar(p) \/ GetcharReturns(p)
      /\ p \in getting' => prog' = prog
      /\ p \notin getting' => Reads(p, taken')
      /\ UNCHANGED <<pipesVars, shellPc, pipeline, shellPipe, commands, leaked, pressed>>
  BY DEF LeftReads, kernelOnly
<1>2. Control /\ KeysCounted /\ TypesOK /\ p \in Process /\ inCall[p].op = "none" /\ Alive(p)
  BY <1>1, CallsAre DEF PipesInv, Control, Alive
<1>3. UNCHANGED <<pipes, semId, inCall, lastRead>>
  BY <1>1 DEF pipesVars
<1>4. KeyMoves
  BY <1>1, <1>2, GetcharMoves, ReturnMoves
<1>5. CASE p \in getting'
  <2>1. UNCHANGED <<keys, taken, prog>> /\ getting' = getting \cup {p}
    <3>1. ~ GetcharReturns(p)
      BY <1>5 DEF GetcharReturns
    <3>. QED  BY <1>1, <1>2, <1>5, <3>1, GetcharMoves
  <2>2. KeysCounted'
    BY <1>1, <1>2, <2>1 DEF KeysCounted, LinesCounted, Alive
  <2>3. prog' \in [Program -> ProgramState] /\ \A q \in Program \ {p} : prog'[q] = prog[q]
    BY <1>2, <2>1 DEF TypesOK
  <2>. QED  BY <1>1, <1>2, <1>3, <1>4, <2>2, <2>3, IdleControl, IdleFine DEF KeyMoves
<1>6. CASE p \notin getting'
  <2>1. TakeKey /\ getting' \subseteq getting /\ Reads(p, taken')
    BY <1>1, <1>2, <1>6, GetcharMoves, ReturnMoves
  <2>2. taken' \in PipeChar
    BY <1>2, <2>1, TakeKeyCounts, PipelineAssumption
  <2>3. PICK c \in PipeChar : c = taken'
    BY <2>2
  <2>4. /\ prog' \in [Program -> ProgramState]
        /\ \A q \in Program \ {p} : prog'[q] = prog[q]
        /\ prog'[p].lines <= prog[p].lines \/ (c = "newline" /\ prog'[p].lines = prog[p].lines + 1)
        /\ prog'[p].pc # "dead" => prog'[p].command = prog[p].command
        /\ prog'[p].pc = "count" => prog'[p].command = "wc"
    <3>1. Reads(p, c)
      BY <2>1, <2>3
    <3>. QED  BY <1>2, <3>1, ReadsDo DEF TypesOK
  <2>5. Acts(p)
    BY <1>1, <1>2, <1>3, <2>4 DEF Acts, SameSlots, SamePipe, Control, TypesOK, SlotsApart
  <2>6. KeysCounted'
    BY <1>1, <1>2, <1>6, <2>1, <2>3, <2>4, <2>5, KeysTaken
  <2>. QED  BY <1>1, <1>2, <1>3, <1>4, <2>4, <2>6, IdleControl, IdleFine DEF KeyMoves
<1>. QED  BY <1>5, <1>6

\* putchar of the right one.
LEMMA RightWritesFine ==
  ASSUME PipesInv, NEW p \in Program, RightWrites(p)
  PROVE  Fine
<1>1. /\ ~ IsLeft(p) /\ prog[p].pc \in {"write", "count"} /\ AfterWrite(p)
      /\ UNCHANGED <<sync, keyboardVars, pipesVars, shellPc, pipeline, shellPipe, commands, leaked,
                     pressed>>
  BY DEF RightWrites, kernelOnly
<1>2. /\ Control /\ KeysCounted /\ TypesOK /\ p \in Process /\ inCall[p].op = "none" /\ Alive(p)
      /\ p \notin getting
  BY <1>1, CallsAre DEF PipesInv, Control, Alive
<1>3. UNCHANGED <<pipes, semId, inCall, lastRead, keys, getting>>
  BY <1>1 DEF pipesVars, keyboardVars
<1>4. /\ prog' \in [Program -> ProgramState]
      /\ \A q \in Program \ {p} : prog'[q] = prog[q]
  BY <1>1, <1>2, AfterWriteDoes DEF TypesOK
<1>5. Acts(p)
  BY <1>1, <1>2, <1>3, <1>4 DEF Acts, SameSlots, SamePipe, Control, TypesOK, SlotsApart
<1>6. KeysCounted'
  <2>1. prog'[p].pc # "dead" => prog'[p].command = prog[p].command
    BY <1>1, <1>2, AfterWriteDoes DEF TypesOK
  <2>. QED  BY <1>1, <1>2, <1>3, <1>5, <2>1, KeysStay
<1>7. Control'
  BY <1>1, <1>2, <1>3, <1>4, <1>6, IdleControl
<1>. QED  BY <1>1, <1>3, <1>7, IdleFine, KeyLine

-----------------------------------------------------------------------------
(***************************************************************************)
(* Their calls of the pipe.                                                *)
(***************************************************************************)
Elsewhere == UNCHANGED <<keyboardVars, shellPc, pipeline, shellPipe, commands, leaked, pressed>>

\* A call in slot i.
LEMMA CallFine ==
  ASSUME PipesInv, NEW i \in Slot, Flow', OthersKeep(i), Keeps(i) \/ Puts(i) \/ Takes(i),
         Control', LastOK'
  PROVE  Fine
BY DEF Fine, Streams, Flow, PipesInv, OthersKeep

\* The pipe of a program that lives.
LEMMA PipeFound ==
  ASSUME PipesInv, NEW p \in Program, Alive(p)
  PROVE  LET i == getPipeIdx(PipeOf(p)) IN i \in Slot /\ i # -1 /\ Serves(i, PipeOf(p)) /\ Whole(i)
<1>1. Control
  BY DEF PipesInv
<1>2. PICK i \in Slot : Serves(i, PipeOf(p))
  BY <1>1 DEF Control, ProgramsServed
<1>3. getPipeIdx(PipeOf(p)) = i /\ i # -1
  BY <1>1, <1>2, SlotFound DEF Control
<1>. QED  BY <1>2, <1>3 DEF Serves

\* What the left program writes is a character, followed by what is on the stack.
LEMMA OutputIsChar ==
  ASSUME PipesInv, NEW p \in Program, IsLeft(p), prog[p].pc \in {"write", "count"}
  PROVE  Output(p) \in PipeChar
<1>1. KeysCounted /\ prog[p] \in ProgramState
  BY DEF PipesInv, Control, TypesOK
<1>2. CASE prog[p].pc = "count"
  <2>1. prog[p].lines \in Nat /\ keys.size \in Nat /\ pressed \in 0 .. KeyCap /\ KeyCap \in Nat
    BY <1>1, Bounds DEF ProgramState, KeysCounted
  <2>2. prog[p].lines + keys.size <= pressed /\ prog[p].command = "wc" /\ "wc" \in LeftCommands
    BY <1>1, <1>2 DEF KeysCounted, LinesCounted, Alive
  <2>3. 1 + prog[p].lines \in 1 .. KeyCap + 1
    BY <2>1, <2>2
  <2>4. ToString(1 + prog[p].lines) \in PipeChar
    BY <2>2, <2>3, PipelineAssumption
  <2>. QED  BY <1>2, <2>4 DEF Output
<1>3. CASE prog[p].pc # "count"
  BY <1>1, <1>3 DEF Output, ProgramState
<1>. QED  BY <1>2, <1>3

\* What is on the stack are characters.
LEMMA StackTails ==
  ASSUME NEW tail \in StackTail, NEW s \in Seq(PipeChar)
  PROVE  s \o tail \in Seq(PipeChar)
<1>1. ASSUME NEW b \in StackByte PROVE <<b>> \in Seq(PipeChar)
  <2>1. b \in PipeChar
    BY PipelineAssumption
  <2>. QED  BY <2>1
<1>2. tail = <<>> \/ \E b \in StackByte : tail = <<b>>
  BY DEF StackTail
<1>3. CASE tail = <<>>
  BY <1>3
<1>4. ASSUME NEW b \in StackByte, tail = <<b>> PROVE s \o tail \in Seq(PipeChar)
  <2>1. PICK z \in Seq(PipeChar) : z = <<b>>
    BY <1>1
  <2>2. s \o z \in Seq(PipeChar)
    OBVIOUS
  <2>. QED  BY <1>4, <2>1, <2>2
<1>. QED  BY <1>2, <1>3, <1>4

\* The left program after a pWrite: on with its loop, or asleep.
LEMMA WriterControl ==
  ASSUME PipesInv, NEW p \in Program, IsLeft(p), prog[p].pc \in {"write", "count"},
         NEW i \in Slot, Serves(i, PipeOf(p)), Stays(p, i, "pWrite"), WhenWritten(p), Elsewhere
  PROVE  Control'
<1>1. /\ Control /\ TypesOK /\ p \in Process /\ Alive(p) /\ p \notin getting
  BY CallsAre DEF PipesInv, Control, Alive
<1>2. /\ pipes' \in [Slot -> Pipe] /\ (\A j \in Slot : SamePipe(pipes[j], pipes'[j])) /\ semId' = semId
      /\ inCall' \in [Process -> Call] /\ (\A q \in Process \ {p} : inCall'[q] = inCall[q])
      /\ inCall'[p].op # "none" => inCall'[p].op = "pWrite" /\ inCall'[p].slot = i
  BY DEF Stays
<1>3. /\ prog' \in [Program -> ProgramState] /\ (\A q \in Program \ {p} : prog'[q] = prog[q])
      /\ prog'[p].lines <= prog[p].lines
      /\ prog'[p].pc # "dead" => prog'[p].command = prog[p].command
      /\ prog'[p].pc = "count" => prog[p].pc = "count"
      /\ inCall'[p].op # "none" => prog'[p] = prog[p]
  <2>1. CASE inCall'[p].op = "none"
    <3>1. AfterWrite(p)
      BY <2>1 DEF WhenWritten
    <3>. QED  BY <1>1, <2>1, <3>1, AfterWriteDoes DEF TypesOK
  <2>2. CASE inCall'[p].op # "none"
    <3>1. prog' = prog /\ prog \in [Program -> ProgramState] /\ prog[p].lines \in Nat
      BY <1>1, <2>2 DEF WhenWritten, TypesOK, ProgramState
    <3>. QED  BY <3>1
  <2>. QED  BY <2>1, <2>2
<1>4. UNCHANGED <<keys, pressed, getting>>
  BY DEF Elsewhere, keyboardVars
<1>5. SameSlots
  BY <1>2 DEF SameSlots, Elsewhere
<1>6. Acts(p)
  BY <1>1, <1>2, <1>3, <1>5 DEF Acts, Elsewhere
<1>7. KeysCounted'
  <2>1. prog[p].pc = "count" => prog[p].command = "wc"
    BY <1>1 DEF Control, KeysCounted, LinesCounted
  <2>. QED  BY <1>1, <1>3, <1>4, <1>6, <2>1, KeysStay
<1>8. CallOK(p)'
  <2>1. Serves(i, PipeOf(p))'
    BY <1>1, <1>5, SlotsStay, PipeIds
  <2>2. inCall'[p].op = "none" \/ Serves(inCall[p].slot, PipeOf(p))'
    BY <1>2, <2>1 DEF Serves, Whole, InUse
  <2>. QED  BY <1>2, <1>3, <2>2 DEF CallOK
<1>. QED  BY <1>1, <1>6, <1>7, <1>8, ActorMoves

\* The right one after a pRead.
LEMMA ReaderControl ==
  ASSUME PipesInv, NEW p \in Program, ~ IsLeft(p), prog[p].pc = "read",
         NEW i \in Slot, Serves(i, PipeOf(p)), Stays(p, i, "pRead"), Elsewhere,
         \/ prog' = prog
         \/ inCall'[p].op = "none" /\ \E c \in PipeChar : Reads(p, c)
  PROVE  Control'
<1>1. /\ Control /\ TypesOK /\ p \in Process /\ Alive(p) /\ p \notin getting
  BY CallsAre DEF PipesInv, Control, Alive
<1>2. /\ pipes' \in [Slot -> Pipe] /\ (\A j \in Slot : SamePipe(pipes[j], pipes'[j])) /\ semId' = semId
      /\ inCall' \in [Process -> Call] /\ (\A q \in Process \ {p} : inCall'[q] = inCall[q])
      /\ inCall'[p].op # "none" => inCall'[p].op = "pRead" /\ inCall'[p].slot = i
  BY DEF Stays
<1>3. /\ prog' \in [Program -> ProgramState] /\ (\A q \in Program \ {p} : prog'[q] = prog[q])
      /\ prog'[p].pc # "dead" => prog'[p].command = prog[p].command
      /\ inCall'[p].op # "none" => prog'[p] = prog[p]
  <2>1. CASE prog' = prog
    BY <1>1, <2>1 DEF TypesOK
  <2>2. CASE inCall'[p].op = "none" /\ \E c \in PipeChar : Reads(p, c)
    <3>1. PICK c \in PipeChar : Reads(p, c)
      BY <2>2
    <3>. QED  BY <1>1, <2>2, <3>1, ReadsDo DEF TypesOK
  <2>. QED  BY <2>1, <2>2
<1>4. UNCHANGED <<keys, pressed, getting>>
  BY DEF Elsewhere, keyboardVars
<1>5. SameSlots
  BY <1>2 DEF SameSlots, Elsewhere
<1>6. Acts(p)
  BY <1>1, <1>2, <1>3, <1>5 DEF Acts, Elsewhere
<1>7. KeysCounted'
  BY <1>1, <1>3, <1>4, <1>6, KeysStay
<1>8. CallOK(p)'
  <2>1. Serves(i, PipeOf(p))'
    BY <1>1, <1>5, SlotsStay, PipeIds
  <2>2. inCall'[p].op = "none" \/ Serves(inCall[p].slot, PipeOf(p))'
    BY <1>2, <2>1 DEF Serves, Whole, InUse
  <2>. QED  BY <1>2, <1>3, <2>2 DEF CallOK
<1>. QED  BY <1>1, <1>6, <1>7, <1>8, ActorMoves

\* putchar of the left program.
LEMMA LeftWritesFine ==
  ASSUME PipesInv, NEW p \in Program, LeftWrites(p)
  PROVE  Fine
<1>. DEFINE i == getPipeIdx(PipeOf(p))
<1>1. /\ IsLeft(p) /\ prog[p].pc \in {"write", "count"} /\ inCall[p].op = "none"
      /\ IF i = -1 THEN AfterWrite(p) /\ UNCHANGED <<sync, pipesVars>>
                   ELSE /\ \E tail \in StackTail : pWrite(p, i, <<Output(p)>> \o tail)
                        /\ WhenWritten(p)
      /\ UNCHANGED <<keyboardVars, shellPc, pipeline, shellPipe, commands, leaked, pressed>>
  BY DEF LeftWrites, kernelOnly, InCall
<1>2. i \in Slot /\ i # -1 /\ Serves(i, PipeOf(p)) /\ Whole(i) /\ p \in Process
  BY <1>1, PipeFound, CallsAre DEF Alive
<1>3. PICK tail \in StackTail : pWrite(p, i, <<Output(p)>> \o tail)
  BY <1>1, <1>2
<1>4. PICK k \in Slot, str \in Seq(PipeChar) : k = i /\ str = <<Output(p)>> \o tail
  <2>1. Output(p) \in PipeChar
    BY <1>1, OutputIsChar
  <2>2. <<Output(p)>> \in Seq(PipeChar)
    BY <2>1
  <2>. QED  BY <1>2, <2>2, StackTails
<1>. HIDE DEF i
<1>5. Whole(k) /\ Serves(k, PipeOf(p)) /\ pWrite(p, k, str) /\ getting' = getting
  BY <1>1, <1>2, <1>3, <1>4 DEF keyboardVars
<1>6. Flow' /\ OthersKeep(k) /\ Puts(k) /\ Stays(p, k, "pWrite")
  BY <1>1, <1>2, <1>5, WriteFlows
<1>7. Elsewhere /\ WhenWritten(p)
  BY <1>1, <1>2 DEF Elsewhere
<1>8. Control'
  BY <1>1, <1>5, <1>6, <1>7, WriterControl
<1>9. LastOK'
  BY <1>5 DEF pWrite, WriteFrom, PipesInv, LastOK
<1>. QED  BY <1>6, <1>8, <1>9, CallFine

\* The same after a sleep.
LEMMA LeftGoesOnFine ==
  ASSUME PipesInv, NEW p \in Program, LeftGoesOn(p)
  PROVE  Fine
<1>1. IsLeft(p) /\ pWriteGoesOn(p) /\ WhenWritten(p) /\ Elsewhere /\ inCall[p].op = "pWrite"
  BY DEF LeftGoesOn, kernelOnly, Elsewhere, pWriteGoesOn
<1>2. prog[p].pc \in {"write", "count"} /\ Serves(inCall[p].slot, PipeOf(p)) /\ p \in Process
  BY <1>1, CallsAre
<1>3. PICK i \in Slot : i = inCall[p].slot
  BY <1>2 DEF Serves
<1>4. Whole(i) /\ Serves(i, PipeOf(p)) /\ inCall[p].slot = i /\ getting' = getting
  BY <1>1, <1>2, <1>3 DEF Serves, Elsewhere, keyboardVars
<1>5. Flow' /\ OthersKeep(i) /\ Puts(i) /\ Stays(p, i, "pWrite")
  BY <1>1, <1>2, <1>4, GoesOnFlows
<1>6. Control'
  BY <1>1, <1>2, <1>4, <1>5, WriterControl
<1>7. LastOK'
  BY <1>1 DEF pWriteGoesOn, WriteFrom, PipesInv, LastOK
<1>. QED  BY <1>5, <1>6, <1>7, CallFine

\* pRead of the right program.
LEMMA RightReadsFine ==
  ASSUME PipesInv, NEW p \in Program, RightReads(p)
  PROVE  Fine
<1>. DEFINE i == getPipeIdx(PipeOf(p))
<1>1. /\ ~ IsLeft(p) /\ prog[p].pc = "read" /\ inCall[p].op = "none"
      /\ UNCHANGED <<keyboardVars, shellPc, pipeline, shellPipe, commands, leaked, pressed>>
  BY DEF RightReads, kernelOnly, InCall
<1>2. i \in Slot /\ i # -1 /\ Serves(i, PipeOf(p)) /\ Whole(i) /\ p \in Process
  BY <1>1, PipeFound, CallsAre DEF Alive
<1>3. \/ Sleeps(sync, pipes[i].lockR) /\ pReadSleeps(p, i) /\ prog' = prog
      \/ pReadPasses(p, i) /\ Reads(p, NextChar(i))
  BY <1>2 DEF RightReads
<1>4. PICK k \in Slot : k = i
  BY <1>2
<1>. HIDE DEF i
<1>5. Whole(k) /\ Serves(k, PipeOf(p)) /\ getting' = getting /\ Elsewhere
  BY <1>1, <1>2, <1>4 DEF keyboardVars, Elsewhere
<1>6. CASE pReadSleeps(p, i) /\ prog' = prog
  <2>1. Flow' /\ OthersKeep(k) /\ Keeps(k) /\ Stays(p, k, "pRead")
    BY <1>1, <1>2, <1>4, <1>5, <1>6, SleepFlows
  <2>2. Control'
    BY <1>1, <1>5, <1>6, <2>1, ReaderControl
  <2>3. LastOK'
    BY <1>6 DEF pReadSleeps, PipesInv, LastOK
  <2>. QED  BY <2>1, <2>2, <2>3, CallFine
<1>7. CASE pReadPasses(p, i) /\ Reads(p, NextChar(i))
  <2>1. Flow' /\ OthersKeep(k) /\ Takes(k) /\ Stays(p, k, "pRead")
    BY <1>1, <1>2, <1>4, <1>5, <1>7, PassFlows
  <2>2. PICK S : ReadChar(k, S)
    BY <1>4, <1>7 DEF pReadPasses
  <2>3. LastOK' /\ NextChar(k) \in PipeChar
    BY <2>2, ReadIsChar
  <2>4. inCall'[p].op = "none" /\ \E c \in PipeChar : Reads(p, c)
    BY <1>1, <1>4, <1>7, <2>3 DEF pReadPasses
  <2>5. Control'
    BY <1>1, <1>5, <2>1, <2>4, ReaderControl
  <2>. QED  BY <2>1, <2>3, <2>5, CallFine
<1>. QED  BY <1>3, <1>6, <1>7

\* The same after a sleep.
LEMMA RightWakesFine ==
  ASSUME PipesInv, NEW p \in Program, RightWakes(p)
  PROVE  Fine
<1>1. /\ pReadReturns(p) /\ Reads(p, NextChar(inCall[p].slot)) /\ Elsewhere /\ inCall[p].op = "pRead"
      /\ ReadChar(inCall[p].slot, sync) /\ inCall' = [inCall EXCEPT ![p] = [op |-> "none"]]
  BY DEF RightWakes, kernelOnly, Elsewhere, pReadReturns
<1>2. /\ ~ IsLeft(p) /\ prog[p].pc = "read" /\ Serves(inCall[p].slot, PipeOf(p)) /\ p \in Process
      /\ inCall \in [Process -> Call]
  BY <1>1, CallsAre DEF PipesInv, Control, TypesOK
<1>3. PICK i, S : i \in Slot /\ i = inCall[p].slot /\ S = sync
  BY <1>2 DEF Serves
<1>4. /\ Whole(i) /\ Serves(i, PipeOf(p)) /\ inCall[p].slot = i /\ getting' = getting
      /\ ReadChar(i, S) /\ Reads(p, NextChar(i))
  BY <1>1, <1>2, <1>3 DEF Serves, Elsewhere, keyboardVars
<1>5. Flow' /\ OthersKeep(i) /\ Takes(i) /\ Stays(p, i, "pRead")
  BY <1>1, <1>2, <1>3, <1>4, ReturnFlows
<1>6. LastOK' /\ NextChar(i) \in PipeChar
  BY <1>3, <1>4, ReadIsChar
<1>7. inCall'[p].op = "none" /\ \E c \in PipeChar : Reads(p, c)
  BY <1>1, <1>2, <1>3, <1>4, <1>6
<1>8. Control'
  BY <1>1, <1>2, <1>3, <1>4, <1>5, <1>7, ReaderControl
<1>. QED  BY <1>3, <1>5, <1>6, <1>8, CallFine

-----------------------------------------------------------------------------
(***************************************************************************)
(* The shell, while it neither opens nor closes a pipe.                    *)
(***************************************************************************)
\* Its two programs use its pipe.
LEMMA OurPipeIs ==
  ASSUME Control, Working
  PROVE  /\ pipeline \in 1 .. MaxPipelines /\ OurPipe \in Nat
         /\ Left(pipeline) \in Program /\ Right(pipeline) \in Program /\ Left(pipeline) # Right(pipeline)
         /\ IsLeft(Left(pipeline)) /\ ~ IsLeft(Right(pipeline))
         /\ PipeOf(Left(pipeline)) = OurPipe /\ PipeOf(Right(pipeline)) = OurPipe
         /\ Left(pipeline) <= 2 * pipeline /\ Right(pipeline) <= 2 * pipeline
         /\ \A p \in Program : PipeOf(p) = OurPipe => p = Left(pipeline) \/ p = Right(pipeline)
<1>1. pipeline \in 1 .. MaxPipelines /\ OurPipe = FIRST_PIPE + pipeline - 1 /\ MaxPipelines \in Nat
      /\ FIRST_PIPE = 42
  BY Bounds DEF Control, TypesOK, ShellKnows, OurPipe
<1>2. PICK n \in 1 .. MaxPipelines : n = pipeline
  BY <1>1
<1>3. Left(n) <= 2 * n /\ Right(n) <= 2 * n
  BY <1>1 DEF Left, Right
<1>. QED  BY <1>1, <1>2, <1>3, TwoPrograms

\* The shell is in no call, except to write EOF.
LEMMA ShellCalls ==
  ASSUME Control
  PROVE  /\ inCall[ShellProc].op = "none" \/ (shellPc = "writing" /\ inCall[ShellProc].op = "pWrite")
         /\ inCall[ShellProc].op # "none" => Serves(inCall[ShellProc].slot, OurPipe)
         /\ \A p \in Program : ~ Alive(p) => inCall[p].op = "none"
<1>1. CallOK(ShellProc) /\ \A p \in Program : CallOK(p)
  BY Bounds DEF Control, CallsServed
<1>. QED  BY <1>1, Bounds DEF CallOK, Alive

\* A step of it, in which it may create its programs.
ShellActs ==
  /\ SameSlots
  /\ inCall' \in [Process -> Call] /\ prog' \in [Program -> ProgramState]
  /\ commands' \in Command \X Command /\ leaked' \in Nat
  /\ \A q \in Process \ {ShellProc} : inCall'[q] = inCall[q]
  /\ \A p \in Program : prog'[p] = prog[p] \/ (Working /\ ~ Alive(p) /\ PipeOf(p) = OurPipe)
  /\ shellPc' = "pOpen" => pipeline < MaxPipelines
  /\ Working' => Working
  /\ shellPc' \in {"right", "left", "writing", "wait", "pClose"} => prog'[Left(pipeline)].pc = "dead"
  /\ shellPc' \in {"right", "pClose"} => prog'[Right(pipeline)].pc = "dead"
  /\ leaked' + (IF Working' THEN 1 ELSE 0) = leaked + IF Working THEN 1 ELSE 0

\* It keeps the control.
LEMMA ShellStep ==
  ASSUME Control, ShellActs, CallOK(ShellProc)', KeysCounted'
  PROVE  Control'
<1>1. /\ SameSlots /\ inCall' \in [Process -> Call] /\ prog' \in [Program -> ProgramState]
      /\ commands' \in Command \X Command /\ leaked' \in Nat
      /\ UNCHANGED <<pipeline, shellPipe>>
  BY DEF ShellActs, SameSlots
<1>2. /\ SlotsApart' /\ UsedSlots' = UsedSlots /\ OurPipe' = OurPipe
      /\ \A i \in Slot : \A id \in Nat : Serves(i, id) => Serves(i, id)'
  BY <1>1, SlotsStay
<1>3. TypesOK'
  BY <1>1 DEF Control, TypesOK, SameSlots
<1>4. ProgramsServed'
  <2>1. ASSUME NEW p \in Program, Alive(p)' PROVE p <= 2 * pipeline /\ \E i \in Slot : Serves(i, PipeOf(p))'
    <3>1. CASE prog'[p] = prog[p]
      <4>1. Alive(p)
        BY <2>1, <3>1 DEF Alive
      <4>2. p <= 2 * pipeline /\ \E i \in Slot : Serves(i, PipeOf(p))
        BY <4>1 DEF Control, ProgramsServed
      <4>. QED  BY <1>2, <4>2, PipeIds
    <3>2. CASE prog'[p] # prog[p]
      <4>1. Working /\ PipeOf(p) = OurPipe
        BY <3>2 DEF ShellActs
      <4>2. p <= 2 * pipeline
        BY <4>1, OurPipeIs
      <4>3. PICK i \in Slot, id \in Nat : Serves(i, id) /\ id = OurPipe
        BY <4>1, OurPipeIs DEF Control, ShellKnows
      <4>4. Serves(i, id)'
        BY <1>2, <4>3
      <4>5. Serves(i, PipeOf(p))'
        BY <4>1, <4>3, <4>4 DEF Serves
      <4>. QED  BY <4>2, <4>5
    <3>. QED  BY <3>1, <3>2
  <2>. QED  BY <1>1, <2>1 DEF ProgramsServed
<1>5. ShellKnows'
  <2>1. Working' => pipeline' >= 1 /\ \E i \in Slot : Serves(i, OurPipe)'
    <3>. SUFFICES ASSUME Working' PROVE pipeline' >= 1 /\ \E i \in Slot : Serves(i, OurPipe)'
      OBVIOUS
    <3>0. Working
      BY DEF ShellActs
    <3>1. PICK i \in Slot, id \in Nat : Serves(i, id) /\ id = OurPipe
      BY <3>0, OurPipeIs DEF Control, ShellKnows
    <3>2. Serves(i, id)' /\ id = OurPipe'
      BY <1>2, <3>1
    <3>3. Serves(i, OurPipe)'
      BY <3>2 DEF Serves
    <3>. QED  BY <1>1, <3>0, <3>3, OurPipeIs
  <2>2. Left(pipeline)' = Left(pipeline) /\ Right(pipeline)' = Right(pipeline)
    BY <1>1 DEF Left, Right
  <2>. QED  BY <1>1, <2>1, <2>2 DEF ShellKnows, ShellActs, Alive
<1>6. CallsServed'
  <2>1. ASSUME NEW q \in Process, q # ShellProc PROVE CallOK(q)'
    <3>1. inCall'[q] = inCall[q] /\ CallOK(q)
      BY <2>1 DEF Control, CallsServed, ShellActs
    <3>. SUFFICES ASSUME inCall[q].op # "none" PROVE CallOK(q)'
      BY <3>1 DEF CallOK
    <3>2. q \in Program /\ Serves(inCall[q].slot, PipeOf(q)) /\ Alive(q)
      BY <2>1, <3>1 DEF CallOK, Alive
    <3>3. prog'[q] = prog[q]
      BY <3>2 DEF ShellActs
    <3>4. PICK i \in Slot, id \in Nat : i = inCall[q].slot /\ id = PipeOf(q) /\ Serves(i, id)
      BY <3>2, PipeIds DEF Serves
    <3>5. Serves(i, id)'
      BY <1>2, <3>4
    <3>6. Serves(inCall[q].slot, PipeOf(q))'
      BY <3>1, <3>4, <3>5 DEF Serves
    <3>. QED  BY <2>1, <3>1, <3>2, <3>3, <3>6 DEF CallOK
  <2>. QED  BY <2>1 DEF CallsServed
<1>7. SlotsCounted'
  <2>1. leaked \in Nat
    BY DEF Control, TypesOK
  <2>. QED  BY <1>2, <2>1 DEF Control, SlotsCounted, ShellActs
<1>. QED  BY <1>2, <1>3, <1>4, <1>5, <1>6, <1>7 DEF Control

\* What it does to the counts of keys and lines.
LEMMA ShellKeys ==
  ASSUME Control, UNCHANGED <<keys, pressed, getting>>,
         \A p \in Program : IsLeft(p) => prog'[p] = prog[p],
         shellPc' \in {"pOpen", "right", "left"} => commands'[1] \in LeftCommands
  PROVE  KeysCounted'
BY DEF Control, KeysCounted, LinesCounted, Alive

\* The prompt.
LEMMA ShellReadsFine == PipesInv /\ ShellReads => Fine
<1>. SUFFICES ASSUME PipesInv, ShellReads PROVE Fine
  OBVIOUS
<1>1. /\ shellPc = "prompt" /\ (Getchar(ShellProc) \/ GetcharReturns(ShellProc))
      /\ \/ UNCHANGED <<shellPc, commands>>
         \/ /\ pipeline < MaxPipelines /\ shellPc' = "pOpen"
            /\ commands' \in LeftCommands \X RightCommands
      /\ UNCHANGED <<pipes, semId, inCall, lastRead, pipeline, shellPipe, prog, pressed, leaked>>
  BY DEF ShellReads, pipesVars, programVars
<1>2. Control /\ TypesOK /\ KeysCounted /\ ShellProc \in Process
  BY Bounds DEF PipesInv, Control
<1>3. KeyMoves /\ getting' \subseteq getting \cup {ShellProc} /\ (TakeKey \/ keys' = keys)
  BY <1>1, <1>2, GetcharMoves, ReturnMoves
<1>4. commands' \in Command \X Command
  <2>1. LeftCommands \subseteq Command /\ RightCommands \subseteq Command
    BY PipelineAssumption DEF Command
  <2>. QED  BY <1>1, <1>2, <2>1 DEF TypesOK
<1>5. shellPc' \in {"prompt", "pOpen"} /\ ~ Working /\ ~ Working'
  BY <1>1 DEF Working
<1>6. inCall[ShellProc].op = "none"
  BY <1>1, <1>2, ShellCalls
<1>7. ShellActs
  <2>1. /\ SameSlots /\ inCall' \in [Process -> Call] /\ prog' \in [Program -> ProgramState]
        /\ leaked' \in Nat
    BY <1>1, <1>2 DEF SameSlots, SamePipe, Control, TypesOK, SlotsApart
  <2>. QED  BY <1>1, <1>4, <1>5, <2>1 DEF ShellActs
<1>8. CallOK(ShellProc)'
  BY <1>1, <1>6 DEF CallOK
<1>9. KeysCounted'
  <2>1. /\ keys'.queue \in [0 .. dim - 1 -> Keystrokes \cup {Zero}]
        /\ keys'.front \in 0 .. dim - 1 /\ keys'.rear \in -1 .. dim - 1 /\ keys'.size \in Nat
        /\ keys'.size <= keys.size
    <3>1. CASE TakeKey
      BY <1>2, <3>1, TakeKeyCounts
    <3>2. CASE keys' = keys
      BY <1>2, <3>2 DEF KeysCounted
    <3>. QED  BY <1>3, <3>1, <3>2
  <2>2. keys.size \in Nat /\ pressed \in 0 .. KeyCap /\ KeyCap \in Nat /\ keys.size <= pressed
    BY <1>2, Bounds DEF KeysCounted
  <2>3. ASSUME NEW p \in Program, IsLeft(p) PROVE LinesCounted(p)'
    <3>1. LinesCounted(p) /\ prog[p].lines \in Nat
      BY <1>2, <2>3 DEF KeysCounted, TypesOK, ProgramState
    <3>2. prog[p].lines + keys'.size <= pressed
      BY <2>1, <2>2, <3>1 DEF LinesCounted
    <3>. QED  BY <1>1, <3>1, <3>2 DEF LinesCounted, Alive
  <2>4. shellPc' \in {"pOpen", "right", "left"} => commands'[1] \in LeftCommands
    BY <1>1
  <2>5. pressed' \in 0 .. KeyCap /\ keys'.size <= pressed'
    BY <1>1, <2>1, <2>2
  <2>6. \A p \in getting' : p = ShellProc \/ (p \in Program /\ IsLeft(p) /\ prog'[p].pc = "read")
    BY <1>1, <1>2, <1>3 DEF KeysCounted
  <2>. QED  BY <2>1, <2>3, <2>4, <2>5, <2>6 DEF KeysCounted
<1>10. Control'
  BY <1>2, <1>7, <1>8, <1>9, ShellStep
<1>. QED  BY <1>1, <1>3, <1>10, IdleFine DEF KeyMoves

\* Steps of the shell that make no call.
LEMMA ShellQuiet ==
  ASSUME PipesInv, UNCHANGED <<sync, keyboardVars, pipesVars, pipeline, shellPipe, pressed>>,
         inCall[ShellProc].op = "none",
         prog' \in [Program -> ProgramState], commands' \in Command \X Command, leaked' \in Nat,
         \A p \in Program : prog'[p] = prog[p] \/ (Working /\ ~ Alive(p) /\ PipeOf(p) = OurPipe),
         shellPc' # "pOpen", Working' => Working,
         shellPc' \in {"right", "left", "writing", "wait", "pClose"} => prog'[Left(pipeline)].pc = "dead",
         shellPc' \in {"right", "pClose"} => prog'[Right(pipeline)].pc = "dead",
         leaked' + (IF Working' THEN 1 ELSE 0) = leaked + (IF Working THEN 1 ELSE 0),
         KeysCounted'
  PROVE  Fine
<1>1. Control /\ TypesOK /\ UNCHANGED <<pipes, semId, inCall, lastRead, getting>>
  BY DEF PipesInv, Control, pipesVars, keyboardVars
<1>2. SameSlots /\ inCall' \in [Process -> Call]
  BY <1>1 DEF SameSlots, SamePipe, Control, TypesOK, SlotsApart
<1>3. ShellActs
  BY <1>1, <1>2, Bounds DEF ShellActs
<1>4. CallOK(ShellProc)'
  BY <1>1 DEF CallOK
<1>5. Control'
  BY <1>1, <1>3, <1>4, ShellStep
<1>. QED  BY <1>1, <1>5, IdleFine, KeyLine

\* What the shell knows, before its step.
LEMMA ShellIsWorking ==
  ASSUME PipesInv, Working
  PROVE  /\ Control /\ TypesOK /\ leaked \in Nat /\ prog \in [Program -> ProgramState]
         /\ commands \in Command \X Command
         /\ shellPc \in {"right", "left", "writing", "wait", "pClose"} => prog[Left(pipeline)].pc = "dead"
         /\ shellPc \in {"right", "pClose"} => prog[Right(pipeline)].pc = "dead"
         /\ \E i \in Slot : Serves(i, OurPipe)
BY DEF PipesInv, Control, ShellKnows, TypesOK, Alive

\* A program is created where the last one is dead.
LEMMA CreatedIs ==
  ASSUME PipesInv, Working, NEW p \in Program, PipeOf(p) = OurPipe, prog[p].pc = "dead",
         NEW command \in Command, Created(p, command)
  PROVE  /\ prog' \in [Program -> ProgramState]
         /\ \A q \in Program : prog'[q] = prog[q] \/ (Working /\ ~ Alive(q) /\ PipeOf(q) = OurPipe)
         /\ \A q \in Program \ {p} : prog'[q] = prog[q]
         /\ prog'[p].pc = "read" /\ prog'[p].command = command /\ prog'[p].lines = 0
<1>1. prog \in [Program -> ProgramState]
  BY ShellIsWorking
<1>2. [NoProgram EXCEPT !.command = command, !.pc = "read"] \in ProgramState
  BY Bounds DEF NoProgram, ProgramState
<1>. QED  BY <1>1, <1>2 DEF Created, Alive, NoProgram

\* The right program.
LEMMA CreatesRightFine == PipesInv /\ ShellCreatesRight => Fine
<1>. SUFFICES ASSUME PipesInv, ShellCreatesRight PROVE Fine
  OBVIOUS
<1>1. /\ shellPc = "right"
      /\ \/ shellPc' = "pClose" /\ prog' = prog
         \/ shellPc' = "left" /\ Created(Right(pipeline), commands[2])
      /\ UNCHANGED <<sync, keyboardVars, pipesVars, pipeline, shellPipe, commands, pressed, leaked>>
  BY DEF ShellCreatesRight
<1>2. Working /\ Working'
  BY <1>1 DEF Working
<1>3. /\ Control /\ TypesOK /\ leaked \in Nat /\ commands \in Command \X Command
      /\ prog[Left(pipeline)].pc = "dead" /\ prog[Right(pipeline)].pc = "dead"
      /\ prog \in [Program -> ProgramState]
  BY <1>1, <1>2, ShellIsWorking
<1>4. PICK p, q \in Program : /\ p = Right(pipeline) /\ q = Left(pipeline) /\ p # q
                              /\ PipeOf(p) = OurPipe /\ ~ IsLeft(p)
  BY <1>2, <1>3, OurPipeIs
<1>5. /\ prog' \in [Program -> ProgramState]
      /\ \A r \in Program : prog'[r] = prog[r] \/ (Working /\ ~ Alive(r) /\ PipeOf(r) = OurPipe)
      /\ \A r \in Program \ {p} : prog'[r] = prog[r]
      /\ shellPc' = "pClose" => prog' = prog
  <2>1. CASE shellPc' = "pClose" /\ prog' = prog
    BY <1>3, <2>1
  <2>2. CASE shellPc' = "left" /\ Created(Right(pipeline), commands[2])
    <3>1. PICK c \in Command : c = commands[2]
      BY <1>3
    <3>2. Created(p, c) /\ prog[p].pc = "dead" /\ shellPc' # "pClose"
      BY <1>3, <1>4, <2>2, <3>1
    <3>. QED  BY <1>2, <1>4, <3>2, CreatedIs
  <2>. QED  BY <1>1, <2>1, <2>2
<1>6. UNCHANGED <<keys, pressed, getting>>
  BY <1>1 DEF keyboardVars
<1>7. KeysCounted'
  <2>1. \A r \in Program : IsLeft(r) => prog'[r] = prog[r]
    BY <1>4, <1>5
  <2>2. commands'[1] \in LeftCommands
    BY <1>1, <1>3 DEF Control, KeysCounted
  <2>. QED  BY <1>3, <1>6, <2>1, <2>2, ShellKeys
<1>8. prog'[Left(pipeline)].pc = "dead" /\ (shellPc' = "pClose" => prog'[Right(pipeline)].pc = "dead")
  BY <1>3, <1>4, <1>5
<1>9. inCall[ShellProc].op = "none"
  BY <1>1, <1>3, ShellCalls
<1>10. commands' \in Command \X Command /\ leaked' \in Nat
  BY <1>1, <1>3
<1>11. shellPc' # "pOpen" /\ shellPc' # "right"
  BY <1>1
<1>12. leaked' + (IF Working' THEN 1 ELSE 0) = leaked + (IF Working THEN 1 ELSE 0)
  BY <1>1, <1>2
<1>. QED  BY <1>1, <1>2, <1>5, <1>7, <1>8, <1>9, <1>10, <1>11, <1>12, ShellQuiet

\* The left one.
LEMMA CreatesLeftFine == PipesInv /\ ShellCreatesLeft => Fine
<1>. SUFFICES ASSUME PipesInv, ShellCreatesLeft PROVE Fine
  OBVIOUS
<1>1. /\ shellPc = "left"
      /\ \/ BackToPrompt /\ leaked' = leaked + 1 /\ prog' = prog
         \/ /\ shellPc' = "sleep" /\ Created(Left(pipeline), commands[1])
            /\ UNCHANGED <<leaked, commands>>
      /\ UNCHANGED <<sync, keyboardVars, pipesVars, pipeline, shellPipe, pressed>>
  BY DEF ShellCreatesLeft
<1>2. Working
  BY <1>1 DEF Working
<1>3. /\ Control /\ TypesOK /\ leaked \in Nat /\ commands \in Command \X Command
      /\ prog[Left(pipeline)].pc = "dead"
      /\ prog \in [Program -> ProgramState]
  BY <1>1, <1>2, ShellIsWorking
<1>4. inCall[ShellProc].op = "none"
  BY <1>1, <1>3, ShellCalls
<1>5. UNCHANGED <<keys, pressed, getting>>
  BY <1>1 DEF keyboardVars
<1>6. CASE BackToPrompt /\ leaked' = leaked + 1 /\ prog' = prog
  <2>1. shellPc' = "prompt" /\ commands' = <<"none", "none">>
    BY <1>6 DEF BackToPrompt
  <2>2. ~ Working'
    BY <2>1 DEF Working
  <2>3. commands' \in Command \X Command /\ leaked' \in Nat
    BY <1>3, <1>6, <2>1 DEF Command
  <2>4. KeysCounted'
    <3>1. shellPc' \notin {"pOpen", "right", "left"}
      BY <2>1
    <3>. QED  BY <1>3, <1>5, <1>6, <3>1, ShellKeys
  <2>5. leaked' + (IF Working' THEN 1 ELSE 0) = leaked + (IF Working THEN 1 ELSE 0)
    BY <1>2, <1>3, <1>6, <2>2
  <2>6. shellPc' \notin {"pOpen", "right", "left", "writing", "wait", "pClose"}
    BY <2>1
  <2>7. /\ shellPc' # "pOpen" /\ shellPc' \notin {"right", "left", "writing", "wait", "pClose"}
        /\ shellPc' \notin {"right", "pClose"}
    BY <2>6
  <2>. QED  BY <1>1, <1>2, <1>3, <1>4, <1>6, <2>2, <2>3, <2>4, <2>5, <2>7, ShellQuiet
<1>7. CASE /\ shellPc' = "sleep" /\ Created(Left(pipeline), commands[1])
           /\ UNCHANGED <<leaked, commands>>
  <2>1. PICK p \in Program, c \in Command : /\ p = Left(pipeline) /\ c = commands[1]
                                            /\ PipeOf(p) = OurPipe /\ IsLeft(p)
    BY <1>2, <1>3, OurPipeIs
  <2>2. Created(p, c) /\ prog[p].pc = "dead"
    BY <1>3, <1>7, <2>1
  <2>3. /\ prog' \in [Program -> ProgramState]
        /\ \A q \in Program : prog'[q] = prog[q] \/ (Working /\ ~ Alive(q) /\ PipeOf(q) = OurPipe)
        /\ \A q \in Program \ {p} : prog'[q] = prog[q]
        /\ prog'[p].pc = "read" /\ prog'[p].command = c /\ prog'[p].lines = 0
    BY <1>2, <2>1, <2>2, CreatedIs
  <2>4. Working'
    BY <1>7 DEF Working
  <2>5. KeysCounted'
    <3>1. KeysCounted /\ c \in LeftCommands
      BY <1>1, <1>3, <2>1 DEF Control, KeysCounted
    <3>2. LinesCounted(p)'
      <4>1. keys.size \in Nat /\ keys.size <= pressed /\ 0 + keys.size = keys.size
        BY <3>1 DEF KeysCounted
      <4>. QED  BY <1>5, <2>3, <3>1, <4>1 DEF LinesCounted
    <3>3. ASSUME NEW q \in Program, IsLeft(q) PROVE LinesCounted(q)'
      <4>1. CASE q = p
        BY <3>2, <4>1
      <4>2. CASE q # p
        <5>1. LinesCounted(q) /\ prog'[q] = prog[q]
          BY <2>3, <3>1, <3>3, <4>2 DEF KeysCounted
        <5>. QED  BY <1>5, <5>1 DEF LinesCounted, Alive
      <4>. QED  BY <4>1, <4>2
    <3>4. \A q \in getting' : q = ShellProc \/ (q \in Program /\ IsLeft(q) /\ prog'[q].pc = "read")
      BY <1>5, <2>2, <2>3, <3>1 DEF KeysCounted
    <3>5. shellPc' \notin {"pOpen", "right", "left"}
      BY <1>7
    <3>. QED  BY <1>5, <3>1, <3>3, <3>4, <3>5 DEF KeysCounted
  <2>6. /\ shellPc' # "pOpen" /\ shellPc' \notin {"right", "left", "writing", "wait", "pClose"}
        /\ shellPc' \notin {"right", "pClose"}
    BY <1>7
  <2>7. leaked' + (IF Working' THEN 1 ELSE 0) = leaked + (IF Working THEN 1 ELSE 0)
    BY <1>2, <1>7, <2>4
  <2>8. commands' \in Command \X Command /\ leaked' \in Nat
    BY <1>3, <1>7
  <2>. QED  BY <1>1, <1>2, <1>4, <2>3, <2>4, <2>5, <2>6, <2>7, <2>8, ShellQuiet
<1>. QED  BY <1>1, <1>6, <1>7

\* wait, and its return.
LEMMA WaitsFine == PipesInv /\ (ShellWaits \/ ShellWaited) => Fine
<1>. SUFFICES ASSUME PipesInv, ShellWaits \/ ShellWaited PROVE Fine
  OBVIOUS
<1>1. /\ \/ shellPc = "writing" /\ inCall[ShellProc].op = "none" /\ shellPc' = "wait"
         \/ shellPc = "wait" /\ prog[Right(pipeline)].pc = "dead" /\ shellPc' = "pClose"
      /\ UNCHANGED <<sync, keyboardVars, pipesVars, pipeline, shellPipe, pressed, commands, leaked, prog>>
  BY DEF ShellWaits, ShellWaited, InCall, Waited, Alive, programVars
<1>2. Working /\ Working'
  BY <1>1 DEF Working
<1>3. /\ Control /\ TypesOK /\ leaked \in Nat /\ commands \in Command \X Command
      /\ prog[Left(pipeline)].pc = "dead" /\ prog \in [Program -> ProgramState]
  BY <1>1, <1>2, ShellIsWorking
<1>4. inCall[ShellProc].op = "none"
  BY <1>1, <1>3, ShellCalls
<1>5. KeysCounted'
  <2>1. shellPc' \notin {"pOpen", "right", "left"}
    BY <1>1
  <2>. QED  BY <1>1, <1>3, <2>1, ShellKeys DEF keyboardVars
<1>6. shellPc' # "pOpen" /\ (shellPc' \in {"right", "pClose"} => prog'[Right(pipeline)].pc = "dead")
  BY <1>1
<1>7. leaked' + (IF Working' THEN 1 ELSE 0) = leaked + (IF Working THEN 1 ELSE 0)
  BY <1>1, <1>2
<1>. QED  BY <1>1, <1>2, <1>3, <1>4, <1>5, <1>6, <1>7, ShellQuiet

\* EOF for the right program: the shell writes it, or sleeps in its pWrite.
LEMMA EofControl ==
  ASSUME PipesInv, shellPc \in {"sleep", "writing"}, shellPc' = "writing",
         prog[Left(pipeline)].pc = "dead",
         NEW i \in Slot, Serves(i, OurPipe), Stays(ShellProc, i, "pWrite"),
         UNCHANGED <<keyboardVars, pipeline, shellPipe, commands, prog, pressed, leaked>>
  PROVE  Control'
<1>1. Working /\ Working'
  BY DEF Working
<1>2. /\ Control /\ TypesOK /\ leaked \in Nat /\ commands \in Command \X Command
      /\ prog \in [Program -> ProgramState]
  BY <1>1, ShellIsWorking
<1>3. /\ pipes' \in [Slot -> Pipe] /\ (\A j \in Slot : SamePipe(pipes[j], pipes'[j])) /\ semId' = semId
      /\ inCall' \in [Process -> Call] /\ (\A q \in Process \ {ShellProc} : inCall'[q] = inCall[q])
      /\ inCall'[ShellProc].op # "none" => inCall'[ShellProc].op = "pWrite" /\ inCall'[ShellProc].slot = i
  BY DEF Stays
<1>4. SameSlots
  BY <1>3 DEF SameSlots
<1>5. ShellActs
  <2>1. shellPc' # "pOpen" /\ shellPc' \notin {"right", "pClose"}
    OBVIOUS
  <2>2. leaked' + (IF Working' THEN 1 ELSE 0) = leaked + (IF Working THEN 1 ELSE 0)
    BY <1>1
  <2>. QED  BY <1>1, <1>2, <1>3, <1>4, <2>1, <2>2 DEF ShellActs
<1>6. CallOK(ShellProc)'
  <2>1. PICK id \in Nat : id = OurPipe /\ Serves(i, id)
    BY <1>1, <1>2, OurPipeIs
  <2>2. Serves(i, id)' /\ OurPipe' = id
    BY <1>2, <1>4, <2>1, SlotsStay
  <2>3. inCall'[ShellProc].op # "none" => Serves(inCall[ShellProc].slot, OurPipe)'
    BY <1>3, <2>2 DEF Serves, Whole, InUse
  <2>. QED  BY <1>3, <2>3 DEF CallOK
<1>7. KeysCounted'
  <2>1. shellPc' \notin {"pOpen", "right", "left"}
    OBVIOUS
  <2>. QED  BY <1>2, <2>1, ShellKeys DEF keyboardVars
<1>. QED  BY <1>2, <1>5, <1>6, <1>7, ShellStep

\* The left program is dead.
LEMMA WritesEofFine == PipesInv /\ ShellWritesEof => Fine
<1>. SUFFICES ASSUME PipesInv, ShellWritesEof PROVE Fine
  OBVIOUS
<1>. DEFINE i == getPipeIdx(OurPipe)
<1>1. /\ shellPc = "sleep" /\ prog[Left(pipeline)].pc = "dead" /\ shellPc' = "writing"
      /\ i # -1 => \E tail \in StackTail : pWrite(ShellProc, i, EofBytes \o tail)
      /\ UNCHANGED <<keyboardVars, pipeline, shellPipe, commands, prog, pressed, leaked>>
  BY DEF ShellWritesEof, Alive, programVars
<1>2. Working
  BY <1>1 DEF Working
<1>3. Control /\ \E k \in Slot : Serves(k, OurPipe)
  BY <1>2, ShellIsWorking
<1>k. PICK k \in Slot : Serves(k, OurPipe)
  BY <1>3
<1>4. PICK id : id = OurPipe /\ Serves(k, id)
  BY <1>k
<1>5. i = k /\ i # -1
  BY <1>3, <1>4, SlotFound DEF Control
<1>. HIDE DEF i
<1>6. PICK tail \in StackTail : pWrite(ShellProc, k, EofBytes \o tail)
  BY <1>1, <1>5
<1>7. PICK str \in Seq(PipeChar) : str = EofBytes \o tail
  <2>1. EOF \in PipeChar
    BY PipelineAssumption
  <2>2. EofBytes \in Seq(PipeChar)
    BY <2>1 DEF EofBytes
  <2>. QED  BY <2>2, StackTails
<1>8. /\ Whole(k) /\ Serves(k, OurPipe) /\ pWrite(ShellProc, k, str) /\ getting' = getting
      /\ inCall[ShellProc].op = "none" /\ ShellProc \in Process
  BY <1>1, <1>3, <1>4, <1>6, <1>7, ShellCalls, Bounds DEF Serves, keyboardVars
<1>9. Flow' /\ OthersKeep(k) /\ Puts(k) /\ Stays(ShellProc, k, "pWrite")
  BY <1>8, WriteFlows
<1>10. Control'
  BY <1>1, <1>8, <1>9, EofControl
<1>11. LastOK'
  BY <1>8 DEF pWrite, WriteFrom, PipesInv, LastOK
<1>. QED  BY <1>9, <1>10, <1>11, CallFine

\* The shell is woken.
LEMMA ShellGoesOnFine == PipesInv /\ ShellGoesOn => Fine
<1>. SUFFICES ASSUME PipesInv, ShellGoesOn PROVE Fine
  OBVIOUS
<1>1. /\ pWriteGoesOn(ShellProc) /\ inCall[ShellProc].op = "pWrite"
      /\ UNCHANGED <<keyboardVars, shellPc, pipeline, shellPipe, commands, prog, pressed, leaked>>
  BY DEF ShellGoesOn, pWriteGoesOn, programVars
<1>2. shellPc = "writing" /\ Serves(inCall[ShellProc].slot, OurPipe) /\ ShellProc \in Process
  BY <1>1, ShellCalls, Bounds DEF PipesInv
<1>3. Working
  BY <1>2 DEF Working
<1>4. prog[Left(pipeline)].pc = "dead"
  BY <1>2, <1>3, ShellIsWorking
<1>5. PICK i \in Slot : i = inCall[ShellProc].slot
  BY <1>2 DEF Serves
<1>6. Whole(i) /\ Serves(i, OurPipe) /\ inCall[ShellProc].slot = i /\ getting' = getting
  BY <1>1, <1>2, <1>5 DEF Serves, keyboardVars
<1>7. Flow' /\ OthersKeep(i) /\ Puts(i) /\ Stays(ShellProc, i, "pWrite")
  BY <1>1, <1>2, <1>6, GoesOnFlows
<1>8. Control'
  BY <1>1, <1>2, <1>4, <1>6, <1>7, EofControl
<1>9. LastOK'
  BY <1>1 DEF pWriteGoesOn, WriteFrom, PipesInv, LastOK
<1>. QED  BY <1>7, <1>8, <1>9, CallFine

-----------------------------------------------------------------------------
(***************************************************************************)
(* pClose.                                                                 *)
(***************************************************************************)
\* But for the count of its users.
Alike(a, b) ==
  /\ b.state = a.state /\ b.id = a.id /\ b.lockR = a.lockR /\ b.lockW = a.lockW
  /\ b.readIndex = a.readIndex /\ b.writeIndex = a.writeIndex /\ b.buffer = a.buffer

FlowsOn(j) ==
  /\ Whole(j) => SlotKeeps(pipes, sync, j, Readers(j), Writers(j), 0)
  /\ InUse(j) /\ ~ Whole(j) /\ pipes[j].lockR # -1 => sync[pipes[j].lockR].value = 0

\* A slot that another one's opening or closing leaves alone.
LEMMA SlotUntouched ==
  ASSUME PipesInv, NEW j \in Slot, pipes' \in [Slot -> Pipe], sync' \in Semaphores,
         UNCHANGED <<inCall, lastRead>>, Alike(pipes[j], pipes'[j]),
         InUse(j) /\ pipes[j].lockR # -1 => /\ sync'[pipes[j].lockR] = sync[pipes[j].lockR]
                                            /\ sync'[pipes[j].lockR + 1] = sync[pipes[j].lockR + 1]
  PROVE  Keeps(j) /\ FlowsOn(j)'
<1>1. /\ pipes'[j].state = pipes[j].state /\ pipes'[j].lockR = pipes[j].lockR
      /\ pipes'[j].lockW = pipes[j].lockW /\ pipes'[j].readIndex = pipes[j].readIndex
      /\ pipes'[j].writeIndex = pipes[j].writeIndex /\ pipes'[j].buffer = pipes[j].buffer
  BY DEF Alike
<1>2. /\ InUse(j)' = InUse(j) /\ Whole(j)' = Whole(j)
      /\ Readers(j)' = Readers(j) /\ Writers(j)' = Writers(j)
  BY <1>1 DEF InUse, Whole, Readers, Writers
<1>3. FlowsOn(j)
  BY DEF PipesInv, SlotsFlow, FlowsOn
<1>4. ASSUME Whole(j)
      PROVE  /\ SlotKeeps(pipes', sync', j, Readers(j), Writers(j), 0)
             /\ Inside(pipes', sync', j, Readers(j)) = Inside(pipes, sync, j, Readers(j))
  <2>. DEFINE a == pipes[j].lockR  b == pipes[j].lockW  T == Readers(j)  U == Writers(j)
  <2>1. SlotKeeps(pipes, sync, j, T, U, 0)
    BY <1>3, <1>4 DEF FlowsOn
  <2>2. sync'[a] = sync[a] /\ sync'[b] = sync[b]
    BY <1>4 DEF Whole
  <2>3. PICK V, B : V = sync' /\ B = pipes'
    OBVIOUS
  <2>. HIDE DEF a, b, T, U
  <2>4. /\ Kept(V, a, T) = Kept(sync, a, T) /\ Held(V, a, T) = Held(sync, a, T)
        /\ Kept(V, b, U) = Kept(sync, b, U) /\ Held(V, b, U) = Held(sync, b, U)
    BY <2>2, <2>3 DEF Kept, Held, Members
  <2>5. PICK n : n = Held(sync, a, T)
    OBVIOUS
  <2>6. WritesBehind(B[j], n) = WritesBehind(pipes[j], n) /\ CharsIn(B[j], n) = CharsIn(pipes[j], n)
    BY <1>1, <2>3 DEF WritesBehind, CharsIn
  <2>7. B[j].lockR = a /\ B[j].lockW = b /\ pipes[j].lockR = a /\ pipes[j].lockW = b
    BY <1>1, <2>3 DEF a, b
  <2>8. SlotKeeps(B, V, j, T, U, 0)
    BY <2>1, <2>3, <2>4, <2>5, <2>6, <2>7 DEF SlotKeeps
  <2>9. Inside(B, V, j, T) = Inside(pipes, sync, j, T)
    BY <2>4, <2>5, <2>6, <2>7 DEF Inside
  <2>. QED  BY <2>3, <2>8, <2>9 DEF T, U
<1>5. FlowsOn(j)'
  <2>1. Whole(j)' => SlotKeeps(pipes', sync', j, Readers(j)', Writers(j)', 0)
    BY <1>2, <1>4
  <2>2. InUse(j)' /\ ~ Whole(j)' /\ pipes'[j].lockR # -1 => sync'[pipes'[j].lockR].value = 0
    BY <1>1, <1>2, <1>3 DEF FlowsOn
  <2>. QED  BY <2>1, <2>2 DEF FlowsOn
<1>6. Holds(j)' = Holds(j)
  <2>1. Whole(j) => Inside(pipes', sync', j, Readers(j)') = Inside(pipes, sync, j, Readers(j))
    BY <1>2, <1>4
  <2>. QED  BY <1>2, <2>1 DEF Holds
<1>. QED  BY <1>2, <1>5, <1>6 DEF Keeps

\* When the shell closes its pipe nobody is in a call there.
LEMMA NobodyAtClose ==
  ASSUME PipesInv, shellPc = "pClose", NEW i \in Slot, Serves(i, OurPipe)
  PROVE  /\ Readers(i) = {} /\ Writers(i) = {}
         /\ \A p \in Program : Alive(p) => PipeOf(p) # OurPipe
<1>1. Working
  BY DEF Working
<1>2. /\ Control /\ TypesOK
      /\ prog[Left(pipeline)].pc = "dead" /\ prog[Right(pipeline)].pc = "dead"
  BY <1>1, ShellIsWorking
<1>3. ASSUME NEW p \in Program, Alive(p) PROVE PipeOf(p) # OurPipe
  BY <1>1, <1>2, <1>3, OurPipeIs DEF Alive
<1>4. ASSUME NEW p \in Process, inCall[p].op # "none" PROVE inCall[p].slot # i
  <2>1. CallOK(p) /\ shellPc # "writing"
    BY <1>2 DEF Control, CallsServed
  <2>2. p \in Program /\ Alive(p) /\ Serves(inCall[p].slot, PipeOf(p))
    BY <1>4, <2>1 DEF CallOK, Alive
  <2>. QED  BY <1>3, <2>2 DEF Serves
<1>. QED  BY <1>3, <1>4 DEF Readers, Writers

\* The semaphores of a slot in which nobody waits go with the slot.
LEMMA LocksClose ==
  ASSUME NEW S \in Semaphores, NEW r \in SyncId, NEW w \in SyncId, r # w,
         Kept(S, r, {}), Kept(S, w, {})
  PROVE  LET V == AfterClose(AfterClose(S, r), w) IN
         /\ V \in Semaphores /\ V[r] = NoSync /\ V[w] = NoSync
         /\ \A t \in SyncId \ {r, w} : V[t] = S[t]
<1>. DEFINE X == AfterClose(S, r)  V == AfterClose(X, w)
<1>1. S[r] # NoSync /\ S[w] # NoSync /\ S[r].listeners = 1 /\ S[w].listeners = 1
  BY SyncAssumption DEF Kept
<1>2. X \in Semaphores /\ X[r] = NoSync /\ \A t \in SyncId \ {r} : X[t] = S[t]
  BY <1>1, AfterCloseDoes
<1>3. X[w] = S[w]
  BY <1>2
<1>. HIDE DEF X
<1>4. V \in Semaphores /\ V[w] = NoSync /\ \A t \in SyncId \ {w} : V[t] = X[t]
  BY <1>1, <1>2, <1>3, AfterCloseDoes
<1>. QED  BY <1>2, <1>4 DEF X

\* What pClose does then.
LEMMA CloseDoes ==
  ASSUME PipesInv, shellPc = "pClose", NEW i \in Slot, Serves(i, OurPipe), pClose(OurPipe)
  PROVE  /\ pipes' = [pipes EXCEPT ![i].totalProcesses = pipes[i].totalProcesses - 1,
                                   ![i].state = "EMPTY"]
         /\ sync' \in Semaphores
         /\ sync'[pipes[i].lockR] = NoSync /\ sync'[pipes[i].lockR + 1] = NoSync
         /\ \A t \in SyncId \ {pipes[i].lockR, pipes[i].lockR + 1} : sync'[t] = sync[t]
         /\ UNCHANGED <<semId, inCall, lastRead>>
<1>. DEFINE r == pipes[i].lockR  w == pipes[i].lockW  total == pipes[i].totalProcesses - 1
<1>1. Control /\ SlotsApart /\ Whole(i)
  BY DEF PipesInv, Control, Serves
<1>2. PICK id : id = OurPipe /\ Serves(i, id)
  OBVIOUS
<1>3. getPipeIdx(OurPipe) = i /\ i # -1
  BY <1>1, <1>2, SlotFound
<1>4. total <= 0
  <2>1. pipes[i].totalProcesses \in Int /\ pipes[i].totalProcesses <= 1
    <3>1. pipes[i].totalProcesses <= IF i < shellPipe THEN 1 ELSE 0
      BY <1>1 DEF SlotsApart
    <3>2. pipes[i] \in Pipe
      BY <1>1 DEF SlotsApart
    <3>. QED  BY <3>1, <3>2 DEF Pipe
  <2>. QED  BY <2>1
<1>5. /\ pipes' = [pipes EXCEPT ![i].totalProcesses = total, ![i].state = "EMPTY"]
      /\ sync' = AfterClose(AfterClose(sync, r), w)
      /\ UNCHANGED <<semId, inCall, lastRead>>
  BY <1>3, <1>4 DEF pClose, Depleted
<1>6. SlotKeeps(pipes, sync, i, Readers(i), Writers(i), 0)
  BY <1>1 DEF PipesInv, SlotsFlow
<1>7. Readers(i) = {} /\ Writers(i) = {}
  BY NobodyAtClose
<1>8. /\ sync \in Semaphores /\ r \in SyncId /\ w \in SyncId /\ r # w
      /\ Kept(sync, r, {}) /\ Kept(sync, w, {})
  BY <1>6, <1>7 DEF SlotKeeps
<1>9. PICK S, R, W : S = sync /\ R = r /\ W = w
  OBVIOUS
<1>10. LET V == AfterClose(AfterClose(S, R), W) IN
       /\ V \in Semaphores /\ V[R] = NoSync /\ V[W] = NoSync
       /\ \A t \in SyncId \ {R, W} : V[t] = S[t]
  <2>1. S \in Semaphores /\ R \in SyncId /\ W \in SyncId /\ R # W /\ Kept(S, R, {}) /\ Kept(S, W, {})
    BY <1>8, <1>9
  <2>. QED  BY <2>1, LocksClose
<1>11. w = r + 1
  BY <1>1 DEF Whole
<1>. QED  BY <1>5, <1>9, <1>10, <1>11

\* The pipe is closed, and the shell back at the prompt.
LEMMA ClosesFine == PipesInv /\ ShellCloses => Fine
<1>. SUFFICES ASSUME PipesInv, ShellCloses PROVE Fine
  OBVIOUS
<1>1. /\ shellPc = "pClose" /\ pClose(OurPipe)
      /\ shellPc' = "prompt" /\ commands' = <<"none", "none">>
      /\ UNCHANGED <<keys, getting, pipeline, shellPipe, prog, pressed, leaked>>
  BY DEF ShellCloses, BackToPrompt, keyboardVars
<1>2. Working /\ ~ Working'
  BY <1>1 DEF Working
<1>3. /\ Control /\ TypesOK /\ SlotsApart /\ LinesOK /\ leaked \in Nat
      /\ \E k \in Slot : Serves(k, OurPipe)
  BY <1>2, ShellIsWorking DEF PipesInv, Control
<1>4. PICK i \in Slot : Serves(i, OurPipe)
  BY <1>3
<1>. DEFINE r == pipes[i].lockR
<1>5. /\ pipes' = [pipes EXCEPT ![i].totalProcesses = pipes[i].totalProcesses - 1,
                                ![i].state = "EMPTY"]
      /\ sync' \in Semaphores /\ sync'[r] = NoSync /\ sync'[r + 1] = NoSync
      /\ \A t \in SyncId \ {r, r + 1} : sync'[t] = sync[t]
      /\ UNCHANGED <<semId, inCall, lastRead>>
  BY <1>1, <1>4, CloseDoes
<1>6. Whole(i) /\ InUse(i) /\ r # -1 /\ pipes \in [Slot -> Pipe] /\ pipes[i] \in Pipe
      /\ pipes[i].totalProcesses \in Int
  BY <1>3, <1>4 DEF Serves, Whole, SlotsApart, Pipe
<1>7. /\ pipes' \in [Slot -> Pipe] /\ pipes'[i].state = "EMPTY"
      /\ pipes'[i].lockW = pipes[i].lockW
      /\ pipes'[i].totalProcesses = pipes[i].totalProcesses - 1
      /\ \A j \in Slot \ {i} : pipes'[j] = pipes[j]
  <2>1. /\ pipes'[i] = [pipes[i] EXCEPT !.totalProcesses = pipes[i].totalProcesses - 1, !.state = "EMPTY"]
        /\ \A j \in Slot \ {i} : pipes'[j] = pipes[j]
        /\ DOMAIN pipes' = Slot /\ pipes' = [j \in Slot |-> pipes'[j]]
    BY <1>5, <1>6
  <2>2. /\ pipes'[i] \in Pipe /\ pipes'[i].state = "EMPTY"
        /\ pipes'[i].lockW = pipes[i].lockW
        /\ pipes'[i].totalProcesses = pipes[i].totalProcesses - 1
    <3>1. PICK a \in Pipe, n \in Int : a = pipes[i] /\ n = pipes[i].totalProcesses - 1
      BY <1>6
    <3>2. LET b == [a EXCEPT !.totalProcesses = n, !.state = "EMPTY"] IN
          b \in Pipe /\ b.state = "EMPTY" /\ b.lockW = a.lockW /\ b.totalProcesses = n
      BY DEF Pipe
    <3>. QED  BY <2>1, <3>1, <3>2
  <2>. QED  BY <1>6, <2>1, <2>2
<1>8. ~ InUse(i)' /\ \A j \in Slot \ {i} : /\ InUse(j)' = InUse(j) /\ Whole(j)' = Whole(j)
                                           /\ \A id \in Nat : Serves(j, id)' = Serves(j, id)
  BY <1>7 DEF InUse, Whole, Serves
<1>9. Readers(i) = {} /\ Writers(i) = {} /\ \A p \in Program : Alive(p) => PipeOf(p) # OurPipe
  BY <1>1, <1>4, NobodyAtClose
<1>10. \A p \in Program : Alive(p) => \E j \in Slot \ {i} : Serves(j, PipeOf(p))
  BY <1>3, <1>4, <1>9 DEF Control, ProgramsServed, Serves
<1>11. ASSUME NEW p \in Process, inCall[p].op # "none" PROVE CallOK(p)'
  <2>1. CallOK(p) /\ shellPc # "writing"
    BY <1>1, <1>3 DEF Control, CallsServed
  <2>2. p \in Program /\ Alive(p) /\ Serves(inCall[p].slot, PipeOf(p))
    BY <1>11, <2>1 DEF CallOK, Alive
  <2>3. PICK k \in Slot, id \in Nat : k = inCall[p].slot /\ id = PipeOf(p) /\ Serves(k, id)
    BY <2>2, PipeIds DEF Serves
  <2>4. k # i
    BY <1>4, <1>9, <2>2, <2>3 DEF Serves
  <2>5. Serves(k, id)'
    BY <1>8, <2>3, <2>4
  <2>6. Serves(inCall[p].slot, PipeOf(p))'
    BY <1>5, <2>3, <2>5 DEF Serves
  <2>. QED  BY <1>1, <1>5, <2>1, <2>2, <2>6, Bounds DEF CallOK
<1>12. Control'
  <2>1. TypesOK'
    BY <1>1, <1>3, <1>5 DEF TypesOK, Command
  <2>2. SlotsApart'
    <3>1. semId' = semId /\ shellPipe' = shellPipe
      BY <1>1, <1>5
    <3>2. pipes'[i].totalProcesses <= IF i < shellPipe THEN 1 ELSE 0
      <4>1. pipes[i].totalProcesses <= IF i < shellPipe THEN 1 ELSE 0
        BY <1>3 DEF SlotsApart
      <4>. QED  BY <1>6, <1>7, <4>1
    <3>3. \A j \in Slot : InUse(j)' => InUse(j) /\ pipes'[j] = pipes[j]
      BY <1>7, <1>8
    <3>4. \A j \in Slot : pipes'[j].lockW <= semId
      BY <1>3, <1>7 DEF SlotsApart
    <3>5. \A j \in Slot : pipes'[j].totalProcesses <= IF j < shellPipe THEN 1 ELSE 0
      BY <1>3, <1>7, <3>2 DEF SlotsApart
    <3>. QED  BY <1>3, <1>7, <3>1, <3>3, <3>4, <3>5 DEF SlotsApart
  <2>3. ProgramsServed'
    <3>1. ASSUME NEW p \in Program, Alive(p)' PROVE p <= 2 * pipeline' /\ \E j \in Slot : Serves(j, PipeOf(p))'
      <4>1. Alive(p)
        BY <1>1, <3>1 DEF Alive
      <4>2. p <= 2 * pipeline
        BY <1>3, <4>1 DEF Control, ProgramsServed
      <4>. QED  BY <1>1, <1>8, <1>10, <4>1, <4>2, PipeIds
    <3>. QED  BY <3>1 DEF ProgramsServed
  <2>4. ShellKnows'
    <3>1. shellPc' # "pOpen" /\ shellPc' \notin {"right", "left", "writing", "wait", "pClose"}
          /\ shellPc' \notin {"right", "pClose"}
      BY <1>1
    <3>. QED  BY <1>2, <3>1 DEF ShellKnows
  <2>5. CallsServed'
    BY <1>5, <1>11 DEF CallsServed, CallOK
  <2>6. SlotsCounted'
    <3>1. UsedSlots' = UsedSlots \ {i} /\ i \in UsedSlots
      BY <1>6, <1>8 DEF UsedSlots
    <3>2. IsFiniteSet(UsedSlots)
      BY Bounds, FS_Subset DEF UsedSlots
    <3>3. Cardinality(UsedSlots') = Cardinality(UsedSlots) - 1
      BY <3>1, <3>2, OneMore
    <3>4. Cardinality(UsedSlots) = leaked + 1
      BY <1>2, <1>3 DEF Control, SlotsCounted
    <3>. QED  BY <1>1, <1>2, <1>3, <3>3, <3>4 DEF SlotsCounted
  <2>7. KeysCounted'
    <3>1. shellPc' \notin {"pOpen", "right", "left"}
      BY <1>1
    <3>. QED  BY <1>1, <1>3, <3>1, ShellKeys
  <2>. QED  BY <2>1, <2>2, <2>3, <2>4, <2>5, <2>6, <2>7 DEF Control
<1>13. /\ r \in SyncId /\ r + 1 \in SyncId /\ r # KEY_SEM_ID /\ r + 1 # KEY_SEM_ID
  BY <1>3, <1>6, LocksAre
<1>14. LinesOK'
  <2>1. sync'[KEY_SEM_ID] = sync[KEY_SEM_ID]
    BY <1>5, <1>13, Bounds
  <2>2. ASSUME NEW t \in PipeSems, t >= semId' PROVE sync'[t] = NoSync
    <3>1. t \in SyncId /\ sync[t] = NoSync
      BY <1>3, <1>5, <2>2, Bounds DEF LinesOK
    <3>. QED  BY <1>5, <3>1
  <2>3. ASSUME NEW t \in SyncId, sync'[t] # NoSync, NEW q \in Members(sync', t) PROVE InLine(q, t)'
    <3>1. t \notin {r, r + 1} /\ sync[t] # NoSync /\ q \in Members(sync, t)
      BY <1>5, <2>3 DEF Members
    <3>2. InLine(q, t)
      BY <1>3, <3>1 DEF LinesOK
    <3>3. q \in Process
      <4>1. sync[t] \in Semaphore
        BY <1>3, <3>1 DEF LinesOK, Semaphores
      <4>. QED  BY <3>1, <4>1 DEF Members, Semaphore, Range
    <3>4. CASE t = KEY_SEM_ID /\ q \in getting
      BY <1>1, <3>4 DEF InLine
    <3>5. CASE inCall[q].op = "pRead" \/ inCall[q].op = "pWrite"
      <4>1. inCall[q] \in Call
        BY <1>3, <3>3 DEF TypesOK
      <4>2. inCall[q].slot \in Slot \ {i}
        BY <1>9, <3>3, <3>5, <4>1 DEF Readers, Writers, Call
      <4>3. pipes'[inCall[q].slot] = pipes[inCall[q].slot]
        BY <1>7, <4>2
      <4>. QED  BY <1>1, <1>5, <3>2, <4>3 DEF InLine
    <3>. QED  BY <3>2, <3>4, <3>5 DEF InLine
  <2>. QED  BY <1>3, <1>5, <2>1, <2>2, <2>3 DEF LinesOK
<1>15. ASSUME NEW j \in Slot, j # i PROVE Keeps(j) /\ FlowsOn(j)'
  <2>1. InUse(j) /\ pipes[j].lockR # -1 => /\ sync'[pipes[j].lockR] = sync[pipes[j].lockR]
                                           /\ sync'[pipes[j].lockR + 1] = sync[pipes[j].lockR + 1]
    <3>. SUFFICES ASSUME InUse(j), pipes[j].lockR # -1
                  PROVE  /\ sync'[pipes[j].lockR] = sync[pipes[j].lockR]
                         /\ sync'[pipes[j].lockR + 1] = sync[pipes[j].lockR + 1]
      OBVIOUS
    <3>1. pipes[j].lockR \in SyncId /\ pipes[j].lockR + 1 \in SyncId
      BY <1>3, LocksAre
    <3>2. pipes[j].lockR \notin {r, r + 1} /\ pipes[j].lockR + 1 \notin {r, r + 1}
      BY <1>3, <1>6, <1>15, LocksAre
    <3>. QED  BY <1>5, <3>1, <3>2
  <2>2. Alike(pipes[j], pipes'[j])
    BY <1>7, <1>15 DEF Alike
  <2>. QED  BY <1>5, <1>7, <2>1, <2>2, SlotUntouched
<1>16. FlowsOn(i)'
  BY <1>8 DEF FlowsOn, Whole
<1>17. SlotsFlow'
  <2>1. \A j \in Slot : FlowsOn(j)'
    BY <1>15, <1>16
  <2>. QED  BY <2>1 DEF SlotsFlow, FlowsOn
<1>18. LastOK'
  BY <1>5 DEF PipesInv, LastOK
<1>19. Closed(i)
  BY <1>5, <1>6, <1>8 DEF Closed, Holds, Whole
<1>20. PipesInv'
  BY <1>12, <1>14, <1>17, <1>18 DEF PipesInv
<1>. QED  BY <1>15, <1>19, <1>20 DEF Fine, Streams

-----------------------------------------------------------------------------
(***************************************************************************)
(* pOpen.                                                                  *)
(***************************************************************************)
\* The next two semaphores are free.
LEMMA LocksAreFree ==
  ASSUME PipesInv, pipeline < MaxPipelines
  PROVE  /\ semId \in SyncId /\ semId + 1 \in SyncId /\ semId \in Nat /\ semId >= FIRST_SEM
         /\ semId # KEY_SEM_ID /\ semId + 1 # KEY_SEM_ID
         /\ sync[semId] = NoSync /\ sync[semId + 1] = NoSync
<1>1. /\ semId \in FIRST_SEM .. FIRST_SEM + 2 * pipeline /\ pipeline \in 0 .. MaxPipelines
      /\ FIRST_SEM \in Nat /\ MaxPipelines \in Nat /\ LinesOK
  BY Bounds DEF PipesInv, Control, TypesOK
<1>2. semId \in PipeSems /\ semId + 1 \in PipeSems /\ semId \in Nat
  BY <1>1 DEF PipeSems
<1>. QED  BY <1>1, <1>2, Bounds DEF LinesOK

\* What newPipe makes of slot f.  The user that pOpen counts is in another slot.
Made(f, opened) ==
  /\ pipes' \in [Slot -> Pipe] /\ \A j \in Slot \ {f} : Alike(pipes[j], pipes'[j])
  /\ \A j \in Slot : pipes'[j].totalProcesses <= IF j < shellPipe + 1 THEN 1 ELSE 0
  /\ pipes'[f].state = "IN_USE" /\ pipes'[f].id = shellPipe
  /\ pipes'[f].readIndex = 0 /\ pipes'[f].writeIndex = 0
  /\ pipes'[f].lockR = (IF opened > 0 THEN semId ELSE -1)
  /\ pipes'[f].lockW = (IF opened > 1 THEN semId + 1 ELSE pipes[f].lockW)
  /\ semId' = semId + (IF opened > 0 THEN 2 ELSE 1)

\* It does.
LEMMA NewPipeMakes ==
  ASSUME PipesInv, NEW f \in Slot, NEW opened \in 0 .. 2, newPipe(f, shellPipe, opened)
  PROVE  Made(f, opened)
<1>. DEFINE lockR == IF opened > 0 THEN semId ELSE -1
            lockW == IF opened > 1 THEN semId + 1 ELSE pipes[f].lockW
            inUse == [pipes EXCEPT ![f].id = shellPipe, ![f].state = "IN_USE", ![f].readIndex = 0,
                                   ![f].writeIndex = 0, ![f].totalProcesses = 0,
                                   ![f].lockR = lockR, ![f].lockW = lockW]
<1>1. /\ pipes \in [Slot -> Pipe] /\ pipes[f] \in Pipe /\ shellPipe \in Nat /\ semId \in Nat
      /\ \A j \in Slot : pipes[j].totalProcesses <= IF j < shellPipe THEN 1 ELSE 0
      /\ BUFF_SIZE \in Nat \ {0} /\ Slot \subseteq Nat
  BY Bounds DEF PipesInv, Control, TypesOK, SlotsApart, Slot
<1>2. lockR \in Int /\ lockW \in Int
  BY <1>1 DEF Pipe
<1>3. /\ pipes' = IF opened = 2 THEN Counted(inUse, shellPipe) ELSE inUse
      /\ semId' = semId + (IF opened > 0 THEN 2 ELSE 1)
  <2>1. opened > 1 \/ ~ (opened > 1)
    OBVIOUS
  <2>. QED  BY DEF newPipe
<1>. HIDE DEF lockR, lockW
<1>4. PICK a \in Pipe, id \in Nat, r \in Int, w \in Int :
        a = pipes[f] /\ id = shellPipe /\ r = lockR /\ w = lockW
  BY <1>1, <1>2
<1>. DEFINE b == [a EXCEPT !.id = id, !.state = "IN_USE", !.readIndex = 0, !.writeIndex = 0,
                           !.totalProcesses = 0, !.lockR = r, !.lockW = w]
<1>5. /\ b \in Pipe /\ b.state = "IN_USE" /\ b.id = id /\ b.readIndex = 0 /\ b.writeIndex = 0
      /\ b.totalProcesses = 0 /\ b.lockR = r /\ b.lockW = w
  <2>1. 0 \in 0 .. BUFF_SIZE - 1 /\ "IN_USE" \in {"EMPTY", "IN_USE"} /\ 0 \in Int
    BY <1>1
  <2>. QED  BY <2>1 DEF Pipe
<1>6. inUse = [pipes EXCEPT ![f] = b]
  BY <1>1, <1>4
<1>. HIDE DEF inUse, b
<1>7. /\ inUse \in [Slot -> Pipe] /\ inUse[f] = b
      /\ \A j \in Slot \ {f} : inUse[j] = pipes[j]
  BY <1>1, <1>5, <1>6
<1>8. \A j \in Slot : inUse[j].totalProcesses <= IF j < shellPipe THEN 1 ELSE 0
  <2>1. ASSUME NEW j \in Slot PROVE inUse[j].totalProcesses <= IF j < shellPipe THEN 1 ELSE 0
    <3>0. j < shellPipe \/ ~ (j < shellPipe)
      OBVIOUS
    <3>1. CASE j = f
      <4>1. inUse[j].totalProcesses = 0
        BY <1>5, <1>7, <3>1
      <4>. QED  BY <4>1
    <3>2. CASE j # f
      BY <1>1, <1>7, <3>2
    <3>. QED  BY <3>1, <3>2
  <2>. QED  BY <2>1
<1>9. \A j \in Slot : inUse[j].totalProcesses \in Int
  BY <1>7 DEF Pipe
<1>10. CASE opened = 2 /\ shellPipe \in Slot
  <2>1. pipes' = [inUse EXCEPT ![id].totalProcesses = inUse[id].totalProcesses + 1] /\ id \in Slot
    BY <1>3, <1>4, <1>10 DEF Counted
  <2>2. PICK c \in Pipe, n \in Int : c = inUse[id] /\ n = inUse[id].totalProcesses + 1
    BY <1>7, <1>9, <2>1
  <2>. DEFINE d == [c EXCEPT !.totalProcesses = n]
  <2>3. d \in Pipe /\ Alike(c, d) /\ d.totalProcesses = n
    BY DEF Pipe, Alike
  <2>4. pipes' = [inUse EXCEPT ![id] = d]
    BY <1>7, <2>1, <2>2
  <2>. HIDE DEF d
  <2>5. pipes' \in [Slot -> Pipe] /\ pipes'[id] = d /\ \A j \in Slot \ {id} : pipes'[j] = inUse[j]
    BY <1>7, <2>1, <2>3, <2>4
  <2>6. \A j \in Slot : Alike(inUse[j], pipes'[j])
    BY <2>2, <2>3, <2>5 DEF Alike
  <2>7. \A j \in Slot : pipes'[j].totalProcesses <= IF j < shellPipe + 1 THEN 1 ELSE 0
    <3>1. pipes'[id].totalProcesses <= 1
      <4>1. inUse[id].totalProcesses <= 0
        BY <1>1, <1>4, <1>8, <2>1
      <4>. QED  BY <1>9, <2>1, <2>2, <2>3, <2>5, <4>1
    <3>2. \A j \in Slot \ {id} : (IF j < shellPipe + 1 THEN 1 ELSE 0) = (IF j < shellPipe THEN 1 ELSE 0)
      BY <1>1, <1>4
    <3>3. id < shellPipe + 1
      BY <1>4
    <3>4. ASSUME NEW j \in Slot PROVE pipes'[j].totalProcesses <= IF j < shellPipe + 1 THEN 1 ELSE 0
      <4>1. CASE j = id
        BY <3>1, <3>3, <4>1
      <4>2. CASE j # id
        BY <1>8, <2>5, <3>2, <4>2
      <4>. QED  BY <4>1, <4>2
    <3>. QED  BY <3>4
  <2>8. \A j \in Slot \ {f} : Alike(pipes[j], pipes'[j])
    BY <1>7, <2>6
  <2>9. Alike(b, pipes'[f])
    BY <1>7, <2>6
  <2>. QED  BY <1>3, <1>4, <1>5, <2>5, <2>7, <2>8, <2>9 DEF Made, Alike, lockR, lockW
<1>11. CASE ~ (opened = 2 /\ shellPipe \in Slot)
  <2>1. pipes' = inUse
    BY <1>3, <1>11 DEF Counted
  <2>2. \A j \in Slot : pipes'[j].totalProcesses <= IF j < shellPipe + 1 THEN 1 ELSE 0
    <3>1. ASSUME NEW j \in Slot PROVE pipes'[j].totalProcesses <= IF j < shellPipe + 1 THEN 1 ELSE 0
      <4>1. inUse[j].totalProcesses \in Int /\ inUse[j].totalProcesses <= (IF j < shellPipe THEN 1 ELSE 0) /\ j \in Nat
        BY <1>1, <1>8, <1>9
      <4>. QED  BY <1>1, <2>1, <4>1
    <3>. QED  BY <3>1
  <2>. QED  BY <1>3, <1>4, <1>5, <1>7, <2>1, <2>2 DEF Made, Alike, lockR, lockW
<1>. QED  BY <1>10, <1>11

\* A new semaphore.
Fresh(v) == [value |-> v, listeners |-> 1, blockedPIDs |-> <<>>]

\* What newPipe does to the semaphores.
LockedIn(S, V, s, opened) ==
  /\ V \in Semaphores /\ \A t \in SyncId \ {s, s + 1} : V[t] = S[t]
  /\ V[s] = (IF opened > 0 THEN Fresh(0) ELSE NoSync)
  /\ V[s + 1] = (IF opened > 1 THEN Fresh(BUFF_SIZE) ELSE NoSync)
Locked(opened) == LockedIn(sync, sync', semId, opened)

\* It opens those that find memory.
LEMMA LocksOpen ==
  ASSUME NEW S \in Semaphores, NEW s \in Nat, s \in SyncId, s + 1 \in SyncId,
         S[s] = NoSync, S[s + 1] = NoSync, NEW opened \in 0 .. 2, NEW V,
         V = LET withR == IF opened > 0 THEN AfterOpen(S, s, 0) ELSE S
             IN  IF opened = 2 THEN AfterOpen(withR, s + 1, BUFF_SIZE) ELSE withR
  PROVE  LockedIn(S, V, s, opened)
<1>. DEFINE R == AfterOpen(S, s, 0)
<1>1. s # s + 1 /\ BUFF_SIZE \in Nat /\ 0 \in Nat
  BY Bounds
<1>2. R \in Semaphores /\ R[s] = Fresh(0) /\ \A t \in SyncId \ {s} : R[t] = S[t]
  BY <1>1, AfterOpenDoes DEF Refused, Fresh
<1>3. PICK q \in SyncId : q = s + 1
  OBVIOUS
<1>. DEFINE W == AfterOpen(R, q, BUFF_SIZE)
<1>4. R[q] = NoSync
  BY <1>1, <1>2, <1>3
<1>. HIDE DEF R
<1>5. W \in Semaphores /\ W[q] = Fresh(BUFF_SIZE) /\ \A t \in SyncId \ {q} : W[t] = R[t]
  BY <1>1, <1>2, <1>4, AfterOpenDoes DEF Refused, Fresh
<1>. HIDE DEF W
<1>6. CASE opened = 0
  <2>1. V = S /\ ~ (opened > 0) /\ ~ (opened > 1)
    BY <1>6
  <2>. QED  BY <2>1 DEF LockedIn
<1>7. CASE opened = 1
  <2>1. V = R /\ opened > 0 /\ ~ (opened > 1)
    BY <1>7 DEF R
  <2>. QED  BY <1>2, <1>3, <1>4, <2>1 DEF LockedIn
<1>8. CASE opened = 2
  <2>1. V = W /\ opened > 0 /\ opened > 1
    BY <1>3, <1>8 DEF R, W
  <2>. QED  BY <1>1, <1>2, <1>3, <1>5, <2>1 DEF LockedIn
<1>. QED  BY <1>6, <1>7, <1>8

\* So newPipe leaves the list.
LEMMA NewPipeLocks ==
  ASSUME PipesInv, pipeline < MaxPipelines, NEW f \in Slot, NEW opened \in 0 .. 2,
         newPipe(f, shellPipe, opened)
  PROVE  Locked(opened)
<1>1. /\ semId \in SyncId /\ semId + 1 \in SyncId /\ semId \in Nat /\ sync \in Semaphores
      /\ sync[semId] = NoSync /\ sync[semId + 1] = NoSync
  BY LocksAreFree DEF PipesInv, LinesOK
<1>2. PICK S, V, s : S = sync /\ V = sync' /\ s = semId
  OBVIOUS
<1>3. V = LET withR == IF opened > 0 THEN AfterOpen(S, s, 0) ELSE S
          IN  IF opened = 2 THEN AfterOpen(withR, s + 1, BUFF_SIZE) ELSE withR
  BY <1>2 DEF newPipe
<1>4. S \in Semaphores /\ s \in Nat /\ s \in SyncId /\ s + 1 \in SyncId /\ S[s] = NoSync /\ S[s + 1] = NoSync
  BY <1>1, <1>2
<1>5. LockedIn(S, V, s, opened)
  BY <1>3, <1>4, LocksOpen
<1>. QED  BY <1>2, <1>5 DEF Locked

\* The control after pOpen, whether it opened a pipe or not.
LEMMA OpenControl ==
  ASSUME Control, shellPc = "pOpen", pipeline' = pipeline + 1, shellPipe' = shellPipe + 1,
         UNCHANGED <<inCall, prog, keys, getting, pressed>>,
         semId' \in semId .. semId + 2, leaked' \in Nat, commands' \in Command \X Command,
         shellPc' = "prompt" \/ (shellPc' = "right" /\ commands' = commands
                                 /\ \E i \in Slot : Whole(i)' /\ pipes'[i].id = shellPipe),
         \A i \in Slot : \A id \in Nat : Serves(i, id) => Serves(i, id)',
         SlotsApart', SlotsCounted'
  PROVE  Control'
<1>1. /\ TypesOK /\ ProgramsServed /\ ShellKnows /\ CallsServed /\ KeysCounted
      /\ pipeline \in 0 .. MaxPipelines /\ pipeline < MaxPipelines
      /\ MaxPipelines \in Nat /\ FIRST_SEM \in Nat
      /\ semId \in FIRST_SEM .. FIRST_SEM + 2 * pipeline /\ shellPipe = FIRST_PIPE + pipeline
  BY Bounds DEF Control, TypesOK, ShellKnows
<1>2. TypesOK'
  <2>1. /\ pipeline' \in 0 .. MaxPipelines /\ shellPipe' = FIRST_PIPE + pipeline'
        /\ semId' \in FIRST_SEM .. FIRST_SEM + 2 * pipeline'
    BY <1>1, Bounds
  <2>. QED  BY <1>1, <2>1 DEF TypesOK
<1>3. ASSUME NEW p \in Program, Alive(p) PROVE p <= 2 * pipeline /\ \E i \in Slot : Serves(i, PipeOf(p))'
  <2>1. p <= 2 * pipeline /\ \E i \in Slot : Serves(i, PipeOf(p))
    BY <1>1, <1>3 DEF ProgramsServed
  <2>. QED  BY <2>1, PipeIds
<1>4. ProgramsServed'
  <2>1. ASSUME NEW p \in Program, Alive(p)' PROVE p <= 2 * pipeline' /\ \E i \in Slot : Serves(i, PipeOf(p))'
    <3>1. Alive(p)
      BY <2>1 DEF Alive
    <3>2. p <= 2 * pipeline /\ p \in Int
      BY <1>1, <1>3, <3>1 DEF Program
    <3>. QED  BY <1>1, <1>3, <3>1, <3>2
  <2>. QED  BY <2>1 DEF ProgramsServed
<1>5. ShellKnows'
  <2>1. ~ Alive(Left(pipeline))' /\ ~ Alive(Right(pipeline))'
    <3>1. PICK n \in 1 .. MaxPipelines : n = pipeline'
      BY <1>1
    <3>2. Left(n) > 2 * pipeline /\ Right(n) > 2 * pipeline /\ Left(n) \in Program /\ Right(n) \in Program
      BY <1>1, <3>1, TwoPrograms DEF Left, Right
    <3>3. Left(n) \in Int /\ Right(n) \in Int
      BY <3>1 DEF Left, Right
    <3>4. ~ Alive(Left(n)) /\ ~ Alive(Right(n))
      BY <1>1, <1>3, <3>2, <3>3
    <3>. QED  BY <3>1, <3>4 DEF Alive
  <2>2. pipeline' >= 1
    BY <1>1
  <2>3. shellPc' # "pOpen"
    OBVIOUS
  <2>4. Working' => \E i \in Slot : Serves(i, OurPipe)'
    <3>1. shellPc' = "prompt" => ~ Working'
      BY DEF Working
    <3>2. OurPipe' = shellPipe
      BY <1>1, Bounds DEF OurPipe
    <3>. QED  BY <3>1, <3>2 DEF Serves
  <2>5. shellPc' = "prompt" => /\ shellPc' \notin {"right", "left", "writing", "wait", "pClose"}
                               /\ shellPc' \notin {"right", "pClose"}
    OBVIOUS
  <2>. QED  BY <2>1, <2>2, <2>3, <2>4, <2>5 DEF ShellKnows
<1>6. CallsServed'
  <2>1. ASSUME NEW p \in Process PROVE CallOK(p)'
    <3>1. CallOK(p) /\ shellPc # "writing"
      BY <1>1 DEF CallsServed
    <3>2. CASE inCall[p].op = "none"
      BY <3>2 DEF CallOK
    <3>3. CASE inCall[p].op # "none"
      <4>1. p \in Program /\ Serves(inCall[p].slot, PipeOf(p))
        BY <3>1, <3>3 DEF CallOK
      <4>2. PICK k \in Slot, id \in Nat : k = inCall[p].slot /\ id = PipeOf(p) /\ Serves(k, id)
        BY <4>1, PipeIds DEF Serves
      <4>3. Serves(k, id)'
        BY <4>2
      <4>4. Serves(inCall[p].slot, PipeOf(p))'
        BY <4>2, <4>3 DEF Serves
      <4>. QED  BY <3>1, <3>3, <4>4 DEF CallOK
    <3>. QED  BY <3>2, <3>3
  <2>. QED  BY <2>1 DEF CallsServed
<1>7. KeysCounted'
  <2>1. shellPc' \in {"pOpen", "right", "left"} => commands'[1] \in LeftCommands
    <3>1. commands[1] \in LeftCommands
      BY <1>1 DEF KeysCounted
    <3>. QED  BY <3>1
  <2>. QED  BY <2>1, ShellKeys
<1>. QED  BY <1>2, <1>4, <1>5, <1>6, <1>7 DEF Control

\* pOpen finds a slot, or none.
LEMMA OpenCases ==
  ASSUME PipesInv, ShellOpens
  PROVE  /\ shellPc = "pOpen" /\ pipeline' = pipeline + 1 /\ shellPipe' = shellPipe + 1
         /\ UNCHANGED <<inCall, lastRead, keys, getting, prog, pressed>>
         /\ leaked' \in Nat /\ commands' \in Command \X Command
         /\ pipeline < MaxPipelines /\ shellPipe \in Nat /\ semId \in Nat
         /\ \/ /\ UNCHANGED <<pipes, sync, semId, leaked>> /\ shellPc' = "prompt"
            \/ \E f \in Slot, opened \in 0 .. 2 :
                 /\ pipes[f].state = "EMPTY" /\ newPipe(f, shellPipe, opened)
                 /\ IF opened = 2 THEN shellPc' = "right" /\ commands' = commands /\ leaked' = leaked
                                  ELSE shellPc' = "prompt" /\ leaked' = leaked + 1
<1>1. /\ shellPc = "pOpen" /\ pipeline' = pipeline + 1 /\ shellPipe' = shellPipe + 1
      /\ UNCHANGED <<keys, getting, prog, pressed>>
  BY DEF ShellOpens, keyboardVars
<1>2. PICK opened \in 0 .. 2 :
        /\ pOpen(shellPipe, opened)
        /\ IF Opens(shellPipe, opened) THEN shellPc' = "right" /\ commands' = commands ELSE BackToPrompt
        /\ leaked' = IF Opens(shellPipe, opened) \/ getFreePipe = -1 THEN leaked ELSE leaked + 1
  BY DEF ShellOpens
<1>3. /\ Control /\ TypesOK /\ SlotsApart /\ leaked \in Nat /\ commands \in Command \X Command
      /\ pipeline < MaxPipelines /\ shellPipe \in Nat
  BY <1>1, Bounds DEF PipesInv, Control, TypesOK, ShellKnows
<1>4. semId \in Nat
  BY <1>3, Bounds DEF TypesOK
<1>5. getPipeIdx(shellPipe) = -1
  BY <1>3, NextIdIsNew
<1>6. <<"none", "none">> \in Command \X Command
  BY DEF Command
<1>7. Opens(shellPipe, opened) <=> getFreePipe # -1 /\ opened = 2
  BY <1>5 DEF Opens
<1>8. UNCHANGED <<inCall, lastRead>>
  BY <1>2 DEF pOpen
<1>9. leaked' \in Nat /\ commands' \in Command \X Command
  BY <1>2, <1>3, <1>6 DEF BackToPrompt
<1>10. CASE getFreePipe = -1
  <2>1. UNCHANGED <<pipes, sync, semId>>
    BY <1>2, <1>5, <1>10 DEF pOpen
  <2>2. leaked' = leaked /\ shellPc' = "prompt"
    BY <1>2, <1>7, <1>10 DEF BackToPrompt
  <2>. QED  BY <1>1, <1>3, <1>4, <1>8, <1>9, <2>1, <2>2
<1>11. CASE getFreePipe # -1
  <2>. DEFINE F == {i \in Slot : pipes[i].state = "EMPTY"}
  <2>1. F \in SUBSET Slot /\ getFreePipe = FirstSlot(F)
    BY DEF getFreePipe
  <2>. HIDE DEF F
  <2>2. FirstSlot(F) \in F
    BY <1>11, <2>1, FirstSlotIs
  <2>3. PICK f : f = getFreePipe
    OBVIOUS
  <2>4. f \in Slot /\ pipes[f].state = "EMPTY"
    BY <2>1, <2>2, <2>3 DEF F
  <2>5. newPipe(f, shellPipe, opened)
    BY <1>2, <1>5, <1>11, <2>3 DEF pOpen
  <2>6. IF opened = 2 THEN shellPc' = "right" /\ commands' = commands /\ leaked' = leaked
                      ELSE shellPc' = "prompt" /\ leaked' = leaked + 1
    BY <1>2, <1>7, <1>11 DEF BackToPrompt
  <2>7. \E g \in Slot, n \in 0 .. 2 :
                 /\ pipes[g].state = "EMPTY" /\ newPipe(g, shellPipe, n)
                 /\ IF n = 2 THEN shellPc' = "right" /\ commands' = commands /\ leaked' = leaked
                             ELSE shellPc' = "prompt" /\ leaked' = leaked + 1
    BY <2>4, <2>5, <2>6
  <2>. QED  BY <1>1, <1>3, <1>4, <1>8, <1>9, <2>7
<1>. QED  BY <1>10, <1>11

\* Without a free slot nothing happens but that an id is used up.
LEMMA NoSlotFine ==
  ASSUME PipesInv, ShellOpens, UNCHANGED <<pipes, sync, semId, leaked>>, shellPc' = "prompt"
  PROVE  Fine
<1>1. /\ shellPc = "pOpen" /\ pipeline' = pipeline + 1 /\ shellPipe' = shellPipe + 1
      /\ UNCHANGED <<inCall, lastRead, keys, getting, prog, pressed>>
      /\ leaked' \in Nat /\ commands' \in Command \X Command /\ shellPipe \in Nat /\ semId \in Nat
  BY OpenCases
<1>2. Control /\ SlotsApart /\ SlotsCounted
  BY DEF PipesInv, Control
<1>3. \A i \in Slot : InUse(i)' = InUse(i) /\ \A id \in Nat : Serves(i, id)' = Serves(i, id)
  BY DEF InUse, Serves, Whole
<1>4. SlotsApart'
  <2>1. \A i \in Slot : pipes[i].id \in FIRST_PIPE .. shellPipe - 1 => pipes[i].id \in FIRST_PIPE .. shellPipe' - 1
    BY <1>1, Bounds
  <2>2. \A i \in Slot : pipes[i].totalProcesses <= IF i < shellPipe' THEN 1 ELSE 0
    <3>1. ASSUME NEW i \in Slot PROVE pipes[i].totalProcesses <= IF i < shellPipe' THEN 1 ELSE 0
      <4>1. pipes[i].totalProcesses \in Int /\ i \in Nat
        BY <1>2 DEF SlotsApart, Pipe, Slot
      <4>2. pipes[i].totalProcesses <= IF i < shellPipe THEN 1 ELSE 0
        BY <1>2 DEF SlotsApart
      <4>. QED  BY <1>1, <4>1, <4>2
    <3>. QED  BY <3>1
  <2>. QED  BY <1>2, <1>3, <2>1, <2>2 DEF SlotsApart
<1>5. SlotsCounted'
  <2>1. ~ Working /\ ~ Working'
    BY <1>1 DEF Working
  <2>2. UsedSlots' = UsedSlots
    BY <1>3 DEF UsedSlots
  <2>. QED  BY <1>2, <2>1, <2>2 DEF SlotsCounted
<1>6. semId' \in semId .. semId + 2
  BY <1>1
<1>7. Control'
  BY <1>1, <1>2, <1>3, <1>4, <1>5, <1>6, OpenControl
<1>. QED  BY <1>1, <1>7, IdleFine, KeyLine

\* The slot of a new pipe.
LEMMA NewSlotFlows ==
  ASSUME PipesInv, NEW f \in Slot, NEW opened \in 0 .. 2, ~ InUse(f), UNCHANGED <<inCall, lastRead>>,
         Made(f, opened), Locked(opened), semId \in Nat, semId \in SyncId, semId + 1 \in SyncId
  PROVE  FlowsOn(f)' /\ Opened(f) /\ (Whole(f)' <=> opened = 2)
<1>1. /\ pipes' \in [Slot -> Pipe] /\ sync' \in Semaphores /\ InUse(f)'
      /\ pipes'[f].readIndex = 0 /\ pipes'[f].writeIndex = 0
      /\ pipes'[f].lockR = (IF opened > 0 THEN semId ELSE -1)
      /\ pipes'[f].lockW = (IF opened > 1 THEN semId + 1 ELSE pipes[f].lockW)
      /\ sync'[semId] = (IF opened > 0 THEN Fresh(0) ELSE NoSync)
      /\ sync'[semId + 1] = (IF opened > 1 THEN Fresh(BUFF_SIZE) ELSE NoSync)
  BY DEF Made, Locked, LockedIn, InUse
<1>2. Control /\ ~ Whole(f)
  BY DEF PipesInv, Whole
<1>3. Readers(f) = {} /\ Writers(f) = {}
  BY <1>2, NobodyElsewhere
<1>4. Readers(f)' = {} /\ Writers(f)' = {}
  BY <1>3 DEF Readers, Writers
<1>5. CASE opened = 2
  <2>1. pipes'[f].lockR = semId /\ pipes'[f].lockW = semId + 1
    BY <1>1, <1>5
  <2>2. sync'[semId] = Fresh(0) /\ sync'[semId + 1] = Fresh(BUFF_SIZE)
    BY <1>1, <1>5
  <2>3. PICK V, B, s : V = sync' /\ B = pipes' /\ s = semId
    OBVIOUS
  <2>4. /\ V[s] = Fresh(0) /\ V[s + 1] = Fresh(BUFF_SIZE) /\ V \in Semaphores
        /\ s \in SyncId /\ s + 1 \in SyncId /\ s # s + 1
        /\ B[f].lockR = s /\ B[f].lockW = s + 1 /\ B \in [Slot -> Pipe]
        /\ B[f].readIndex = 0 /\ B[f].writeIndex = 0
    BY <1>1, <2>1, <2>2, <2>3
  <2>5. BUFF_SIZE \in Nat \ {0} /\ NoSync \notin Semaphore
    BY Bounds, SyncAssumption
  <2>6. Fresh(0) # NoSync /\ Fresh(BUFF_SIZE) # NoSync
    <3>1. Fresh(0) \in Semaphore /\ Fresh(BUFF_SIZE) \in Semaphore
      BY <2>5, SyncAssumption DEF Fresh, Semaphore
    <3>. QED  BY <2>5, <3>1
  <2>7. V[s] \in Semaphore /\ V[s + 1] \in Semaphore
    BY <2>4, <2>6 DEF Semaphores
  <2>8. Members(V, s) = {} /\ Members(V, s + 1) = {}
    BY <2>4 DEF Members, Fresh, Range
  <2>9. Kept(V, s, {}) /\ Kept(V, s + 1, {})
    BY <2>4, <2>7, <2>8 DEF Kept, Fresh, Distinct
  <2>10. Held(V, s, {}) = 0 /\ Held(V, s + 1, {}) = BUFF_SIZE
    <3>1. Cardinality({} \ Members(V, s)) = 0 /\ Cardinality({} \ Members(V, s + 1)) = 0
      BY FS_EmptySet, <2>8
    <3>. QED  BY <2>4, <2>5, <3>1 DEF Held, Fresh
  <2>11. WritesBehind(B[f], 0)
    BY <2>4, <2>5 DEF WritesBehind, Place
  <2>12. SlotKeeps(B, V, f, {}, {}, 0)
    BY <2>4, <2>5, <2>9, <2>10, <2>11, FS_EmptySet DEF SlotKeeps
  <2>13. Inside(B, V, f, {}) = <<>>
    <3>1. 1 .. 0 = {}
      OBVIOUS
    <3>2. CharsIn(B[f], 0) = [j \in {} |-> B[f].buffer[Place(B[f].readIndex, j - 1)]]
      BY <3>1, Zenon DEF CharsIn
    <3>3. Inside(B, V, f, {}) = CharsIn(B[f], 0)
      BY <2>4, <2>10 DEF Inside
    <3>. QED  BY <3>2, <3>3
  <2>14. Whole(f)'
    <3>1. semId # -1
      OBVIOUS
    <3>. QED  BY <1>1, <2>1, <3>1 DEF Whole
  <2>15. FlowsOn(f)'
    BY <1>4, <2>3, <2>12, <2>14 DEF FlowsOn
  <2>16. Holds(f)' = <<>>
    BY <1>4, <2>3, <2>13, <2>14 DEF Holds
  <2>. QED  BY <1>1, <1>2, <1>5, <2>14, <2>15, <2>16 DEF Opened, Holds
<1>6. CASE opened # 2
  <2>1. ~ Whole(f)'
    <3>1. CASE opened = 0
      <4>1. pipes'[f].lockR = -1
        BY <1>1, <3>1
      <4>. QED  BY <4>1 DEF Whole
    <3>2. CASE opened = 1
      <4>1. pipes'[f].lockR = semId /\ pipes'[f].lockW = pipes[f].lockW
        BY <1>1, <3>2
      <4>2. pipes[f].lockW <= semId /\ pipes[f].lockW \in Int
        BY <1>2 DEF Control, SlotsApart, Pipe
      <4>3. pipes[f].lockW # semId + 1
        BY <4>2
      <4>. QED  BY <4>1, <4>3 DEF Whole
    <3>. QED  BY <1>6, <3>1, <3>2
  <2>2. pipes'[f].lockR # -1 => sync'[pipes'[f].lockR].value = 0
    <3>1. CASE opened = 0
      BY <1>1, <3>1
    <3>2. CASE opened = 1
      BY <1>1, <3>2 DEF Fresh
    <3>. QED  BY <1>6, <3>1, <3>2
  <2>3. FlowsOn(f)'
    BY <2>1, <2>2 DEF FlowsOn
  <2>4. Holds(f) = <<>> /\ Holds(f)' = <<>>
    BY <1>2, <2>1 DEF Holds
  <2>. QED  BY <1>1, <1>6, <2>1, <2>3, <2>4 DEF Opened
<1>. QED  BY <1>5, <1>6

\* The lines of the semaphores after newPipe.
LEMMA NewLines ==
  ASSUME PipesInv, NEW f \in Slot, NEW opened \in 0 .. 2, ~ InUse(f),
         UNCHANGED <<inCall, getting>>, Made(f, opened), Locked(opened),
         semId \in Nat, semId \in SyncId, semId + 1 \in SyncId,
         semId # KEY_SEM_ID, semId + 1 # KEY_SEM_ID,
         sync[semId] = NoSync, sync[semId + 1] = NoSync
  PROVE  LinesOK'
<1>1. /\ Control /\ TypesOK /\ LinesOK /\ SlotsApart /\ ~ Whole(f)
  BY DEF PipesInv, Control, Whole
<1>2. /\ sync' \in Semaphores /\ \A t \in SyncId \ {semId, semId + 1} : sync'[t] = sync[t]
      /\ sync'[semId] = (IF opened > 0 THEN Fresh(0) ELSE NoSync)
      /\ sync'[semId + 1] = (IF opened > 1 THEN Fresh(BUFF_SIZE) ELSE NoSync)
      /\ semId' = semId + (IF opened > 0 THEN 2 ELSE 1)
  BY DEF Made, Locked, LockedIn
<1>3. Readers(f) = {} /\ Writers(f) = {}
  BY <1>1, NobodyElsewhere
<1>4. sync'[KEY_SEM_ID] = sync[KEY_SEM_ID]
  BY <1>2, Bounds
<1>5. ASSUME NEW t \in PipeSems, t >= semId' PROVE sync'[t] = NoSync
  <2>1. t \in SyncId /\ t \in Int
    BY Bounds DEF PipeSems
  <2>2. CASE opened = 0
    <3>1. sync'[semId + 1] = NoSync /\ semId' = semId + 1
      BY <1>2, <2>2
    <3>2. t >= semId /\ t # semId
      BY <1>5, <2>1, <3>1
    <3>3. sync[t] = NoSync
      BY <1>1, <3>2 DEF LinesOK
    <3>. QED  BY <1>2, <2>1, <3>1, <3>2, <3>3
  <2>3. CASE opened # 0
    <3>1. semId' = semId + 2
      BY <1>2, <2>3
    <3>2. t >= semId /\ t # semId /\ t # semId + 1
      BY <1>5, <2>1, <3>1
    <3>3. sync[t] = NoSync
      BY <1>1, <3>2 DEF LinesOK
    <3>. QED  BY <1>2, <2>1, <3>2, <3>3
  <2>. QED  BY <2>2, <2>3
<1>6. ASSUME NEW t \in SyncId, sync'[t] # NoSync, NEW q \in Members(sync', t) PROVE InLine(q, t)'
  <2>1. t \notin {semId, semId + 1}
    <3>1. Members(sync', t) # {}
      BY <1>6
    <3>2. sync'[t] = Fresh(0) \/ sync'[t] = Fresh(BUFF_SIZE) => Members(sync', t) = {}
      BY DEF Members, Fresh, Range
    <3>. QED  BY <1>2, <1>6, <3>1, <3>2
  <2>2. sync[t] # NoSync /\ q \in Members(sync, t)
    BY <1>2, <1>6, <2>1 DEF Members
  <2>3. InLine(q, t)
    BY <1>1, <2>2 DEF LinesOK
  <2>4. q \in Process
    <3>1. sync[t] \in Semaphore
      BY <1>1, <2>2 DEF LinesOK, Semaphores
    <3>. QED  BY <2>2, <3>1 DEF Members, Semaphore, Range
  <2>5. CASE t = KEY_SEM_ID /\ q \in getting
    BY <2>5 DEF InLine
  <2>6. CASE inCall[q].op = "pRead" \/ inCall[q].op = "pWrite"
    <3>1. inCall[q] \in Call
      BY <1>1, <2>4 DEF TypesOK
    <3>2. inCall[q].slot \in Slot \ {f}
      BY <1>3, <2>4, <2>6, <3>1 DEF Readers, Writers, Call
    <3>3. PICK k \in Slot \ {f} : k = inCall[q].slot
      BY <3>2
    <3>4. pipes'[k].lockR = pipes[k].lockR /\ pipes'[k].lockW = pipes[k].lockW
      BY DEF Made, Alike
    <3>. QED  BY <2>3, <3>3, <3>4 DEF InLine
  <2>. QED  BY <2>3, <2>5, <2>6 DEF InLine
<1>. QED  BY <1>1, <1>2, <1>4, <1>5, <1>6 DEF LinesOK

\* The slots are apart after newPipe.
LEMMA NewSlotApart ==
  ASSUME PipesInv, NEW f \in Slot, NEW opened \in 0 .. 2, ~ InUse(f), Made(f, opened),
         shellPipe' = shellPipe + 1, shellPipe \in Nat, shellPipe >= FIRST_PIPE,
         semId \in Nat, semId >= FIRST_SEM
  PROVE  /\ SlotsApart'
         /\ \A j \in Slot \ {f} : /\ InUse(j)' = InUse(j)
                                  /\ \A id \in Nat : Serves(j, id)' = Serves(j, id)
<1>1. /\ SlotsApart /\ pipes \in [Slot -> Pipe] /\ FIRST_SEM \in Nat /\ FIRST_PIPE = 42
  BY Bounds DEF PipesInv, Control, SlotsApart
<1>2. /\ pipes' \in [Slot -> Pipe]
      /\ \A j \in Slot : pipes'[j].totalProcesses <= IF j < shellPipe' THEN 1 ELSE 0
      /\ pipes'[f].state = "IN_USE" /\ pipes'[f].id = shellPipe
      /\ pipes'[f].lockR = (IF opened > 0 THEN semId ELSE -1)
      /\ pipes'[f].lockW = (IF opened > 1 THEN semId + 1 ELSE pipes[f].lockW)
      /\ semId' = semId + (IF opened > 0 THEN 2 ELSE 1)
  BY DEF Made
<1>3. \A j \in Slot \ {f} : /\ pipes'[j].state = pipes[j].state /\ pipes'[j].id = pipes[j].id
                            /\ pipes'[j].lockR = pipes[j].lockR /\ pipes'[j].lockW = pipes[j].lockW
  BY DEF Made, Alike
<1>4. \A j \in Slot \ {f} : /\ InUse(j)' = InUse(j)
                            /\ \A id \in Nat : Serves(j, id)' = Serves(j, id)
  BY <1>3 DEF InUse, Whole, Serves
<1>5. \A j \in Slot : /\ pipes[j].lockW \in Int /\ pipes[j].lockR \in Int /\ pipes[j].id \in Nat
                      /\ pipes'[j].lockR \in Int
  BY <1>1, <1>2 DEF Pipe
<1>6. semId' \in Nat /\ semId' >= semId /\ (opened > 0 => semId' = semId + 2)
  BY <1>2
<1>7. \A j \in Slot : pipes'[j].lockW <= semId'
  <2>1. ASSUME NEW j \in Slot PROVE pipes'[j].lockW <= semId'
    <3>1. pipes[j].lockW <= semId
      BY <1>1 DEF SlotsApart
    <3>2. pipes'[j].lockW = pipes[j].lockW \/ (pipes'[j].lockW = semId + 1 /\ opened > 0)
      BY <1>2, <1>3
    <3>. QED  BY <1>5, <1>6, <3>1, <3>2
  <2>. QED  BY <2>1
<1>8. \A j \in Slot : InUse(j)' => \/ j = f
                                   \/ InUse(j) /\ j # f
  BY <1>4
<1>9. \A j \in Slot \ {f} : InUse(j) => /\ pipes'[j].id \in FIRST_PIPE .. shellPipe - 1
                                        /\ pipes'[j].lockR \in {-1} \cup FIRST_SEM .. semId - 2
  BY <1>1, <1>3 DEF SlotsApart
<1>10. pipes'[f].lockR \in {-1, semId} /\ (pipes'[f].lockR = semId => semId' = semId + 2)
  BY <1>2, <1>6
<1>11. \A j \in Slot : InUse(j)' => /\ pipes'[j].id \in FIRST_PIPE .. shellPipe' - 1
                                    /\ pipes'[j].lockR \in {-1} \cup FIRST_SEM .. semId' - 2
  <2>1. ASSUME NEW j \in Slot, InUse(j)'
        PROVE  /\ pipes'[j].id \in FIRST_PIPE .. shellPipe' - 1
               /\ pipes'[j].lockR \in {-1} \cup FIRST_SEM .. semId' - 2
    <3>1. CASE j = f
      BY <1>1, <1>2, <1>6, <1>10, <3>1
    <3>2. CASE j # f
      BY <1>1, <1>6, <1>8, <1>9, <2>1, <3>2
    <3>. QED  BY <3>1, <3>2
  <2>. QED  BY <2>1
<1>12. \A i, j \in Slot : InUse(i)' /\ InUse(j)' /\ pipes'[i].id = pipes'[j].id => i = j
  <2>1. \A j \in Slot \ {f} : InUse(j) => pipes'[j].id # pipes'[f].id
    BY <1>2, <1>9
  <2>2. \A i, j \in Slot \ {f} : InUse(i) /\ InUse(j) /\ pipes'[i].id = pipes'[j].id => i = j
    BY <1>1, <1>3 DEF SlotsApart
  <2>. QED  BY <1>8, <2>1, <2>2
<1>13. \A i, j \in Slot : InUse(i)' /\ InUse(j)' /\ i # j /\ pipes'[i].lockR # -1 =>
         pipes'[i].lockR # pipes'[j].lockR /\ pipes'[i].lockR + 1 # pipes'[j].lockR
  <2>1. ASSUME NEW j \in Slot \ {f}, InUse(j)
        PROVE  /\ pipes'[f].lockR # -1 => /\ pipes'[f].lockR # pipes'[j].lockR
                                          /\ pipes'[f].lockR + 1 # pipes'[j].lockR
               /\ pipes'[j].lockR # -1 => /\ pipes'[j].lockR # pipes'[f].lockR
                                          /\ pipes'[j].lockR + 1 # pipes'[f].lockR
    <3>1. pipes'[j].lockR \in {-1} \cup FIRST_SEM .. semId - 2
      BY <1>9, <2>1
    <3>2. PICK a, b : a = pipes'[f].lockR /\ b = pipes'[j].lockR
      OBVIOUS
    <3>3. a \in {-1, semId} /\ b \in {-1} \cup FIRST_SEM .. semId - 2
      BY <1>10, <3>1, <3>2
    <3>4. (a # -1 => a # b /\ a + 1 # b) /\ (b # -1 => b # a /\ b + 1 # a)
      BY <1>1, <3>3
    <3>. QED  BY <3>2, <3>4
  <2>2. \A i, j \in Slot \ {f} : InUse(i) /\ InUse(j) /\ i # j /\ pipes'[i].lockR # -1 =>
          pipes'[i].lockR # pipes'[j].lockR /\ pipes'[i].lockR + 1 # pipes'[j].lockR
    BY <1>1, <1>3 DEF SlotsApart
  <2>3. ASSUME NEW i \in Slot, NEW j \in Slot, InUse(i)', InUse(j)', i # j, pipes'[i].lockR # -1
        PROVE  pipes'[i].lockR # pipes'[j].lockR /\ pipes'[i].lockR + 1 # pipes'[j].lockR
    <3>1. CASE i = f
      BY <1>8, <2>1, <2>3, <3>1
    <3>2. CASE j = f
      BY <1>8, <2>1, <2>3, <3>2
    <3>3. CASE i # f /\ j # f
      BY <1>8, <2>2, <2>3, <3>3
    <3>. QED  BY <3>1, <3>2, <3>3
  <2>. QED  BY <2>3
<1>14. SlotsApart'
  BY <1>2, <1>7, <1>11, <1>12, <1>13 DEF SlotsApart
<1>. QED  BY <1>4, <1>14

\* The other slots stay as they were.
LEMMA NewSlotOthers ==
  ASSUME PipesInv, NEW f \in Slot, NEW opened \in 0 .. 2, Made(f, opened), Locked(opened),
         UNCHANGED <<inCall, lastRead>>, NEW j \in Slot, j # f
  PROVE  Keeps(j) /\ FlowsOn(j)'
<1>1. Control /\ semId \in Nat
  <2>1. FIRST_SEM \in Nat /\ pipeline \in Nat /\ semId \in FIRST_SEM .. FIRST_SEM + 2 * pipeline
    BY Bounds DEF PipesInv, Control, TypesOK
  <2>. QED  BY <2>1 DEF PipesInv
<1>2. InUse(j) /\ pipes[j].lockR # -1 => /\ sync'[pipes[j].lockR] = sync[pipes[j].lockR]
                                         /\ sync'[pipes[j].lockR + 1] = sync[pipes[j].lockR + 1]
  <2>. SUFFICES ASSUME InUse(j), pipes[j].lockR # -1
                PROVE  /\ sync'[pipes[j].lockR] = sync[pipes[j].lockR]
                       /\ sync'[pipes[j].lockR + 1] = sync[pipes[j].lockR + 1]
    OBVIOUS
  <2>1. /\ pipes[j].lockR \in SyncId /\ pipes[j].lockR + 1 \in SyncId
        /\ pipes[j].lockR + 1 < semId /\ pipes[j].lockR \in Nat
    BY <1>1, LocksAre
  <2>2. pipes[j].lockR \notin {semId, semId + 1} /\ pipes[j].lockR + 1 \notin {semId, semId + 1}
    <3>. DEFINE r == pipes[j].lockR
    <3>. HIDE DEF r
    <3>1. r + 1 < semId /\ r \in Nat
      BY <2>1 DEF r
    <3>2. r \notin {semId, semId + 1} /\ r + 1 \notin {semId, semId + 1}
      BY <1>1, <3>1
    <3>. QED  BY <3>2 DEF r
  <2>. QED  BY <2>1, <2>2 DEF Locked, LockedIn
<1>3. Alike(pipes[j], pipes'[j]) /\ pipes' \in [Slot -> Pipe] /\ sync' \in Semaphores
  BY DEF Made, Locked, LockedIn
<1>. QED  BY <1>2, <1>3, SlotUntouched

\* A slot is opened for the shell, or left behind.
LEMMA NewSlotFine ==
  ASSUME PipesInv, ShellOpens, NEW f \in Slot, NEW opened \in 0 .. 2, pipes[f].state = "EMPTY",
         newPipe(f, shellPipe, opened),
         IF opened = 2 THEN shellPc' = "right" /\ commands' = commands /\ leaked' = leaked
                       ELSE shellPc' = "prompt" /\ leaked' = leaked + 1
  PROVE  Fine
<1>1. /\ shellPc = "pOpen" /\ pipeline' = pipeline + 1 /\ shellPipe' = shellPipe + 1
      /\ UNCHANGED <<inCall, lastRead, keys, getting, prog, pressed>>
      /\ leaked' \in Nat /\ commands' \in Command \X Command
      /\ pipeline < MaxPipelines /\ shellPipe \in Nat /\ semId \in Nat
  BY OpenCases
<1>2. /\ Control /\ TypesOK /\ LinesOK /\ SlotsApart /\ SlotsCounted /\ leaked \in Nat
      /\ pipes \in [Slot -> Pipe] /\ ~ InUse(f)
  BY DEF PipesInv, Control, TypesOK, SlotsApart, InUse
<1>3. Made(f, opened) /\ Locked(opened)
  BY <1>1, NewPipeMakes, NewPipeLocks
<1>4. /\ semId \in SyncId /\ semId + 1 \in SyncId /\ semId >= FIRST_SEM
      /\ semId # KEY_SEM_ID /\ semId + 1 # KEY_SEM_ID
      /\ sync[semId] = NoSync /\ sync[semId + 1] = NoSync
  BY <1>1, LocksAreFree
<1>5. shellPipe >= FIRST_PIPE
  BY <1>2, Bounds DEF TypesOK
<1>6. FlowsOn(f)' /\ Opened(f) /\ (Whole(f)' <=> opened = 2)
  BY <1>1, <1>2, <1>3, <1>4, NewSlotFlows
<1>7. /\ SlotsApart'
      /\ \A j \in Slot \ {f} : /\ InUse(j)' = InUse(j)
                               /\ \A id \in Nat : Serves(j, id)' = Serves(j, id)
  BY <1>1, <1>2, <1>3, <1>4, <1>5, NewSlotApart
<1>8. InUse(f)' /\ pipes'[f].id = shellPipe
  BY <1>3 DEF Made, InUse
<1>9. SlotsCounted'
  <2>1. UsedSlots' = UsedSlots \cup {f} /\ f \notin UsedSlots
    BY <1>2, <1>7, <1>8 DEF UsedSlots
  <2>2. IsFiniteSet(UsedSlots)
    BY Bounds, FS_Subset DEF UsedSlots
  <2>3. Cardinality(UsedSlots') = Cardinality(UsedSlots) + 1
    BY <2>1, <2>2, OneMore
  <2>4. Cardinality(UsedSlots) = leaked
    <3>1. ~ Working
      BY <1>1 DEF Working
    <3>. QED  BY <1>2, <3>1 DEF SlotsCounted
  <2>5. leaked' + (IF Working' THEN 1 ELSE 0) = leaked + 1
    <3>1. CASE opened = 2
      <4>1. Working'
        BY <3>1 DEF Working
      <4>. QED  BY <1>2, <3>1, <4>1
    <3>2. CASE opened # 2
      <4>1. shellPc' = "prompt"
        BY <3>2
      <4>2. ~ Working'
        BY <4>1 DEF Working
      <4>. QED  BY <1>2, <3>2, <4>2
    <3>. QED  BY <3>1, <3>2
  <2>. QED  BY <2>3, <2>4, <2>5 DEF SlotsCounted
<1>10. Control'
  <2>1. semId' \in semId .. semId + 2
    BY <1>1, <1>3 DEF Made
  <2>2. shellPc' = "prompt" \/ (shellPc' = "right" /\ commands' = commands
                                 /\ \E i \in Slot : Whole(i)' /\ pipes'[i].id = shellPipe)
    BY <1>6, <1>8
  <2>3. \A i \in Slot : \A id \in Nat : Serves(i, id) => Serves(i, id)'
    <3>1. \A id : ~ Serves(f, id)
      BY <1>2 DEF Serves, Whole
    <3>. QED  BY <1>7, <3>1
  <2>. QED  BY <1>1, <1>2, <1>7, <1>9, <2>1, <2>2, <2>3, OpenControl
<1>11. LinesOK'
  BY <1>1, <1>2, <1>3, <1>4, NewLines
<1>12. \A j \in Slot \ {f} : Keeps(j) /\ FlowsOn(j)'
  BY <1>1, <1>3, NewSlotOthers
<1>13. SlotsFlow'
  <2>1. \A j \in Slot : FlowsOn(j)'
    BY <1>6, <1>12
  <2>. QED  BY <2>1 DEF SlotsFlow, FlowsOn
<1>14. LastOK'
  BY <1>1 DEF PipesInv, LastOK
<1>15. PipesInv'
  BY <1>10, <1>11, <1>13, <1>14 DEF PipesInv
<1>. QED  BY <1>6, <1>12, <1>15 DEF Fine, Streams

\* The shell opens its pipe.
LEMMA OpensFine == PipesInv /\ ShellOpens => Fine
<1>. SUFFICES ASSUME PipesInv, ShellOpens PROVE Fine
  OBVIOUS
<1>1. \/ /\ UNCHANGED <<pipes, sync, semId, leaked>> /\ shellPc' = "prompt"
      \/ \E f \in Slot, opened \in 0 .. 2 :
           /\ pipes[f].state = "EMPTY" /\ newPipe(f, shellPipe, opened)
           /\ IF opened = 2 THEN shellPc' = "right" /\ commands' = commands /\ leaked' = leaked
                            ELSE shellPc' = "prompt" /\ leaked' = leaked + 1
  BY OpenCases
<1>2. CASE UNCHANGED <<pipes, sync, semId, leaked>> /\ shellPc' = "prompt"
  BY <1>2, NoSlotFine
<1>3. ASSUME NEW f \in Slot, NEW opened \in 0 .. 2,
             pipes[f].state = "EMPTY", newPipe(f, shellPipe, opened),
             IF opened = 2 THEN shellPc' = "right" /\ commands' = commands /\ leaked' = leaked
                           ELSE shellPc' = "prompt" /\ leaked' = leaked + 1
      PROVE  Fine
  BY <1>3, NewSlotFine
<1>. QED  BY <1>1, <1>2, <1>3

-----------------------------------------------------------------------------
(***************************************************************************)
(* All together.                                                           *)
(***************************************************************************)
\* Every step of the system is fine.
LEMMA EveryStepFine == PipesInv /\ [PipelineNext]_allPipelineVars => Fine
<1>. SUFFICES ASSUME PipesInv, [PipelineNext]_allPipelineVars PROVE Fine
  OBVIOUS
<1>1. CASE UNCHANGED allPipelineVars
  <2>1. UNCHANGED <<sync, pipes, semId, inCall, lastRead, keys, getting, shellPc, pipeline,
                    shellPipe, commands, prog, pressed, leaked>>
    BY <1>1 DEF allPipelineVars, keyboardVars, pipesVars, pipelineVars
  <2>2. TypesOK' = TypesOK /\ SlotsApart' = SlotsApart /\ KeysCounted' = KeysCounted
    BY <2>1 DEF TypesOK, SlotsApart, InUse, KeysCounted, LinesCounted, Alive
  <2>3. ProgramsServed' = ProgramsServed /\ ShellKnows' = ShellKnows
    BY <2>1 DEF ProgramsServed, ShellKnows, Working, Serves, Whole, InUse, OurPipe, Alive
  <2>4. CallsServed' = CallsServed
    BY <2>1 DEF CallsServed, CallOK, Serves, Whole, InUse, OurPipe
  <2>5. SlotsCounted' = SlotsCounted
    BY <2>1 DEF SlotsCounted, UsedSlots, Working, InUse
  <2>6. Control'
    BY <2>2, <2>3, <2>4, <2>5 DEF PipesInv, Control
  <2>. QED  BY <2>1, <2>6, IdleFine, KeyLine
<1>2. ASSUME NEW c \in Keystrokes, Type(c) PROVE Fine
  BY <1>2, TypeFine
<1>3. ASSUME NEW p \in Program, Interrupts(p) PROVE Fine
  BY <1>3, InterruptsFine
<1>4. ASSUME NEW p \in Program, Runs(p) PROVE Fine
  BY <1>4, LeftReadsFine, RightReadsFine, RightWakesFine, LeftWritesFine, LeftGoesOnFine,
     RightWritesFine DEF Runs
<1>5. CASE ShellRuns
  BY <1>5, ShellReadsFine, OpensFine, CreatesRightFine, CreatesLeftFine, WritesEofFine,
     ShellGoesOnFine, WaitsFine, ClosesFine DEF ShellRuns
<1>. QED  BY <1>1, <1>2, <1>3, <1>4, <1>5 DEF PipelineNext

\* A slot that is fine makes a step of the stream, or none.
LEMMA SlotStreams ==
  ASSUME Streams, ContentsHeld, ContentsHeld', NEW i \in Slot
  PROVE  PipeStream(i)!StreamNext \/ UNCHANGED PipeStream(i)!streamVars
<1>1. Contents(i) = Holds(i) /\ Contents(i)' = Holds(i)'
  BY DEF ContentsHeld
<1>2. (pipes[i].state = "IN_USE") = InUse(i) /\ (pipes'[i].state = "IN_USE") = InUse(i)'
  BY DEF InUse
<1>3. CASE Keeps(i)
  <2>1. UNCHANGED PipeStream(i)!streamVars
    BY <1>1, <1>2, <1>3 DEF Keeps, PipeStream!streamVars
  <2>. QED  BY <2>1
<1>4. CASE Opened(i)
  <2>1. PipeStream(i)!Open
    BY <1>1, <1>2, <1>4 DEF Opened, PipeStream!Open
  <2>. QED  BY <2>1 DEF PipeStream!StreamNext
<1>5. CASE Closed(i)
  <2>1. PipeStream(i)!Close
    BY <1>1, <1>2, <1>5 DEF Closed, PipeStream!Close
  <2>. QED  BY <2>1 DEF PipeStream!StreamNext
<1>6. CASE Takes(i)
  <2>1. PipeStream(i)!Take
    BY <1>1, <1>2, <1>6 DEF Takes, PipeStream!Take
  <2>. QED  BY <2>1 DEF PipeStream!StreamNext
<1>7. CASE Puts(i)
  <2>1. PICK s \in Seq(PipeChar) : Holds(i)' = Holds(i) \o s
    BY <1>7 DEF Puts
  <2>2. /\ InUse(i) /\ InUse(i)' /\ lastRead'[i] = lastRead[i]
        /\ Holds(i) \in Seq(PipeChar) /\ Len(Holds(i)') <= BUFF_SIZE
    BY <1>7 DEF Puts
  <2>3. PICK h, k : h = Holds(i) /\ k = Holds(i)'
    OBVIOUS
  <2>4. h \in Seq(PipeChar) /\ k = h \o s /\ Len(k) <= BUFF_SIZE
    BY <2>1, <2>2, <2>3
  <2>5. CASE s = <<>>
    <3>1. k = h
      BY <2>4, <2>5
    <3>2. UNCHANGED PipeStream(i)!streamVars
      BY <1>1, <1>2, <2>2, <2>3, <3>1 DEF PipeStream!streamVars
    <3>. QED  BY <3>2
  <2>6. CASE s # <<>>
    <3>1. k \in Seq(PipeChar) /\ Len(h) < Len(k)
      BY <2>4, <2>6
    <3>2. SubSeq(k, 1, Len(h)) = h
      BY <2>4
    <3>3. PipeStream(i)!Put
      BY <1>1, <1>2, <2>2, <2>3, <2>4, <3>1, <3>2 DEF PipeStream!Put
    <3>. QED  BY <3>3 DEF PipeStream!StreamNext
  <2>. QED  BY <2>5, <2>6
<1>. QED  BY <1>3, <1>4, <1>5, <1>6, <1>7 DEF Streams

\* The invariant holds always.
LEMMA PipesInvHolds == PipelineSpec => []PipesInv
<1>1. PipelineInit => PipesInv
  BY InitPipesInv
<1>2. PipesInv /\ [PipelineNext]_allPipelineVars => PipesInv'
  BY EveryStepFine DEF Fine
<1>. QED  BY <1>1, <1>2, PTL DEF PipelineSpec

\* A pipe is open as long as a program of its pipeline lives, whoever is killed and
\* whatever sleeps, and at the prompt only the slots of failed runPipes are in use.
THEOREM PipelineKeepsSlots == PipelineSpec => []SlotOutlivesUsers
<1>1. PipesInv => SlotOutlivesUsers
  BY ControlGivesSlots DEF PipesInv
<1>. QED  BY <1>1, PipesInvHolds, PTL

\* Each slot is a stream: through any interleaving of readers, writers, wake-ups and
\* ctrl-C, what was written to it leaves it once and in order, and no write finds it full.
THEOREM PipelineStreams == PipelineSpec => PipesAreStreams
<1>1. PipesInv /\ PipesInv' /\ [PipelineNext]_allPipelineVars
        => [\A i \in Slot : \/ PipeStream(i)!StreamNext
                            \/ UNCHANGED PipeStream(i)!streamVars]_allPipelineVars
  <2>. SUFFICES ASSUME PipesInv, PipesInv', [PipelineNext]_allPipelineVars, NEW i \in Slot
                PROVE  PipeStream(i)!StreamNext \/ UNCHANGED PipeStream(i)!streamVars
    OBVIOUS
  <2>1. Streams
    BY EveryStepFine DEF Fine
  <2>2. ContentsHeld /\ ContentsHeld'
    BY ContentsAre, ContentsAreNext
  <2>. QED  BY <2>1, <2>2, SlotStreams
<1>. QED  BY <1>1, PipesInvHolds, PTL DEF PipelineSpec, PipesAreStreams

-----------------------------------------------------------------------------
(***************************************************************************)
(* What Without and Lines do.                                              *)
(***************************************************************************)
\* What is left of s after each of its first m elements.
Leaves(f, s, m, T) ==
  f = [n \in 0 .. m |-> IF n = 0 THEN <<>>
                             ELSE IF s[n] \in T THEN f[n - 1] ELSE Append(f[n - 1], s[n])]

\* One step of it.
Left1(u, x, T) == IF x \in T THEN u ELSE Append(u, x)

\* The same, element by element.
LEMMA LeavesSteps ==
  ASSUME NEW s, NEW m \in Nat, NEW T, NEW f, Leaves(f, s, m, T)
  PROVE  /\ f[0] = <<>>
         /\ \A n \in Nat : n < m => f[n + 1] = Left1(f[n], s[n + 1], T)
<1>. DEFINE g == [n \in 0 .. m |-> IF n = 0 THEN <<>>
                             ELSE IF s[n] \in T THEN f[n - 1] ELSE Append(f[n - 1], s[n])]
<1>1. f = g
  BY Zenon DEF Leaves
<1>2. g[0] = <<>>
  OBVIOUS
<1>3. ASSUME NEW n \in Nat, n < m PROVE g[n + 1] = Left1(f[n], s[n + 1], T)
  <2>1. n + 1 \in 0 .. m /\ n + 1 # 0 /\ (n + 1) - 1 = n
    BY <1>3
  <2>. QED  BY <2>1 DEF Left1
<1>. HIDE DEF g
<1>. QED  BY <1>1, <1>2, <1>3

\* There is such a function.
LEMMA LeavesExist ==
  ASSUME NEW s, NEW m \in Nat, NEW T
  PROVE  \E f : Leaves(f, s, m, T)
<1>. DEFINE N == {n \in Nat : \E f : Leaves(f, s, n, T)}
<1>1. 0 \in N
  <2>. DEFINE f == [k \in 0 .. 0 |-> <<>>]
  <2>1. \A k \in 0 .. 0 : k = 0
    OBVIOUS
  <2>2. Leaves(f, s, 0, T)
    BY <2>1 DEF Leaves
  <2>. QED  BY <2>2
<1>2. ASSUME NEW n \in Nat, n \in N PROVE n + 1 \in N
  <2>1. PICK f : Leaves(f, s, n, T)
    BY <1>2
  <2>2. \A k \in 0 .. n : f[k] = IF k = 0 THEN <<>>
                                 ELSE IF s[k] \in T THEN f[k - 1] ELSE Append(f[k - 1], s[k])
    <3>. DEFINE g == [k \in 0 .. n |-> IF k = 0 THEN <<>>
                             ELSE IF s[k] \in T THEN f[k - 1] ELSE Append(f[k - 1], s[k])]
    <3>1. f = g
      BY <2>1, Zenon DEF Leaves
    <3>2. \A k \in 0 .. n : g[k] = IF k = 0 THEN <<>>
                                   ELSE IF s[k] \in T THEN f[k - 1] ELSE Append(f[k - 1], s[k])
      OBVIOUS
    <3>. QED  BY <3>1, <3>2, Zenon
  <2>. DEFINE h == [k \in 0 .. n + 1 |-> IF k = n + 1 THEN Left1(f[n], s[n + 1], T) ELSE f[k]]
  <2>3. ASSUME NEW k \in 0 .. n + 1
        PROVE  h[k] = IF k = 0 THEN <<>>
                      ELSE IF s[k] \in T THEN h[k - 1] ELSE Append(h[k - 1], s[k])
    <3>1. CASE k = n + 1
      <4>1. k # 0 /\ k - 1 = n /\ h[k] = Left1(f[n], s[n + 1], T) /\ n \in 0 .. n + 1 /\ n # n + 1
        BY <3>1
      <4>2. h[n] = f[n]
        BY <4>1
      <4>. QED  BY <3>1, <4>1, <4>2 DEF Left1
    <3>2. CASE k # n + 1
      <4>1. k \in 0 .. n /\ h[k] = f[k]
        BY <3>2
      <4>2. k # 0 => k - 1 \in 0 .. n + 1 /\ k - 1 # n + 1
        BY <4>1
      <4>3. k # 0 => h[k - 1] = f[k - 1]
        BY <4>2
      <4>. QED  BY <2>2, <4>1, <4>3
    <3>. QED  BY <3>1, <3>2
  <2>4. h = [k \in 0 .. n + 1 |-> h[k]]
    OBVIOUS
  <2>. HIDE DEF h
  <2>5. h = [k \in 0 .. n + 1 |-> IF k = 0 THEN <<>>
                             ELSE IF s[k] \in T THEN h[k - 1] ELSE Append(h[k - 1], s[k])]
    BY <2>3, <2>4
  <2>6. Leaves(h, s, n + 1, T)
    BY <2>5, Zenon DEF Leaves
  <2>. QED  BY <2>6
<1>. HIDE DEF N
<1>3. m \in N
  BY <1>1, <1>2, NatSetInduction
<1>. QED  BY <1>3 DEF N

\* Two sequences with the same first m elements leave the same.
LEMMA LeavesAlike ==
  ASSUME NEW s, NEW t, NEW T, NEW m \in Nat, NEW k \in Nat, NEW l \in Nat, m <= k, m <= l,
         \A n \in 1 .. m : s[n] = t[n],
         NEW f, Leaves(f, s, k, T), NEW g, Leaves(g, t, l, T)
  PROVE  f[m] = g[m]
<1>. DEFINE N == {n \in Nat : n <= m => f[n] = g[n]}
<1>1. 0 \in N
  <2>1. f[0] = <<>>
    BY LeavesSteps
  <2>2. g[0] = <<>>
    BY LeavesSteps
  <2>. QED  BY <2>1, <2>2
<1>2. ASSUME NEW n \in Nat, n \in N PROVE n + 1 \in N
  <2>. SUFFICES ASSUME n + 1 <= m PROVE f[n + 1] = g[n + 1]
    OBVIOUS
  <2>1. f[n] = g[n] /\ n < k /\ n < l /\ s[n + 1] = t[n + 1]
    BY <1>2
  <2>2. f[n + 1] = Left1(f[n], s[n + 1], T)
    BY <2>1, LeavesSteps
  <2>3. g[n + 1] = Left1(g[n], t[n + 1], T)
    BY <2>1, LeavesSteps
  <2>. QED  BY <2>1, <2>2, <2>3
<1>. HIDE DEF N
<1>3. m \in N
  BY <1>1, <1>2, NatSetInduction
<1>. QED  BY <1>3 DEF N

\* What Without answers.
LEMMA WithoutIsLast ==
  ASSUME NEW S, NEW s \in Seq(S), NEW T
  PROVE  \E f : Leaves(f, s, Len(s), T) /\ Without(s, T) = f[Len(s)]
<1>. DEFINE f == CHOOSE f : Leaves(f, s, Len(s), T)
<1>1. Leaves(f, s, Len(s), T)
  <2>1. PICK m \in Nat : m = Len(s)
    OBVIOUS
  <2>2. \E g : Leaves(g, s, m, T)
    BY LeavesExist
  <2>. QED  BY <2>1, <2>2
<1>2. Without(s, T) = f[Len(s)]
  BY DEF Without, Leaves
<1>. QED  BY <1>1, <1>2

\* Nothing is left of nothing.
LEMMA WithoutEmpty == ASSUME NEW T PROVE Without(<<>>, T) = <<>>
<1>1. <<>> \in Seq({}) /\ Len(<<>>) = 0
  OBVIOUS
<1>2. PICK f : Leaves(f, <<>>, 0, T) /\ Without(<<>>, T) = f[0]
  BY <1>1, WithoutIsLast
<1>. QED  BY <1>2, LeavesSteps

\* The last element is kept or left out.
LEMMA WithoutAppend ==
  ASSUME NEW S, NEW s \in Seq(S), NEW x \in S, NEW T
  PROVE  Without(Append(s, x), T) = IF x \in T THEN Without(s, T) ELSE Append(Without(s, T), x)
<1>1. PICK m \in Nat : m = Len(s)
  OBVIOUS
<1>2. PICK t \in Seq(S) : t = Append(s, x)
  BY AppendProperties
<1>3. Len(t) = m + 1 /\ t[m + 1] = x /\ \A n \in 1 .. m : t[n] = s[n]
  BY <1>1, <1>2, AppendProperties
<1>4. PICK f : Leaves(f, s, m, T) /\ Without(s, T) = f[m]
  BY <1>1, WithoutIsLast
<1>5. PICK g : Leaves(g, t, m + 1, T) /\ Without(t, T) = g[m + 1]
  BY <1>3, WithoutIsLast
<1>6. f[m] = g[m]
  <2>1. m <= m /\ m <= m + 1 /\ m + 1 \in Nat /\ \A n \in 1 .. m : s[n] = t[n]
    BY <1>3
  <2>. QED  BY <1>4, <1>5, <2>1, LeavesAlike
<1>7. g[m + 1] = Left1(g[m], t[m + 1], T)
  <2>1. PICK k \in Nat : k = m + 1 /\ m < k
    OBVIOUS
  <2>2. g[m + 1] = Left1(g[m], t[m + 1], T)
    BY <1>5, <2>1, LeavesSteps
  <2>. QED  BY <2>2
<1>. QED  BY <1>2, <1>3, <1>4, <1>5, <1>6, <1>7 DEF Left1

\* What is left is made of the others.
LEMMA WithoutSeq ==
  ASSUME NEW S, NEW s \in Seq(S), NEW T
  PROVE  Without(s, T) \in Seq(S \ T)
<1>. DEFINE Q == {t \in Seq(S) : Without(t, T) \in Seq(S \ T)}
<1>1. <<>> \in Q
  <2>1. <<>> \in Seq(S) /\ <<>> \in Seq(S \ T)
    OBVIOUS
  <2>2. Without(<<>>, T) = <<>>
    BY WithoutEmpty
  <2>. QED  BY <2>1, <2>2
<1>2. ASSUME NEW t \in Seq(S), NEW x \in S, t \in Q PROVE Append(t, x) \in Q
  <2>1. Without(Append(t, x), T) = IF x \in T THEN Without(t, T) ELSE Append(Without(t, T), x)
    BY WithoutAppend
  <2>2. Without(t, T) \in Seq(S \ T)
    BY <1>2
  <2>3. x \notin T => Append(Without(t, T), x) \in Seq(S \ T)
    BY <2>2
  <2>4. Append(t, x) \in Seq(S)
    OBVIOUS
  <2>. QED  BY <2>1, <2>2, <2>3, <2>4
<1>3. Seq(S) \subseteq Q
  <2>. HIDE DEF Q
  <2>. QED  BY <1>1, <1>2, SequenceInduction
<1>. QED  BY <1>3

\* What is left of two sequences, one after the other.
LEMMA WithoutConcat ==
  ASSUME NEW S, NEW s \in Seq(S), NEW t \in Seq(S), NEW T
  PROVE  Without(s \o t, T) = Without(s, T) \o Without(t, T)
<1>. DEFINE Q == {u \in Seq(S) : Without(s \o u, T) = Without(s, T) \o Without(u, T)}
<1>1. <<>> \in Q
  <2>1. s \o <<>> = s /\ Without(s, T) \in Seq(S \ T)
    BY WithoutSeq
  <2>2. Without(s, T) \o <<>> = Without(s, T)
    BY <2>1
  <2>. QED  BY <2>1, <2>2, WithoutEmpty
<1>2. ASSUME NEW u \in Seq(S), NEW x \in S, u \in Q PROVE Append(u, x) \in Q
  <2>. DEFINE a == Without(s, T)  b == Without(u, T)
  <2>1. a \in Seq(S \ T) /\ b \in Seq(S \ T)
    BY WithoutSeq
  <2>2. s \o Append(u, x) = Append(s \o u, x) /\ s \o u \in Seq(S) /\ Append(u, x) \in Seq(S)
    BY AppendConcat DEF AppendsToBoth
  <2>3. Without(Append(s \o u, x), T) = IF x \in T THEN Without(s \o u, T) ELSE Append(Without(s \o u, T), x)
    BY <2>2, WithoutAppend
  <2>4. Without(Append(u, x), T) = IF x \in T THEN b ELSE Append(b, x)
    BY WithoutAppend
  <2>5. Without(s \o u, T) = a \o b
    BY <1>2
  <2>. HIDE DEF a, b
  <2>6. x \notin T => Append(a \o b, x) = a \o Append(b, x)
    <3>1. PICK R : R = S \ T
      OBVIOUS
    <3>2. a \in Seq(R) /\ b \in Seq(R) /\ (x \notin T => x \in R)
      BY <2>1, <3>1
    <3>3. x \notin T => AppendsToBoth(a, b, x)
      BY <3>2, AppendConcat
    <3>. QED  BY <3>3 DEF AppendsToBoth
  <2>7. Without(s \o Append(u, x), T) = a \o Without(Append(u, x), T)
    BY <2>2, <2>3, <2>4, <2>5, <2>6
  <2>. QED  BY <2>2, <2>7 DEF a
<1>3. Seq(S) \subseteq Q
  <2>. HIDE DEF Q
  <2>. QED  BY <1>1, <1>2, SequenceInduction
<1>. QED  BY <1>3

\* A newline makes one line more.
LEMMA LinesAppend ==
  ASSUME NEW S, NEW s \in Seq(S), NEW x \in S
  PROVE  Lines(s) \in Nat /\ Lines(Append(s, x)) = IF x = "newline" THEN Lines(s) + 1 ELSE Lines(s)
<1>. DEFINE L == {n \in DOMAIN s : s[n] = "newline"}
            M == {n \in DOMAIN Append(s, x) : Append(s, x)[n] = "newline"}
<1>1. PICK m \in Nat : m = Len(s)
  OBVIOUS
<1>2. /\ DOMAIN s = 1 .. m /\ DOMAIN Append(s, x) = 1 .. m + 1
      /\ Append(s, x)[m + 1] = x /\ \A n \in 1 .. m : Append(s, x)[n] = s[n]
  BY <1>1
<1>3. IsFiniteSet(L) /\ m + 1 \notin L
  <2>1. IsFiniteSet(1 .. m)
    <3>1. 1 \in Int /\ m \in Int
      OBVIOUS
    <3>. QED  BY <3>1, FS_Interval
  <2>2. L \subseteq 1 .. m
    BY <1>2
  <2>. QED  BY <2>1, <2>2, FS_Subset
<1>4. M = IF x = "newline" THEN L \cup {m + 1} ELSE L
  BY <1>2
<1>. HIDE DEF L, M
<1>5. Cardinality(L) \in Nat /\ Cardinality(L \cup {m + 1}) = Cardinality(L) + 1
  BY <1>3, FS_CardinalityType, FS_AddElement
<1>. QED  BY <1>4, <1>5 DEF Lines, L, M

\* No line in nothing.
LEMMA LinesEmpty == Lines(<<>>) = 0
<1>1. {n \in DOMAIN <<>> : <<>>[n] = "newline"} = {}
  OBVIOUS
<1>. QED  BY <1>1, FS_EmptySet DEF Lines

-----------------------------------------------------------------------------
(***************************************************************************)
(* What the programs of a pipeline make of their characters.               *)
(***************************************************************************)
\* The bytes of the stack are none of the characters that are looked at, nor a count.
BytesApart ==
  /\ StackByte \cap (Keystrokes \cup {Zero, EOF, "newline"}) = {}
  /\ \A n \in Nat : ToString(n) \notin StackByte \cup {EOF}

Text == PipeChar \ (StackByte \cup {EOF})
Screen == PipeChar \cup {ToString(n) : n \in Nat}
Plain(s) == Without(s, StackByte)

\* The left program in state a, which typed s so far: G is what it gave to the pipe,
\* what it still writes in its call (busy) included; gone says that it was killed.
LeftGave(a, busy, gone, command, s, G) ==
  /\ a.pc = "read" \/ (a.pc = "write" /\ busy) => G = Copied(command, s)
  /\ a.pc = "write" /\ ~ busy =>
       \E front \in Seq(Text) : /\ s = Append(front, a.char) /\ G = Copied(command, front)
                                /\ a.char \in Text /\ (command = "filter" => a.char \notin Vowel)
  /\ a.pc = "count" => command = "wc" /\ G = IF busy THEN Printed(command, s) ELSE s
  /\ a.pc = "dead" /\ ~ gone => G = Printed(command, s)
  /\ a.pc = "dead" /\ gone => \E n \in {Len(s) - 1, Len(s)} : G = Copied(command, SubSeq(s, 1, n))
  /\ a.pc # "dead" => /\ ~ gone /\ a.command = command
                      /\ command = "wc" => a.lines = Lines(s)

\* The right program in state b: the screen shows s, and D is what it read.
RightShows(b, command, s, D) ==
  /\ b.pc = "read" => Plain(s) = Copied(command, D)
  /\ b.pc = "write" => Plain(Append(s, b.char)) = Copied(command, D)
  /\ b.pc = "count" => command = "wc" /\ Plain(s) = D
  /\ b.pc = "dead" => Plain(s) = Printed(command, D)
  /\ b.pc # "dead" => b.command = command /\ (command = "wc" => b.lines = Lines(D))

\* W is on its way from the left program to the right one, which has read D of G; EOF
\* follows when the shell has written it, and ends what the right one reads.
Between(over, ended, W, D, G) ==
  IF over THEN ended /\ D = G
  ELSE \E X, Z \in Seq(PipeChar) :
         /\ W = X \o Z /\ EOF \notin Range(X) /\ D \o Plain(X) = G
         /\ IF ended THEN Z # <<>> /\ Head(Z) = EOF ELSE Z = <<>>

\* A program after its write.
Resumes(a) == IF a.pc = "count" THEN NoProgram ELSE [a EXCEPT !.pc = "read"]

\* One character more to copy.
LEMMA CopiedAppend ==
  ASSUME NEW S, NEW s \in Seq(S), NEW c \in S, NEW command
  PROVE  /\ command = "filter" /\ c \in Vowel => Copied(command, Append(s, c)) = Copied(command, s)
         /\ ~ (command = "filter" /\ c \in Vowel) =>
              Copied(command, Append(s, c)) = Append(Copied(command, s), c)
         /\ Copied(command, s) \in Seq(S)
<1>1. Without(Append(s, c), Vowel) = IF c \in Vowel THEN Without(s, Vowel) ELSE Append(Without(s, Vowel), c)
  BY WithoutAppend
<1>2. Without(s, Vowel) \in Seq(S)
  <2>1. Without(s, Vowel) \in Seq(S \ Vowel)
    BY WithoutSeq
  <2>. QED  BY <2>1
<1>. QED  BY <1>1, <1>2 DEF Copied

\* The left program reads EOF: it ends, or writes its count.
LEMMA LeftEnds ==
  ASSUME NEW a \in ProgramState, a.pc = "read", NEW gone \in BOOLEAN, NEW command, NEW s, NEW G,
         LeftGave(a, FALSE, gone, command, s, G)
  PROVE  LeftGave(Received(a, EOF), FALSE, gone, command, s, G)
<1>1. G = Copied(command, s) /\ ~ gone /\ a.command = command /\ (command = "wc" => a.lines = Lines(s))
  BY DEF LeftGave
<1>2. CASE command = "wc"
  <2>1. Received(a, EOF) = [a EXCEPT !.pc = "count"]
    BY <1>1, <1>2 DEF Received
  <2>2. PICK b \in ProgramState : b = [a EXCEPT !.pc = "count"]
    BY DEF ProgramState
  <2>3. b.pc = "count" /\ b.command = command /\ b.lines = a.lines
    BY <1>1, <2>2 DEF ProgramState
  <2>4. G = s
    BY <1>1, <1>2 DEF Copied
  <2>5. LeftGave(b, FALSE, gone, command, s, G)
    BY <1>1, <1>2, <2>3, <2>4 DEF LeftGave
  <2>. QED  BY <2>1, <2>2, <2>5
<1>3. CASE command # "wc"
  <2>1. Received(a, EOF) = NoProgram /\ NoProgram.pc = "dead"
    BY <1>1, <1>3 DEF Received, NoProgram
  <2>2. G = Printed(command, s)
    BY <1>1, <1>3 DEF Printed
  <2>3. LeftGave(NoProgram, FALSE, gone, command, s, G)
    BY <1>1, <2>1, <2>2 DEF LeftGave
  <2>. QED  BY <2>1, <2>3
<1>. QED  BY <1>2, <1>3

\* A character, which may be a vowel and may end a line.
LEMMA ReceivedIs ==
  ASSUME NEW a \in ProgramState, NEW c \in PipeChar, c # EOF
  PROVE  /\ Received(a, c) \in ProgramState
         /\ Received(a, c).command = a.command
         /\ a.command = "filter" /\ c \in Vowel =>
              Received(a, c).pc = "read" /\ Received(a, c).lines = a.lines
         /\ ~ (a.command = "filter" /\ c \in Vowel) =>
              /\ Received(a, c).pc = "write" /\ Received(a, c).char = c
              /\ Received(a, c).lines = IF c = "newline" THEN a.lines + 1 ELSE a.lines
<1>1. a.command = "filter" /\ c \in Vowel => Received(a, c) = [a EXCEPT !.pc = "read"]
  BY DEF Received
<1>2. ~ (a.command = "filter" /\ c \in Vowel) =>
        Received(a, c) = [a EXCEPT !.pc = "write", !.char = c,
                                   !.lines = IF c = "newline" THEN @ + 1 ELSE @]
  BY DEF Received
<1>3. PICK r : r = Received(a, c)
  OBVIOUS
<1>4. CASE a.command = "filter" /\ c \in Vowel
  <2>1. r = [a EXCEPT !.pc = "read"]
    BY <1>1, <1>3, <1>4
  <2>2. r \in ProgramState /\ r.command = a.command /\ r.pc = "read" /\ r.lines = a.lines
    BY <2>1 DEF ProgramState
  <2>. QED  BY <1>3, <1>4, <2>2
<1>5. CASE ~ (a.command = "filter" /\ c \in Vowel)
  <2>1. PICK l \in Nat : l = IF c = "newline" THEN a.lines + 1 ELSE a.lines
    BY DEF ProgramState
  <2>2. r = [a EXCEPT !.pc = "write", !.char = c, !.lines = l]
    BY <1>2, <1>3, <1>5, <2>1 DEF ProgramState
  <2>3. /\ r \in ProgramState /\ r.command = a.command /\ r.pc = "write" /\ r.char = c
        /\ r.lines = l
    BY <2>2 DEF ProgramState
  <2>. QED  BY <1>3, <1>5, <2>1, <2>3
<1>. QED  BY <1>4, <1>5

\* The left program reads a character.
LEMMA LeftTypes ==
  ASSUME NEW a \in ProgramState, a.pc = "read", NEW gone \in BOOLEAN, NEW command, NEW s \in Seq(Text),
         NEW G, LeftGave(a, FALSE, gone, command, s, G), NEW c \in Text
  PROVE  LeftGave(Received(a, c), FALSE, gone, command, Append(s, c), G)
<1>1. G = Copied(command, s) /\ ~ gone /\ a.command = command /\ (command = "wc" => a.lines = Lines(s))
  BY DEF LeftGave
<1>2. PICK b : b = Received(a, c)
  OBVIOUS
<1>3. c \in PipeChar /\ c # EOF
  BY DEF Text
<1>4. PICK t : t = Append(s, c)
  OBVIOUS
<1>5. Lines(t) = IF c = "newline" THEN Lines(s) + 1 ELSE Lines(s)
  BY <1>4, LinesAppend
<1>6. CASE command = "filter" /\ c \in Vowel
  <2>1. b.pc = "read" /\ b.command = command
    BY <1>1, <1>2, <1>3, <1>6, ReceivedIs
  <2>2. G = Copied(command, t)
    BY <1>1, <1>4, <1>6, CopiedAppend
  <2>3. LeftGave(b, FALSE, gone, command, t, G)
    BY <1>1, <1>6, <2>1, <2>2 DEF LeftGave
  <2>. QED  BY <1>2, <1>4, <2>3
<1>7. CASE ~ (command = "filter" /\ c \in Vowel)
  <2>1. /\ b.pc = "write" /\ b.command = command /\ b.char = c
        /\ b.lines = IF c = "newline" THEN a.lines + 1 ELSE a.lines
    BY <1>1, <1>2, <1>3, <1>7, ReceivedIs
  <2>2. command = "wc" => b.lines = Lines(t)
    BY <1>1, <1>5, <2>1
  <2>3. \E front \in Seq(Text) : /\ t = Append(front, b.char) /\ G = Copied(command, front)
                                 /\ b.char \in Text /\ (command = "filter" => b.char \notin Vowel)
    BY <1>1, <1>4, <1>7, <2>1
  <2>4. LeftGave(b, FALSE, gone, command, t, G)
    BY <1>1, <2>1, <2>2, <2>3 DEF LeftGave
  <2>. QED  BY <1>2, <1>4, <2>4
<1>. QED  BY <1>6, <1>7

Out(a) == IF a.pc = "count" THEN ToString(1 + a.lines) ELSE a.char

\* It begins to write.
LEMMA LeftGives ==
  ASSUME NEW a \in ProgramState, a.pc \in {"write", "count"}, NEW gone \in BOOLEAN, NEW command,
         NEW s \in Seq(Text), NEW G, LeftGave(a, FALSE, gone, command, s, G)
  PROVE  LeftGave(a, TRUE, gone, command, s, Append(G, Out(a)))
<1>1. ~ gone /\ a.command = command /\ (command = "wc" => a.lines = Lines(s))
  BY DEF LeftGave
<1>2. CASE a.pc = "write"
  <2>1. PICK front \in Seq(Text) : /\ s = Append(front, a.char) /\ G = Copied(command, front)
                                   /\ a.char \in Text /\ (command = "filter" => a.char \notin Vowel)
    BY <1>2 DEF LeftGave
  <2>2. Copied(command, s) = Append(G, a.char) /\ Out(a) = a.char
    BY <1>2, <2>1, CopiedAppend DEF Out
  <2>. QED  BY <1>1, <1>2, <2>2 DEF LeftGave
<1>3. CASE a.pc = "count"
  <2>1. command = "wc" /\ G = s
    BY <1>3 DEF LeftGave
  <2>2. Printed(command, s) = Append(G, Out(a))
    BY <1>1, <1>3, <2>1 DEF Printed, Out
  <2>. QED  BY <1>1, <1>3, <2>1, <2>2 DEF LeftGave
<1>. QED  BY <1>2, <1>3

\* It is done with that.
LEMMA LeftGoes ==
  ASSUME NEW a \in ProgramState, a.pc \in {"write", "count"}, NEW gone \in BOOLEAN, NEW command,
         NEW s, NEW G, LeftGave(a, TRUE, gone, command, s, G)
  PROVE  LeftGave(Resumes(a), FALSE, gone, command, s, G)
<1>1. ~ gone /\ a.command = command /\ (command = "wc" => a.lines = Lines(s))
  BY DEF LeftGave
<1>2. CASE a.pc = "write"
  <2>1. PICK b : b = [a EXCEPT !.pc = "read"]
    OBVIOUS
  <2>2. b.pc = "read" /\ b.command = a.command /\ b.lines = a.lines
    BY <2>1 DEF ProgramState
  <2>3. LeftGave(b, FALSE, gone, command, s, G)
    BY <1>1, <1>2, <2>2 DEF LeftGave
  <2>4. Resumes(a) = b
    BY <1>2, <2>1 DEF Resumes
  <2>. QED  BY <2>3, <2>4
<1>3. CASE a.pc = "count"
  <2>1. Resumes(a) = NoProgram /\ NoProgram.pc = "dead"
    BY <1>3 DEF Resumes, NoProgram
  <2>2. G = Printed(command, s)
    BY <1>3 DEF LeftGave
  <2>3. LeftGave(NoProgram, FALSE, gone, command, s, G)
    BY <1>1, <2>1, <2>2 DEF LeftGave
  <2>. QED  BY <2>1, <2>3
<1>. QED  BY <1>2, <1>3

\* It is killed, outside a call.
LEMMA LeftDies ==
  ASSUME NEW a \in ProgramState, a.pc # "dead", NEW gone \in BOOLEAN, NEW command, NEW s \in Seq(Text),
         NEW G, LeftGave(a, FALSE, gone, command, s, G)
  PROVE  LeftGave(NoProgram, FALSE, TRUE, command, s, G)
<1>1. PICK len \in Nat : len = Len(s)
  OBVIOUS
<1>2. SubSeq(s, 1, len) = s
  BY <1>1
<1>3. \E n \in {len - 1, len} : G = Copied(command, SubSeq(s, 1, n))
  <2>1. CASE a.pc = "read"
    <3>1. G = Copied(command, s)
      BY <2>1 DEF LeftGave
    <3>. QED  BY <1>2, <3>1
  <2>2. CASE a.pc = "write"
    <3>1. PICK front \in Seq(Text) :
            s = Append(front, a.char) /\ G = Copied(command, front) /\ a.char \in Text
      BY <2>2 DEF LeftGave
    <3>2. SubSeq(s, 1, len - 1) = front
      BY <1>1, <3>1
    <3>. QED  BY <3>1, <3>2
  <2>3. CASE a.pc = "count"
    <3>1. command = "wc" /\ G = s
      BY <2>3 DEF LeftGave
    <3>2. G = Copied(command, s)
      BY <3>1 DEF Copied
    <3>. QED  BY <1>2, <3>2
  <2>4. a.pc \in {"dead", "read", "write", "count"}
    BY DEF ProgramState
  <2>. QED  BY <2>1, <2>2, <2>3, <2>4
<1>4. NoProgram.pc = "dead"
  BY DEF NoProgram
<1>. QED  BY <1>1, <1>3, <1>4 DEF LeftGave

\* The right program reads EOF.
LEMMA RightEnds ==
  ASSUME NEW b \in ProgramState, b.pc = "read", NEW command, NEW s, NEW D, RightShows(b, command, s, D)
  PROVE  RightShows(Received(b, EOF), command, s, D) /\ Received(b, EOF).pc \in {"count", "dead"}
<1>1. Plain(s) = Copied(command, D) /\ b.command = command /\ (command = "wc" => b.lines = Lines(D))
  BY DEF RightShows
<1>2. CASE command = "wc"
  <2>1. Received(b, EOF) = [b EXCEPT !.pc = "count"]
    BY <1>1, <1>2 DEF Received
  <2>2. PICK a : a = [b EXCEPT !.pc = "count"]
    OBVIOUS
  <2>3. a.pc = "count" /\ a.command = command /\ a.lines = b.lines
    BY <1>1, <2>2 DEF ProgramState
  <2>4. Plain(s) = D
    BY <1>1, <1>2 DEF Copied
  <2>5. RightShows(a, command, s, D)
    BY <1>1, <1>2, <2>3, <2>4 DEF RightShows
  <2>. QED  BY <2>1, <2>2, <2>3, <2>5
<1>3. CASE command # "wc"
  <2>1. Received(b, EOF) = NoProgram /\ NoProgram.pc = "dead"
    BY <1>1, <1>3 DEF Received, NoProgram
  <2>2. Plain(s) = Printed(command, D)
    BY <1>1, <1>3 DEF Printed
  <2>3. RightShows(NoProgram, command, s, D)
    BY <2>1, <2>2 DEF RightShows
  <2>. QED  BY <2>1, <2>3
<1>. QED  BY <1>2, <1>3

\* It reads a character that the left one gave.
LEMMA RightTakes ==
  ASSUME BytesApart, NEW b \in ProgramState, b.pc = "read", NEW command, NEW s \in Seq(Screen),
         NEW D \in Seq(Text), RightShows(b, command, s, D), NEW c \in Text
  PROVE  /\ RightShows(Received(b, c), command, s, Append(D, c))
         /\ Received(b, c).pc \notin {"count", "dead"}
<1>1. Plain(s) = Copied(command, D) /\ b.command = command /\ (command = "wc" => b.lines = Lines(D))
  BY DEF RightShows
<1>2. PICK a, E : a = Received(b, c) /\ E = Append(D, c)
  OBVIOUS
<1>3. c \in PipeChar /\ c # EOF /\ c \notin StackByte /\ c \in Screen
  BY DEF Text, Screen
<1>4. Lines(E) = IF c = "newline" THEN Lines(D) + 1 ELSE Lines(D)
  BY <1>2, LinesAppend
<1>5. CASE command = "filter" /\ c \in Vowel
  <2>1. a.pc = "read" /\ a.command = command
    BY <1>1, <1>2, <1>3, <1>5, ReceivedIs
  <2>2. Plain(s) = Copied(command, E)
    BY <1>1, <1>2, <1>5, CopiedAppend
  <2>3. RightShows(a, command, s, E)
    BY <1>5, <2>1, <2>2 DEF RightShows
  <2>. QED  BY <1>2, <2>1, <2>3
<1>6. CASE ~ (command = "filter" /\ c \in Vowel)
  <2>1. /\ a.pc = "write" /\ a.command = command /\ a.char = c
        /\ a.lines = IF c = "newline" THEN b.lines + 1 ELSE b.lines
    BY <1>1, <1>2, <1>3, <1>6, ReceivedIs
  <2>2. Plain(Append(s, c)) = Append(Plain(s), c)
    BY <1>3, WithoutAppend DEF Plain
  <2>3. Plain(Append(s, c)) = Copied(command, E)
    BY <1>1, <1>2, <1>6, <2>2, CopiedAppend
  <2>4. command = "wc" => a.lines = Lines(E)
    BY <1>1, <1>4, <2>1
  <2>5. RightShows(a, command, s, E)
    BY <2>1, <2>3, <2>4 DEF RightShows
  <2>. QED  BY <1>2, <2>1, <2>5
<1>. QED  BY <1>5, <1>6

\* It reads a byte of the stack.
LEMMA RightPasses ==
  ASSUME BytesApart, NEW b \in ProgramState, b.pc = "read", NEW command, NEW s \in Seq(Screen), NEW D,
         RightShows(b, command, s, D), NEW c \in StackByte, c \in PipeChar
  PROVE  /\ RightShows(Received(b, c), command, s, D)
         /\ Received(b, c).pc \notin {"count", "dead"}
<1>1. Plain(s) = Copied(command, D) /\ b.command = command /\ (command = "wc" => b.lines = Lines(D))
  BY DEF RightShows
<1>2. PICK a : a = Received(b, c)
  OBVIOUS
<1>3. c # EOF /\ c # "newline" /\ c \in Screen
  BY DEF BytesApart, Screen
<1>4. CASE command = "filter" /\ c \in Vowel
  <2>1. a.pc = "read" /\ a.command = command
    BY <1>1, <1>2, <1>3, <1>4, ReceivedIs
  <2>2. RightShows(a, command, s, D)
    BY <1>1, <1>4, <2>1 DEF RightShows
  <2>. QED  BY <1>2, <2>1, <2>2
<1>5. CASE ~ (command = "filter" /\ c \in Vowel)
  <2>1. a.pc = "write" /\ a.command = command /\ a.char = c /\ a.lines = b.lines
    BY <1>1, <1>2, <1>3, <1>5, ReceivedIs
  <2>2. Plain(Append(s, c)) = Plain(s)
    BY <1>3, WithoutAppend DEF Plain
  <2>3. RightShows(a, command, s, D)
    BY <1>1, <2>1, <2>2 DEF RightShows
  <2>. QED  BY <1>2, <2>1, <2>3
<1>. QED  BY <1>4, <1>5

\* It writes to the screen.
LEMMA RightPrints ==
  ASSUME BytesApart, NEW b \in ProgramState, b.pc \in {"write", "count"}, NEW command,
         NEW s \in Seq(Screen), NEW D, RightShows(b, command, s, D)
  PROVE  /\ RightShows(Resumes(b), command, Append(s, Out(b)), D)
         /\ Out(b) \in Screen
         /\ Resumes(b).pc = IF b.pc = "count" THEN "dead" ELSE "read"
<1>1. b.command = command /\ (command = "wc" => b.lines = Lines(D))
  BY DEF RightShows
<1>2. CASE b.pc = "write"
  <2>1. PICK a : a = [b EXCEPT !.pc = "read"]
    OBVIOUS
  <2>2. a.pc = "read" /\ a.command = b.command /\ a.lines = b.lines
    BY <2>1 DEF ProgramState
  <2>3. Out(b) = b.char /\ Resumes(b) = a /\ b.char \in Screen
    BY <1>2, <2>1 DEF Out, Resumes, Screen, ProgramState
  <2>4. Plain(Append(s, Out(b))) = Copied(command, D)
    BY <1>2, <2>3 DEF RightShows
  <2>5. RightShows(a, command, Append(s, Out(b)), D)
    BY <1>1, <2>2, <2>4 DEF RightShows
  <2>. QED  BY <1>2, <2>2, <2>3, <2>5
<1>3. CASE b.pc = "count"
  <2>1. Plain(s) = D /\ command = "wc" /\ b.lines = Lines(D)
    BY <1>1, <1>3 DEF RightShows
  <2>2. PICK n \in Nat : n = 1 + b.lines
    BY DEF ProgramState
  <2>3. Out(b) = ToString(n) /\ Out(b) \in Screen /\ Out(b) \notin StackByte
    BY <1>3, <2>2 DEF Out, Screen, BytesApart
  <2>4. Plain(Append(s, Out(b))) = Append(Plain(s), Out(b))
    BY <2>3, WithoutAppend DEF Plain
  <2>5. Plain(Append(s, Out(b))) = Printed(command, D)
    BY <2>1, <2>2, <2>3, <2>4 DEF Printed
  <2>6. Resumes(b) = NoProgram /\ NoProgram.pc = "dead"
    BY <1>3 DEF Resumes, NoProgram
  <2>7. RightShows(NoProgram, command, Append(s, Out(b)), D)
    BY <2>5, <2>6 DEF RightShows
  <2>. QED  BY <1>3, <2>3, <2>6, <2>7
<1>. QED  BY <1>2, <1>3

\* Nothing is on its way at first.
LEMMA BetweenNone == Between(FALSE, FALSE, <<>>, <<>>, <<>>)
<1>1. <<>> \in Seq(PipeChar) /\ Range(<<>>) = {} /\ <<>> \o <<>> = <<>>
  BY DEF Range
<1>2. Plain(<<>>) = <<>>
  BY WithoutEmpty DEF Plain
<1>. QED  BY <1>1, <1>2 DEF Between

\* What is plain in two sequences, one after the other.
LEMMA PlainConcat ==
  ASSUME NEW s \in Seq(PipeChar), NEW t \in Seq(PipeChar)
  PROVE  Plain(s \o t) = Plain(s) \o Plain(t)
<1>1. Without(s \o t, StackByte) = Without(s, StackByte) \o Without(t, StackByte)
  BY WithoutConcat
<1>. QED  BY <1>1 DEF Plain

\* The right program takes the next character.
LEMMA BetweenTakes ==
  ASSUME NEW ended \in BOOLEAN, NEW c \in PipeChar, NEW V \in Seq(PipeChar),
         NEW D \in Seq(Text), NEW G \in Seq(Text), Between(FALSE, ended, <<c>> \o V, D, G)
  PROVE  \/ c = EOF /\ ended /\ D = G
         \/ c \in Text /\ Between(FALSE, ended, V, Append(D, c), G)
         \/ c \in StackByte /\ c # EOF /\ Between(FALSE, ended, V, D, G)
<1>1. PICK X, Z \in Seq(PipeChar) :
         /\ <<c>> \o V = X \o Z /\ EOF \notin Range(X) /\ D \o Plain(X) = G
         /\ IF ended THEN Z # <<>> /\ Head(Z) = EOF ELSE Z = <<>>
  BY DEF Between
<1>2. CASE X = <<>>
  <2>1. Plain(X) = <<>> /\ X \o Z = Z
    BY <1>2, WithoutEmpty DEF Plain
  <2>2. D = G
    BY <1>1, <2>1
  <2>3. <<c>> \o V = Z
    BY <1>1, <2>1
  <2>4. Z # <<>> /\ Head(Z) = c
    BY <2>3
  <2>. QED  BY <1>1, <2>2, <2>4
<1>3. CASE X # <<>>
  <2>. DEFINE Y == Tail(X)
  <2>1. Y \in Seq(PipeChar) /\ X = <<Head(X)>> \o Y /\ Head(X) = X[1] /\ 1 \in DOMAIN X
    BY <1>3
  <2>. HIDE DEF Y
  <2>2. Head(X) = c
    <3>1. (<<c>> \o V)[1] = c
      OBVIOUS
    <3>2. (X \o Z)[1] = X[1]
      BY <1>1, <1>3
    <3>. QED  BY <1>1, <2>1, <3>1, <3>2
  <2>3. c # EOF
    BY <1>1, <2>1, <2>2 DEF Range
  <2>4. V = Y \o Z
    <3>1. <<c>> \in Seq(PipeChar) /\ Y \o Z \in Seq(PipeChar)
      BY <1>1, <2>1
    <3>2. (<<c>> \o Y) \o Z = <<c>> \o (Y \o Z)
      <4>1. PICK e \in Seq(PipeChar) : e = <<c>>
        BY <3>1
      <4>2. Y \in Seq(PipeChar)
        BY <2>1
      <4>3. (e \o Y) \o Z = e \o (Y \o Z)
        BY <4>2, ConcatAssociative
      <4>. QED  BY <4>1, <4>3
    <3>3. <<c>> \o V = <<c>> \o (Y \o Z)
      BY <1>1, <2>1, <2>2, <3>2
    <3>. QED  BY <3>1, <3>3, ConcatSimplifications
  <2>5. EOF \notin Range(Y)
    <3>1. \A n \in DOMAIN Y : n + 1 \in DOMAIN X /\ Y[n] = X[n + 1]
      BY <1>3 DEF Y
    <3>. QED  BY <1>1, <3>1 DEF Range
  <2>6. Plain(X) = Plain(<<c>>) \o Plain(Y)
    <3>1. PICK e \in Seq(PipeChar) : e = <<c>>
      <4>1. <<c>> \in Seq(PipeChar)
        OBVIOUS
      <4>. QED  BY <4>1
    <3>2. PICK y \in Seq(PipeChar) : y = Y
      BY <2>1
    <3>3. Plain(e \o y) = Plain(e) \o Plain(y)
      BY PlainConcat
    <3>. QED  BY <2>1, <2>2, <3>1, <3>2, <3>3
  <2>7. Plain(<<c>>) = IF c \in StackByte THEN <<>> ELSE <<c>>
    <3>1. <<>> \in Seq(PipeChar) /\ <<c>> = Append(<<>>, c)
      OBVIOUS
    <3>2. Without(Append(<<>>, c), StackByte) =
            IF c \in StackByte THEN Without(<<>>, StackByte) ELSE Append(Without(<<>>, StackByte), c)
      BY <3>1, WithoutAppend
    <3>. QED  BY <3>1, <3>2, WithoutEmpty DEF Plain
  <2>8. PICK P : P = Plain(Y) /\ P \in Seq(PipeChar)
    <3>1. Plain(Y) \in Seq(PipeChar \ StackByte)
      BY <2>1, WithoutSeq DEF Plain
    <3>. QED  BY <3>1
  <2>9. CASE c \in StackByte
    <3>1. Plain(X) = P
      <4>1. <<>> \o P = P
        BY <2>8
      <4>. QED  BY <2>6, <2>7, <2>8, <2>9, <4>1
    <3>2. D \o Plain(Y) = G
      BY <1>1, <2>8, <3>1
    <3>. QED  BY <1>1, <2>1, <2>3, <2>4, <2>5, <2>9, <3>2 DEF Between
  <2>10. CASE c \notin StackByte
    <3>1. c \in Text
      BY <2>3, <2>10 DEF Text
    <3>2. D \in Seq(PipeChar)
      <4>1. Text \subseteq PipeChar
        BY DEF Text
      <4>. QED  BY <4>1, SeqMonotonic
    <3>3. Append(D, c) \o P = D \o (<<c>> \o P)
      <4>1. <<c>> \in Seq(PipeChar) /\ Append(D, c) = D \o <<c>>
        BY <3>2
      <4>. QED  BY <2>8, <3>2, <4>1, ConcatAssociative
    <3>4. Append(D, c) \o Plain(Y) = G
      BY <1>1, <2>6, <2>7, <2>8, <2>10, <3>3
    <3>. QED  BY <1>1, <2>1, <2>4, <2>5, <3>1, <3>4 DEF Between
  <2>. QED  BY <2>9, <2>10
<1>. QED  BY <1>2, <1>3

\* A tail from the stack holds bytes of the stack.
LEMMA TailsArePlain ==
  ASSUME BytesApart, NEW tail \in StackTail
  PROVE  /\ tail \in Seq(PipeChar) /\ EOF \notin Range(tail) /\ Plain(tail) = <<>>
<1>1. CASE tail = <<>>
  BY <1>1, WithoutEmpty DEF Plain, Range
<1>2. CASE tail # <<>>
  <2>1. PICK b \in StackByte : tail = <<b>>
    BY <1>2 DEF StackTail
  <2>2. b \in PipeChar /\ b # EOF
    BY PipelineAssumption DEF BytesApart
  <2>3. tail \in Seq(PipeChar) /\ Range(tail) = {b} /\ tail = Append(<<>>, b) /\ <<>> \in Seq(PipeChar)
    BY <2>1, <2>2 DEF Range
  <2>4. Without(Append(<<>>, b), StackByte) = Without(<<>>, StackByte)
    BY <2>2, <2>3, WithoutAppend
  <2>. QED  BY <2>2, <2>3, <2>4, WithoutEmpty DEF Plain
<1>. QED  BY <1>1, <1>2

\* The left program gives one more.
LEMMA BetweenGives ==
  ASSUME BytesApart, NEW over \in BOOLEAN, NEW W \in Seq(PipeChar), NEW D \in Seq(Text), NEW G \in Seq(Text),
         Between(over, FALSE, W, D, G), NEW x \in Text, NEW tail \in StackTail
  PROVE  Between(over, FALSE, W \o (<<x>> \o tail), D, Append(G, x))
<1>1. ~ over
  BY DEF Between
<1>2. W \in Seq(PipeChar) /\ EOF \notin Range(W) /\ D \o Plain(W) = G
  <2>1. PICK X, Z \in Seq(PipeChar) :
         W = X \o Z /\ EOF \notin Range(X) /\ D \o Plain(X) = G /\ Z = <<>>
    BY <1>1 DEF Between
  <2>2. W = X
    BY <2>1
  <2>. QED  BY <2>1, <2>2
<1>. DEFINE U == <<x>> \o tail
<1>3. tail \in Seq(PipeChar) /\ EOF \notin Range(tail) /\ Plain(tail) = <<>>
  BY TailsArePlain
<1>4. x \in PipeChar /\ x # EOF /\ x \notin StackByte /\ <<x>> \in Seq(PipeChar) /\ <<>> \in Seq(PipeChar)
  BY DEF Text
<1>5. U \in Seq(PipeChar)
  BY <1>3, <1>4
<1>6. Plain(U) = <<x>>
  <2>1. Plain(U) = Plain(<<x>>) \o Plain(tail)
    <3>1. PICK e \in Seq(PipeChar) : e = <<x>>
      BY <1>4
    <3>2. Plain(e \o tail) = Plain(e) \o Plain(tail)
      BY <1>3, PlainConcat
    <3>. QED  BY <3>1, <3>2
  <2>2. <<x>> = Append(<<>>, x)
    OBVIOUS
  <2>3. Without(Append(<<>>, x), StackByte) = Append(Without(<<>>, StackByte), x)
    <3>1. PICK e \in Seq(PipeChar) : e = <<>>
      BY <1>4
    <3>2. Without(Append(e, x), StackByte) = Append(Without(e, StackByte), x)
      BY <1>4, WithoutAppend
    <3>. QED  BY <3>1, <3>2
  <2>4. Plain(<<x>>) = <<x>>
    BY <2>2, <2>3, WithoutEmpty DEF Plain
  <2>5. <<x>> \o <<>> = <<x>>
    BY <1>4
  <2>. QED  BY <1>3, <2>1, <2>4, <2>5
<1>7. EOF \notin Range(U)
  <2>1. \A n \in DOMAIN U : U[n] = x \/ \E k \in DOMAIN tail : U[n] = tail[k]
    <3>. SUFFICES ASSUME NEW n \in DOMAIN U, U[n] # x PROVE \E k \in DOMAIN tail : U[n] = tail[k]
      OBVIOUS
    <3>1. n - 1 \in DOMAIN tail /\ U[n] = tail[n - 1]
      BY <1>3, <1>4
    <3>. QED  BY <3>1
  <2>. QED  BY <1>3, <1>4, <2>1 DEF Range
<1>. HIDE DEF U
<1>8. Plain(W \o U) = Plain(W) \o <<x>>
  BY <1>2, <1>5, <1>6, PlainConcat
<1>9. D \o Plain(W \o U) = Append(G, x)
  <2>1. PICK P \in Seq(PipeChar) : P = Plain(W)
    <3>1. Plain(W) \in Seq(PipeChar \ StackByte)
      BY <1>2, WithoutSeq DEF Plain
    <3>. QED  BY <3>1
  <2>2. D \in Seq(PipeChar)
    <3>1. Text \subseteq PipeChar
      BY DEF Text
    <3>. QED  BY <3>1, SeqMonotonic
  <2>3. (D \o P) \o <<x>> = D \o (P \o <<x>>)
    BY <1>4, <2>1, <2>2, ConcatAssociative
  <2>4. Append(G, x) = G \o <<x>>
    BY AppendIsConcat
  <2>. QED  BY <1>2, <1>8, <2>1, <2>3, <2>4
<1>10. EOF \notin Range(W \o U) /\ W \o U \in Seq(PipeChar) /\ (W \o U) \o <<>> = W \o U
  <2>1. W \o U \in Seq(PipeChar) /\ (W \o U) \o <<>> = W \o U
    BY <1>2, <1>5
  <2>2. \A n \in DOMAIN (W \o U) : \/ \E k \in DOMAIN W : (W \o U)[n] = W[k]
                                   \/ \E k \in DOMAIN U : (W \o U)[n] = U[k]
    <3>. SUFFICES ASSUME NEW n \in DOMAIN (W \o U)
                  PROVE  \/ n \in DOMAIN W /\ (W \o U)[n] = W[n]
                         \/ n - Len(W) \in DOMAIN U /\ (W \o U)[n] = U[n - Len(W)]
      OBVIOUS
    <3>. QED  BY <1>2, <1>5
  <2>. QED  BY <1>2, <1>7, <2>1, <2>2 DEF Range
<1>11. \E X, Z \in Seq(PipeChar) :
         /\ W \o U = X \o Z /\ EOF \notin Range(X) /\ D \o Plain(X) = Append(G, x)
         /\ Z = <<>>
  BY <1>4, <1>9, <1>10
<1>. QED  BY <1>1, <1>11 DEF Between, U

\* The shell writes EOF behind it.
LEMMA BetweenEnds ==
  ASSUME NEW over \in BOOLEAN, NEW W \in Seq(PipeChar), NEW D, NEW G, Between(over, FALSE, W, D, G),
         NEW Z \in Seq(PipeChar), Z # <<>>, Head(Z) = EOF
  PROVE  Between(over, TRUE, W \o Z, D, G)
<1>1. ~ over
  BY DEF Between
<1>2. PICK X, Y \in Seq(PipeChar) :
        W = X \o Y /\ EOF \notin Range(X) /\ D \o Plain(X) = G /\ Y = <<>>
  BY <1>1 DEF Between
<1>3. W = X
  BY <1>2
<1>. QED  BY <1>1, <1>2, <1>3 DEF Between

-----------------------------------------------------------------------------
(***************************************************************************)
(* The invariant: what was typed reached the screen, or is in a program or *)
(* on its way between the two.  Right programs that a failed runPipe left  *)
(* behind sleep in their empty pipes.                                      *)
(***************************************************************************)
Flowing == shellPc \in {"sleep", "writing", "wait", "pClose"}
Ended == shellPc \in {"writing", "wait", "pClose"}
Ours(p) == Working /\ PipeOf(p) = OurPipe
RightDone == prog[Right(pipeline)].pc \in {"count", "dead"}
UnderWay(i) == (Holds(i) \o Rest(Left(pipeline))) \o Rest(ShellProc)

Delivered(i) ==
  \E D, G \in Seq(Text) :
    /\ LeftGave(prog[Left(pipeline)], InCall(Left(pipeline)), Left(pipeline) \in killed,
                commands[1], typed, G)
    /\ RightShows(prog[Right(pipeline)], commands[2], shown, D)
    /\ Between(RightDone, Ended, UnderWay(i), D, G)

HistoryOK ==
  /\ typed \in Seq(Text) /\ shown \in Seq(Screen)
  /\ ~ Flowing => typed = <<>> /\ shown = <<>> /\ fg = {}
  /\ Working => fg \subseteq {Left(pipeline), Right(pipeline)}
  /\ killed \subseteq fg
LeftBehind ==
  \A p \in Program : Alive(p) /\ ~ Ours(p) =>
    /\ ~ IsLeft(p) /\ prog[p].pc = "read"
    /\ \A i \in Slot : Serves(i, PipeOf(p)) => Holds(i) = <<>>
StillEmpty ==
  /\ shellPc \in {"right", "left"} => \A i \in Slot : Serves(i, OurPipe) => Holds(i) = <<>>
  /\ shellPc = "left" =>
       LET r == prog[Right(pipeline)] IN r.pc = "read" /\ r.lines = 0 /\ r.command = commands[2]
OnItsWay ==
  Flowing /\ commands[2] # "invalid" /\ Right(pipeline) \notin killed =>
    \A i \in Slot : Serves(i, OurPipe) => Delivered(i)

Carry == HistoryOK /\ LeftBehind /\ StillEmpty /\ OnItsWay

\* No slot begins to serve.
NoneNew == \A j \in Slot : \A id \in Nat : Serves(j, id)' => Serves(j, id)

\* A step that neither moves a character nor changes a program.
LEMMA QuietCarries ==
  ASSUME PipesInv, Carry, NoneNew, \A j \in Slot : Keeps(j),
         UNCHANGED <<pipeline, shellPipe, prog, typed, shown, killed, fg>>,
         \/ shellPc' = shellPc /\ commands' = commands
         \/ {shellPc, shellPc'} \subseteq {"prompt", "pOpen"},
         \A q \in Process : q = ShellProc \/ IsLeft(q) => inCall'[q] = inCall[q]
  PROVE  Carry'
<1>1. HistoryOK'
  BY DEF Carry, HistoryOK, Flowing, Working
<1>2. Working' = Working /\ OurPipe' = OurPipe
  BY DEF Working, OurPipe
<1>3. LeftBehind'
  <2>. SUFFICES ASSUME NEW p \in Program, Alive(p)', ~ Ours(p)'
                PROVE  /\ ~ IsLeft(p) /\ prog'[p].pc = "read"
                       /\ \A i \in Slot : Serves(i, PipeOf(p))' => Holds(i)' = <<>>
    BY DEF LeftBehind
  <2>1. Alive(p) /\ ~ Ours(p)
    BY <1>2 DEF Alive, Ours
  <2>2. ~ IsLeft(p) /\ prog[p].pc = "read" /\ \A i \in Slot : Serves(i, PipeOf(p)) => Holds(i) = <<>>
    BY <2>1 DEF Carry, LeftBehind
  <2>3. PICK id \in Nat : id = PipeOf(p)
    BY PipeIds
  <2>4. ASSUME NEW i \in Slot, Serves(i, id)' PROVE Holds(i)' = <<>>
    <3>1. Serves(i, id)
      BY <2>4 DEF NoneNew
    <3>2. Holds(i) = <<>>
      BY <2>2, <2>3, <3>1
    <3>. QED  BY <3>2 DEF Keeps
  <2>. QED  BY <2>2, <2>3, <2>4
<1>4. CASE {shellPc, shellPc'} \subseteq {"prompt", "pOpen"}
  BY <1>1, <1>3, <1>4 DEF Carry, StillEmpty, OnItsWay, Flowing
<1>5. CASE shellPc' = shellPc /\ commands' = commands /\ ~ Working
  BY <1>1, <1>3, <1>5 DEF Carry, StillEmpty, OnItsWay, Flowing, Working
<1>6. CASE shellPc' = shellPc /\ commands' = commands /\ Working
  <2>1. PICK id \in Nat, l \in Program, r \in Program :
          /\ id = OurPipe /\ l = Left(pipeline) /\ r = Right(pipeline) /\ IsLeft(l)
    BY <1>6, OurPipeIs DEF PipesInv
  <2>2. l \in Process /\ ShellProc \in Process
    BY Bounds
  <2>3. ASSUME NEW i \in Slot, Serves(i, OurPipe)'
        PROVE  Serves(i, OurPipe) /\ Holds(i)' = Holds(i)
    <3>1. Serves(i, id)'
      BY <1>2, <2>1, <2>3
    <3>2. Serves(i, id)
      BY <3>1 DEF NoneNew
    <3>. QED  BY <2>1, <3>2 DEF Keeps
  <2>4. StillEmpty'
    BY <1>2, <1>6, <2>3 DEF Carry, StillEmpty
  <2>5. ASSUME NEW i \in Slot, Serves(i, OurPipe)', Flowing, commands[2] # "invalid", Right(pipeline) \notin killed
        PROVE  Delivered(i)'
    <3>1. Delivered(i)
      BY <2>3, <2>5 DEF Carry, OnItsWay
    <3>2. Rest(l)' = Rest(l) /\ Rest(ShellProc)' = Rest(ShellProc) /\ InCall(l)' = InCall(l)
      BY <2>1, <2>2 DEF Rest, InCall
    <3>3. UnderWay(i)' = UnderWay(i)
      BY <2>1, <2>3, <2>5, <3>2 DEF UnderWay
    <3>4. InCall(Left(pipeline))' = InCall(Left(pipeline)) /\ Ended' = Ended /\ RightDone' = RightDone
      BY <1>6, <2>1, <3>2 DEF Ended, RightDone
    <3>. QED  BY <1>6, <3>1, <3>3, <3>4 DEF Delivered
  <2>6. OnItsWay'
    BY <1>6, <2>5 DEF OnItsWay, Flowing
  <2>. QED  BY <1>1, <1>3, <2>4, <2>6 DEF Carry
<1>. QED  BY <1>4, <1>5, <1>6

\* A step of the shell, or of a program of its pipeline, while they carry characters.
LEMMA FlowingCarries ==
  ASSUME PipesInv, Carry, NoneNew, Working, Flowing', UNCHANGED <<pipeline, shellPipe>>,
         \A q \in Program : PipeOf(q) # OurPipe => prog'[q] = prog[q],
         NEW i \in Slot, Serves(i, OurPipe), OthersKeep(i),
         typed' \in Seq(Text), shown' \in Seq(Screen),
         fg' \subseteq {Left(pipeline), Right(pipeline)}, killed' \subseteq fg',
         commands'[2] # "invalid" /\ Right(pipeline) \notin killed' => Delivered(i)'
  PROVE  Carry'
<1>1. HistoryOK' /\ StillEmpty'
  BY DEF HistoryOK, StillEmpty, Flowing
<1>2. Working' /\ OurPipe' = OurPipe
  BY DEF Working, Flowing, OurPipe
<1>3. PICK id \in Nat : id = OurPipe
  BY OurPipeIs DEF PipesInv
<1>4. LeftBehind'
  <2>. SUFFICES ASSUME NEW p \in Program, Alive(p)', ~ Ours(p)'
                PROVE  /\ ~ IsLeft(p) /\ prog'[p].pc = "read"
                       /\ \A j \in Slot : Serves(j, PipeOf(p))' => Holds(j)' = <<>>
    BY DEF LeftBehind
  <2>1. PipeOf(p) # OurPipe
    BY <1>2 DEF Ours
  <2>2. prog'[p] = prog[p] /\ Alive(p) /\ ~ Ours(p)
    BY <2>1 DEF Alive, Ours
  <2>3. ~ IsLeft(p) /\ prog[p].pc = "read" /\ \A j \in Slot : Serves(j, PipeOf(p)) => Holds(j) = <<>>
    BY <2>2 DEF Carry, LeftBehind
  <2>4. PICK k \in Nat : k = PipeOf(p)
    BY PipeIds
  <2>5. ASSUME NEW j \in Slot, Serves(j, k)' PROVE Holds(j)' = <<>>
    <3>1. Serves(j, k)
      BY <2>5 DEF NoneNew
    <3>2. Holds(j) = <<>> /\ j # i
      BY <2>1, <2>3, <2>4, <3>1 DEF Serves
    <3>. QED  BY <3>2 DEF OthersKeep, Keeps
  <2>. QED  BY <2>2, <2>3, <2>4, <2>5
<1>5. OnItsWay'
  <2>1. ASSUME NEW j \in Slot, Serves(j, OurPipe)' PROVE j = i
    <3>1. Serves(j, id)'
      BY <1>2, <1>3, <2>1
    <3>2. Serves(j, id)
      BY <3>1 DEF NoneNew
    <3>3. getPipeIdx(OurPipe) = j
      BY <1>3, <3>2, SlotFound DEF PipesInv, Control
    <3>4. getPipeIdx(OurPipe) = i
      BY SlotFound DEF PipesInv, Control
    <3>. QED  BY <3>3, <3>4
  <2>. QED  BY <2>1 DEF OnItsWay
<1>. QED  BY <1>1, <1>4, <1>5 DEF Carry

\* What has to be found for it.
LEMMA DeliveredIs ==
  ASSUME NEW l, NEW r, pipeline' = pipeline, l = Left(pipeline), r = Right(pipeline),
         NEW i, NEW D \in Seq(Text), NEW G \in Seq(Text), NEW W, UnderWay(i)' = W,
         LeftGave(prog'[l], InCall(l)', l \in killed', commands'[1], typed', G),
         RightShows(prog'[r], commands'[2], shown', D),
         Between(prog'[r].pc \in {"count", "dead"}, Ended', W, D, G)
  PROVE  Delivered(i)'
<1>1. RightDone' = (prog'[r].pc \in {"count", "dead"})
  BY DEF RightDone
<1>2. InCall(Left(pipeline))' = InCall(l)'
  OBVIOUS
<1>. QED  BY <1>1, <1>2 DEF Delivered

\* Who is on.
LEMMA OursIs ==
  ASSUME PipesInv, Carry, NEW p \in Program, Alive(p),
         ~ IsLeft(p) /\ prog[p].pc = "read" => \E i \in Slot : Serves(i, PipeOf(p)) /\ Holds(i) # <<>>
  PROVE  /\ Working /\ Flowing /\ PipeOf(p) = OurPipe
         /\ p = IF IsLeft(p) THEN Left(pipeline) ELSE Right(pipeline)
         /\ IsLeft(p) => shellPc = "sleep"
<1>1. Ours(p)
  BY DEF Carry, LeftBehind
<1>2. Working /\ PipeOf(p) = OurPipe
  BY <1>1 DEF Ours
<1>3. p = IF IsLeft(p) THEN Left(pipeline) ELSE Right(pipeline)
  BY <1>2, OurPipeIs DEF PipesInv
<1>4. IsLeft(p) => shellPc = "sleep"
  BY <1>2, <1>3 DEF PipesInv, Control, ShellKnows, Working
<1>5. ~ IsLeft(p) => Flowing
  <2>. SUFFICES ASSUME ~ IsLeft(p), shellPc \in {"right", "left"} PROVE FALSE
    BY <1>2 DEF Working, Flowing
  <2>1. shellPc = "left"
    BY <1>3 DEF PipesInv, Control, ShellKnows
  <2>2. prog[p].pc = "read"
    BY <1>3, <2>1 DEF Carry, StillEmpty
  <2>. QED  BY <1>2, <2>2 DEF Carry, StillEmpty
<1>. QED  BY <1>2, <1>3, <1>4, <1>5 DEF Flowing

\* What there was before a step.
LEMMA DeliveredWas ==
  ASSUME Carry, Flowing, commands[2] # "invalid", Right(pipeline) \notin killed,
         NEW i \in Slot, Serves(i, OurPipe), NEW l, NEW r, l = Left(pipeline), r = Right(pipeline)
  PROVE  \E D, G \in Seq(Text) :
           /\ LeftGave(prog[l], InCall(l), l \in killed, commands[1], typed, G)
           /\ RightShows(prog[r], commands[2], shown, D)
           /\ Between(prog[r].pc \in {"count", "dead"}, Ended, UnderWay(i), D, G)
BY DEF Carry, OnItsWay, Delivered, RightDone

\* What is on its way are characters.
LEMMA UnderWayIs ==
  ASSUME PipesInv, Working, NEW i \in Slot, Serves(i, OurPipe), NEW l, l = Left(pipeline)
  PROVE  /\ Holds(i) \in Seq(PipeChar) /\ Rest(l) \in Seq(PipeChar) /\ Rest(ShellProc) \in Seq(PipeChar)
         /\ UnderWay(i) = (Holds(i) \o Rest(l)) \o Rest(ShellProc) /\ UnderWay(i) \in Seq(PipeChar)
         /\ ~ InCall(l) => Rest(l) = <<>>
         /\ prog[l].pc = "dead" => Rest(l) = <<>> /\ ~ InCall(l)
         /\ shellPc # "writing" \/ inCall[ShellProc].op = "none" => Rest(ShellProc) = <<>>
<1>1. Control /\ l \in Program /\ l \in Process /\ ShellProc \in Process /\ inCall \in [Process -> Call]
  BY OurPipeIs, Bounds DEF PipesInv, Control, TypesOK
<1>2. Whole(i) /\ SlotKeeps(pipes, sync, i, Readers(i), Writers(i), 0)
  BY DEF Serves, PipesInv, SlotsFlow
<1>3. Holds(i) \in Seq(PipeChar)
  BY <1>2, SlotFits DEF Holds
<1>4. Rest(l) \in Seq(PipeChar) /\ Rest(ShellProc) \in Seq(PipeChar)
  <2>. SUFFICES ASSUME NEW q \in Process PROVE Rest(q) \in Seq(PipeChar)
    BY <1>1
  <2>1. inCall[q] \in Call
    BY <1>1
  <2>2. CASE inCall[q].op = "pWrite"
    <3>1. inCall[q].rest \in Seq(PipeChar)
      BY <2>1, <2>2 DEF Call
    <3>. QED  BY <2>2, <3>1 DEF Rest
  <2>3. CASE inCall[q].op # "pWrite"
    BY <2>3 DEF Rest
  <2>. QED  BY <2>2, <2>3
<1>5. UnderWay(i) = (Holds(i) \o Rest(l)) \o Rest(ShellProc)
  BY DEF UnderWay
<1>6. UnderWay(i) \in Seq(PipeChar)
  BY <1>3, <1>4, <1>5
<1>7. ~ InCall(l) => Rest(l) = <<>>
  BY DEF InCall, Rest
<1>8. prog[l].pc = "dead" => Rest(l) = <<>> /\ ~ InCall(l)
  BY <1>1, <1>7, ShellCalls DEF Alive, InCall
<1>9. shellPc # "writing" \/ inCall[ShellProc].op = "none" => Rest(ShellProc) = <<>>
  BY <1>1, ShellCalls DEF Rest
<1>. QED  BY <1>3, <1>4, <1>5, <1>6, <1>7, <1>8, <1>9

-----------------------------------------------------------------------------
(***************************************************************************)
(* The keyboard, ctrl-C and the left program.                              *)
(***************************************************************************)
\* Pipes that are where they were serve nobody new.
LEMMA SameNoneNew ==
  ASSUME \A j \in Slot : SamePipe(pipes[j], pipes'[j])
  PROVE  NoneNew
BY DEF NoneNew, Serves, Whole, InUse, SamePipe

\* A step that leaves the pipes alone.
LEMMA IdleKeeps ==
  ASSUME PipesInv, UNCHANGED <<pipes, semId, lastRead, inCall>>, KeyMoves
  PROVE  NoneNew /\ \A j \in Slot : Keeps(j)
<1>1. \A j \in Slot : SamePipe(pipes[j], pipes'[j])
  BY DEF SamePipe
<1>2. \A j \in Slot : Keeps(j)
  BY PassiveFlow DEF KeyMoves
<1>. QED  BY <1>1, <1>2, SameNoneNew

\* A key is typed.
LEMMA TypeCarries ==
  ASSUME PipesInv, Carry, NEW c \in Keystrokes, Type(c)
  PROVE  Carry'
<1>1. /\ sync' = AfterPost(sync, KEY_SEM_ID) /\ getting' = getting
      /\ UNCHANGED <<pipesVars, shellPc, pipeline, shellPipe, commands, prog, fg, typed, shown, killed>>
  BY DEF Type, sendKey, Announced
<1>2. UNCHANGED <<pipes, semId, lastRead, inCall>>
  BY <1>1 DEF pipesVars
<1>3. KeyMoves
  BY <1>1, KeyPosts
<1>. QED  BY <1>1, <1>2, <1>3, IdleKeeps, QuietCarries

\* The left program, and its slot.
LEMMA LeftIs ==
  ASSUME PipesInv, Carry, NEW p \in Program, IsLeft(p), Alive(p)
  PROVE  /\ Working /\ Flowing /\ shellPc = "sleep" /\ ~ Ended /\ PipeOf(p) = OurPipe
         /\ p = Left(pipeline) /\ Right(pipeline) \in Program /\ Right(pipeline) # p
         /\ \A q \in Program : PipeOf(q) # OurPipe => q # p
         /\ p \notin killed \/ Right(pipeline) \in killed \/ commands[2] = "invalid"
         /\ fg \subseteq {Left(pipeline), Right(pipeline)} /\ killed \subseteq fg
         /\ typed \in Seq(Text) /\ shown \in Seq(Screen) /\ prog[p] \in ProgramState
         /\ \E i \in Slot : Serves(i, OurPipe)
<1>1. /\ Working /\ Flowing /\ shellPc = "sleep" /\ ~ Ended /\ PipeOf(p) = OurPipe
      /\ p = Left(pipeline)
  BY OursIs DEF Ended
<1>2. Right(pipeline) \in Program /\ Right(pipeline) # p
  BY <1>1, OurPipeIs DEF PipesInv
<1>3. \E i \in Slot : Serves(i, OurPipe)
  BY <1>1, ShellIsWorking
<1>4. HistoryOK /\ prog[p] \in ProgramState
  BY DEF Carry, PipesInv, Control, TypesOK
<1>5. ASSUME p \in killed, Right(pipeline) \notin killed, commands[2] # "invalid" PROVE FALSE
  <2>1. PICK i \in Slot : Serves(i, OurPipe)
    BY <1>3
  <2>2. \E D, G \in Seq(Text) : LeftGave(prog[p], InCall(p), p \in killed, commands[1], typed, G)
    BY <1>1, <1>5, <2>1, DeliveredWas
  <2>. QED  BY <1>5, <2>2 DEF LeftGave, Alive
<1>. QED  BY <1>1, <1>2, <1>3, <1>4, <1>5 DEF HistoryOK

\* A step of the left program, which is in slot i and may die: afterwards it has typed
\* t, and W is on its way.
LeftStep(p, i, t, W, gone) ==
  \A D, G \in Seq(Text), over \in BOOLEAN :
    LeftGave(prog[p], InCall(p), FALSE, commands[1], typed, G) /\ Between(over, FALSE, UnderWay(i), D, G)
      => \E H \in Seq(Text) : /\ LeftGave(prog'[p], inCall'[p].op # "none", gone, commands[1], t, H)
                              /\ Between(over, FALSE, W, D, H)

\* It is all that there is to say of such a step.
LEMMA LeftCarries ==
  ASSUME PipesInv, Carry, NEW p \in Program, IsLeft(p), Alive(p),
         NEW i \in Slot, Serves(i, OurPipe), OthersKeep(i), NoneNew,
         UNCHANGED <<shellPc, pipeline, shellPipe, commands, shown, fg>>,
         \A q \in Program \ {p} : prog'[q] = prog[q],
         NEW t \in Seq(Text), typed' = t, killed' \subseteq fg, killed \subseteq killed',
         NEW gone \in BOOLEAN, p \notin killed => gone = (p \in killed'),
         NEW W, UnderWay(i)' = W, LeftStep(p, i, t, W, gone)
  PROVE  Carry'
<1>1. /\ Working /\ Flowing /\ shellPc = "sleep" /\ ~ Ended /\ PipeOf(p) = OurPipe
      /\ p = Left(pipeline) /\ Right(pipeline) \in Program /\ Right(pipeline) # p
      /\ \A q \in Program : PipeOf(q) # OurPipe => q # p
      /\ p \notin killed \/ Right(pipeline) \in killed \/ commands[2] = "invalid"
      /\ fg \subseteq {Left(pipeline), Right(pipeline)}
      /\ shown \in Seq(Screen)
  BY LeftIs
<1>2. Flowing' /\ \A q \in Program : PipeOf(q) # OurPipe => prog'[q] = prog[q]
  BY <1>1 DEF Flowing
<1>3. ASSUME commands[2] # "invalid", Right(pipeline) \notin killed' PROVE Delivered(i)'
  <2>1. Right(pipeline) \notin killed /\ p \notin killed
    BY <1>1, <1>3
  <2>2. PICK r : r = Right(pipeline)
    OBVIOUS
  <2>3. PICK over \in BOOLEAN : over = (prog[r].pc \in {"count", "dead"})
    <3>1. (prog[r].pc \in {"count", "dead"}) \in BOOLEAN
      OBVIOUS
    <3>. QED  BY <3>1, Zenon
  <2>4. PICK D, G \in Seq(Text) :
           /\ LeftGave(prog[p], InCall(p), p \in killed, commands[1], typed, G)
           /\ RightShows(prog[r], commands[2], shown, D)
           /\ Between(over, Ended, UnderWay(i), D, G)
    BY <1>1, <1>3, <2>1, <2>2, <2>3, DeliveredWas
  <2>5. (p \in killed) = FALSE /\ Ended = FALSE
    BY <1>1, <2>1
  <2>6. PICK H \in Seq(Text) : /\ LeftGave(prog'[p], inCall'[p].op # "none", gone, commands[1], t, H)
                               /\ Between(over, FALSE, W, D, H)
    BY <2>4, <2>5 DEF LeftStep
  <2>7. prog'[r] = prog[r] /\ Ended' = FALSE
    BY <1>1, <2>2 DEF Ended
  <2>8. Between(prog'[r].pc \in {"count", "dead"}, Ended', W, D, H)
    BY <2>3, <2>6, <2>7
  <2>9. RightShows(prog'[r], commands'[2], shown', D)
    BY <2>4, <2>7
  <2>10. LeftGave(prog'[p], InCall(p)', p \in killed', commands'[1], typed', H)
    <3>1. InCall(p)' = (inCall'[p].op # "none")
      BY DEF InCall
    <3>. QED  BY <2>1, <2>6, <3>1
  <2>. QED  BY <1>1, <2>2, <2>8, <2>9, <2>10, DeliveredIs
<1>. QED  BY <1>1, <1>2, <1>3, FlowingCarries

\* ctrl-C: what the left program had read and not written is lost; nobody waits for
\* what the right one would have shown.
LEMMA InterruptsCarries ==
  ASSUME PipesInv, Carry, NEW p \in Program, Interrupts(p)
  PROVE  Carry'
<1>1. /\ p \in fg /\ Alive(p) /\ ~ InCall(p) /\ killed' = killed \cup {p}
      /\ prog' = [prog EXCEPT ![p] = NoProgram]
      /\ UNCHANGED <<sync, keyboardVars, pipesVars, shellPc, pipeline, shellPipe, commands, fg, typed, shown>>
  BY DEF Interrupts
<1>2. UNCHANGED <<pipes, semId, lastRead, inCall, getting>>
  BY <1>1 DEF pipesVars, keyboardVars
<1>3. NoneNew /\ \A j \in Slot : Keeps(j)
  <2>1. KeyMoves
    BY <1>1, <1>2, KeyLine DEF KeyMoves
  <2>. QED  BY <1>2, <2>1, IdleKeeps
<1>4. Flowing /\ Working /\ HistoryOK
  BY <1>1 DEF Carry, HistoryOK, Flowing, Working
<1>5. /\ p = Left(pipeline) \/ p = Right(pipeline)
      /\ Left(pipeline) # Right(pipeline) /\ IsLeft(Left(pipeline)) /\ PipeOf(p) = OurPipe
  BY <1>1, <1>4, OurPipeIs DEF HistoryOK, PipesInv
<1>6. PICK i \in Slot : Serves(i, OurPipe)
  BY <1>4, ShellIsWorking
<1>7. OthersKeep(i) /\ killed' \subseteq fg /\ fg \subseteq {Left(pipeline), Right(pipeline)}
  BY <1>1, <1>3, <1>4 DEF OthersKeep, HistoryOK
<1>8. prog' \in [Program -> ProgramState] /\ prog'[p] = NoProgram /\ \A q \in Program \ {p} : prog'[q] = prog[q]
  <2>1. NoProgram \in ProgramState /\ prog \in [Program -> ProgramState]
    BY Bounds DEF NoProgram, ProgramState, Command, PipesInv, Control, TypesOK
  <2>. QED  BY <1>1, <2>1
<1>9. CASE p = Right(pipeline)
  <2>1. Flowing' /\ typed' \in Seq(Text) /\ shown' \in Seq(Screen)
    BY <1>1, <1>4 DEF Flowing, HistoryOK
  <2>2. \A q \in Program : PipeOf(q) # OurPipe => prog'[q] = prog[q]
    BY <1>5, <1>8
  <2>3. Right(pipeline) \in killed'
    BY <1>1, <1>9
  <2>. QED  BY <1>1, <1>3, <1>4, <1>6, <1>7, <2>1, <2>2, <2>3, FlowingCarries
<1>10. CASE p = Left(pipeline)
  <2>1. PICK t \in Seq(Text) : t = typed
    BY <1>4 DEF HistoryOK
  <2>2. PICK W : W = UnderWay(i)
    OBVIOUS
  <2>3. UnderWay(i)' = W
    <3>1. Holds(i)' = Holds(i) /\ Rest(p)' = Rest(p) /\ Rest(ShellProc)' = Rest(ShellProc)
      BY <1>2, <1>3 DEF Keeps, Rest
    <3>. QED  BY <1>1, <1>10, <2>2, <3>1 DEF UnderWay
  <2>4. (inCall'[p].op # "none") = FALSE /\ (p \in killed') = TRUE
    BY <1>1, <1>2 DEF InCall
  <2>5. ASSUME NEW D \in Seq(Text), NEW G \in Seq(Text), NEW over \in BOOLEAN,
               LeftGave(prog[p], InCall(p), FALSE, commands[1], typed, G),
               Between(over, FALSE, UnderWay(i), D, G)
        PROVE  \E H \in Seq(Text) : /\ LeftGave(prog'[p], inCall'[p].op # "none", TRUE, commands[1], t, H)
                                    /\ Between(over, FALSE, W, D, H)
    <3>1. PICK a \in ProgramState : a = prog[p]
      BY DEF PipesInv, Control, TypesOK
    <3>2. InCall(p) = FALSE /\ a.pc # "dead"
      BY <1>1, <3>1 DEF Alive
    <3>3. LeftGave(a, FALSE, FALSE, commands[1], t, G)
      BY <2>1, <2>5, <3>1, <3>2
    <3>4. PICK command : command = commands[1]
      OBVIOUS
    <3>5. LeftGave(NoProgram, FALSE, TRUE, command, t, G)
      <4>1. LeftGave(a, FALSE, FALSE, command, t, G)
        BY <3>3, <3>4
      <4>. QED  BY <3>2, <4>1, LeftDies
    <3>6. LeftGave(prog'[p], inCall'[p].op # "none", TRUE, commands[1], t, G)
      BY <1>8, <2>4, <3>4, <3>5
    <3>. QED  BY <2>2, <2>5, <3>6
  <2>6. LeftStep(p, i, t, W, TRUE)
    BY <2>5 DEF LeftStep
  <2>7. killed \subseteq killed' /\ typed' = t /\ TRUE \in BOOLEAN
    BY <1>1, <2>1
  <2>. QED  BY <1>1, <1>3, <1>5, <1>6, <1>7, <1>8, <1>10, <2>3, <2>4, <2>6, <2>7, LeftCarries
<1>. QED  BY <1>5, <1>9, <1>10

\* getchar of the left program.
LEMMA LeftReadsCarries ==
  ASSUME BytesApart, PipesInv, Carry, NEW p \in Program, LeftReads(p)
  PROVE  Carry'
<1>1. /\ IsLeft(p) /\ prog[p].pc = "read"
      /\ Getchar(p) \/ GetcharReturns(p)
      /\ p \in getting' => prog' = prog /\ typed' = typed
      /\ p \notin getting' => Reads(p, taken') /\ KeyRead(p)
      /\ UNCHANGED <<pipesVars, shellPc, pipeline, shellPipe, commands, fg, killed, shown>>
  BY DEF LeftReads, kernelOnly
<1>2. Alive(p) /\ inCall[p].op = "none" /\ p \in Process /\ ~ InCall(p)
  BY <1>1, CallsAre DEF Alive, InCall
<1>3. UNCHANGED <<pipes, semId, inCall, lastRead>>
  BY <1>1 DEF pipesVars
<1>4. NoneNew /\ \A j \in Slot : Keeps(j)
  <2>1. KeyMoves
    BY <1>1, <1>2, GetcharMoves, ReturnMoves
  <2>. QED  BY <1>3, <2>1, IdleKeeps
<1>5. CASE p \in getting'
  BY <1>1, <1>3, <1>4, <1>5, QuietCarries
<1>6. CASE p \notin getting'
  <2>1. TakeKey
    BY <1>1, <1>2, <1>6, GetcharMoves, ReturnMoves
  <2>2. PICK c \in Keystrokes \cup {Zero} : c = taken'
    BY <2>1, TakeKeyCounts DEF PipesInv, Control
  <2>3. c \in PipeChar /\ c \notin StackByte
    BY PipelineAssumption DEF BytesApart
  <2>4. /\ p = Left(pipeline) /\ killed \subseteq fg /\ typed \in Seq(Text) /\ prog[p] \in ProgramState
        /\ \E i \in Slot : Serves(i, OurPipe)
    BY <1>1, <1>2, LeftIs
  <2>5. PICK i \in Slot : Serves(i, OurPipe)
    BY <2>4
  <2>6. PICK a \in ProgramState, s \in Seq(Text) : a = prog[p] /\ s = typed
    BY <2>4
  <2>. PICK t, b, command :
         t = (IF c = EOF THEN s ELSE Append(s, c)) /\ b = Received(a, c) /\ command = commands[1]
    OBVIOUS
  <2>7. t \in Seq(Text)
    BY <2>3, <2>6 DEF Text
  <2>8. typed' = t
    BY <1>1, <1>6, <2>2, <2>6 DEF KeyRead
  <2>9. prog'[p] = b /\ \A q \in Program \ {p} : prog'[q] = prog[q]
    BY <1>1, <1>6, <2>2, <2>6 DEF Reads, PipesInv, Control, TypesOK
  <2>10. PICK W : W = UnderWay(i)
    OBVIOUS
  <2>11. UnderWay(i)' = W
    <3>1. Holds(i)' = Holds(i) /\ Rest(p)' = Rest(p) /\ Rest(ShellProc)' = Rest(ShellProc)
      BY <1>3, <1>4 DEF Keeps, Rest
    <3>. QED  BY <1>1, <2>4, <2>10, <3>1 DEF UnderWay
  <2>12. InCall(p) = FALSE /\ (inCall'[p].op # "none") = FALSE
    BY <1>2, <1>3 DEF InCall
  <2>13. ASSUME NEW D \in Seq(Text), NEW G \in Seq(Text), NEW over \in BOOLEAN,
                LeftGave(prog[p], InCall(p), FALSE, commands[1], typed, G),
                Between(over, FALSE, UnderWay(i), D, G)
         PROVE  \E H \in Seq(Text) : /\ LeftGave(prog'[p], inCall'[p].op # "none", FALSE, commands[1], t, H)
                                     /\ Between(over, FALSE, W, D, H)
    <3>1. LeftGave(a, FALSE, FALSE, command, s, G) /\ a.pc = "read"
      BY <1>1, <2>6, <2>12, <2>13
    <3>2. LeftGave(b, FALSE, FALSE, command, t, G)
      <4>1. CASE c = EOF
        BY <2>6, <3>1, <4>1, LeftEnds
      <4>2. CASE c # EOF
        <5>1. c \in Text
          BY <2>3, <4>2 DEF Text
        <5>. QED  BY <2>6, <3>1, <4>2, <5>1, LeftTypes
      <4>. QED  BY <4>1, <4>2
    <3>3. LeftGave(prog'[p], inCall'[p].op # "none", FALSE, commands[1], t, G)
      BY <2>6, <2>9, <2>12, <3>2
    <3>. QED  BY <2>10, <2>13, <3>3
  <2>14. LeftStep(p, i, t, W, FALSE)
    BY <2>13 DEF LeftStep
  <2>15. OthersKeep(i)
    BY <1>4 DEF OthersKeep
  <2>16. killed' \subseteq fg /\ killed \subseteq killed' /\ FALSE \in BOOLEAN
    BY <1>1, <2>4
  <2>17. p \notin killed => FALSE = (p \in killed')
    BY <1>1
  <2>18. UNCHANGED <<shellPc, pipeline, shellPipe, commands, shown, fg>>
    BY <1>1
  <2>. QED  BY <1>1, <1>2, <1>4, <2>5, <2>7, <2>8, <2>9, <2>11, <2>14, <2>15, <2>16, <2>17, <2>18, LeftCarries
<1>. QED  BY <1>5, <1>6

\* What is left of a call that wrote s of its characters, the others being on their way.
LEMMA SentOn ==
  ASSUME NEW h \in Seq(PipeChar), NEW s \in Seq(PipeChar), NEW r \in Seq(PipeChar)
  PROVE  ((h \o s) \o r) \o <<>> = h \o (s \o r)
<1>1. (h \o s) \o r = h \o (s \o r)
  BY ConcatAssociative
<1>2. (h \o s) \o r \in Seq(PipeChar)
  <2>1. h \o s \in Seq(PipeChar)
    OBVIOUS
  <2>. QED  BY <2>1
<1>3. ((h \o s) \o r) \o <<>> = (h \o s) \o r
  BY <1>2
<1>. QED  BY <1>1, <1>3

\* What a process has yet to write are characters.
LEMMA RestIs ==
  ASSUME inCall' \in [Process -> Call], NEW p \in Process
  PROVE  Rest(p)' \in Seq(PipeChar)
<1>1. inCall'[p] \in Call
  OBVIOUS
<1>2. CASE inCall'[p].op = "pWrite"
  <2>1. inCall'[p].rest \in Seq(PipeChar)
    BY <1>1, <1>2 DEF Call
  <2>. QED  BY <1>2, <2>1 DEF Rest
<1>3. CASE inCall'[p].op # "pWrite"
  BY <1>3 DEF Rest
<1>. QED  BY <1>2, <1>3

\* A pWrite of str by the left program: all of it is on its way.
LEMMA LeftSends ==
  ASSUME PipesInv, Working, shellPc = "sleep", NEW p, p \in Program, p = Left(pipeline),
         NEW i \in Slot, Serves(i, OurPipe), Stays(p, i, "pWrite"), pipeline' = pipeline,
         NEW str \in Seq(PipeChar), Sends(p, i, str)
  PROVE  Holds(i) \in Seq(PipeChar) /\ UnderWay(i)' = Holds(i) \o str
         /\ UnderWay(i) = (Holds(i) \o Rest(p)) \o <<>>
<1>1. Holds(i) \in Seq(PipeChar) /\ Rest(ShellProc) = <<>> /\ UnderWay(i) = (Holds(i) \o Rest(p)) \o <<>>
  BY UnderWayIs
<1>2. PICK s \in Seq(PipeChar) : Holds(i)' = Holds(i) \o s /\ str = s \o Rest(p)'
  BY DEF Sends
<1>3. inCall' \in [Process -> Call] /\ ShellProc \in Process /\ p \in Process /\ p # ShellProc
  BY Bounds DEF Stays
<1>4. Rest(ShellProc)' = <<>>
  <2>1. inCall'[ShellProc] = inCall[ShellProc]
    BY <1>3 DEF Stays
  <2>2. Rest(ShellProc)' = Rest(ShellProc)
    BY <2>1 DEF Rest
  <2>. QED  BY <1>1, <2>2
<1>5. PICK r \in Seq(PipeChar), h \in Seq(PipeChar) : r = Rest(p)' /\ h = Holds(i)
  BY <1>1, <1>3, RestIs
<1>6. UnderWay(i)' = (Holds(i)' \o Rest(p)') \o Rest(ShellProc)'
  BY DEF UnderWay
<1>7. UnderWay(i)' = ((h \o s) \o r) \o <<>>
  BY <1>2, <1>4, <1>5, <1>6
<1>8. ((h \o s) \o r) \o <<>> = h \o (s \o r)
  BY SentOn
<1>. QED  BY <1>1, <1>2, <1>5, <1>7, <1>8

\* The left program in the middle of its call, or after it.
LEMMA LeftWrote ==
  ASSUME NEW p \in Program, prog \in [Program -> ProgramState], prog[p].pc \in {"write", "count"},
         WhenWritten(p), NEW command, NEW s, NEW G, LeftGave(prog[p], TRUE, FALSE, command, s, G)
  PROVE  /\ LeftGave(prog'[p], inCall'[p].op # "none", FALSE, command, s, G)
         /\ \A q \in Program \ {p} : prog'[q] = prog[q]
<1>1. PICK a \in ProgramState : a = prog[p]
  OBVIOUS
<1>2. CASE inCall'[p].op = "none"
  <2>1. prog'[p] = Resumes(a) /\ \A q \in Program \ {p} : prog'[q] = prog[q]
    BY <1>1, <1>2 DEF WhenWritten, AfterWrite, Resumes
  <2>2. LeftGave(Resumes(a), FALSE, FALSE, command, s, G)
    BY <1>1, LeftGoes
  <2>3. (inCall'[p].op # "none") = FALSE
    BY <1>2
  <2>. QED  BY <2>1, <2>2, <2>3
<1>3. CASE inCall'[p].op # "none"
  <2>1. prog' = prog /\ (inCall'[p].op # "none") = TRUE
    BY <1>3 DEF WhenWritten
  <2>. QED  BY <2>1
<1>. QED  BY <1>2, <1>3

\* What it writes is a character of the text, or its count.
LEMMA OutIsText ==
  ASSUME BytesApart, NEW a \in ProgramState, a.pc \in {"write", "count"}, Out(a) \in PipeChar,
         NEW command, NEW s, NEW G, LeftGave(a, FALSE, FALSE, command, s, G)
  PROVE  Out(a) \in Text
<1>1. CASE a.pc = "write"
  BY <1>1 DEF LeftGave, Out
<1>2. CASE a.pc = "count"
  <2>1. PICK n \in Nat : n = 1 + a.lines
    BY DEF ProgramState
  <2>2. ToString(n) \notin StackByte \cup {EOF}
    BY DEF BytesApart
  <2>. QED  BY <1>2, <2>1, <2>2 DEF Text, Out
<1>. QED  BY <1>1, <1>2

\* putchar of the left program.
LEMMA LeftWritesCarries ==
  ASSUME BytesApart, PipesInv, Carry, NEW p \in Program, LeftWrites(p)
  PROVE  Carry'
<1>. DEFINE j == getPipeIdx(PipeOf(p))
<1>1. /\ IsLeft(p) /\ prog[p].pc \in {"write", "count"} /\ inCall[p].op = "none" /\ Alive(p) /\ ~ InCall(p)
      /\ IF j = -1 THEN AfterWrite(p) /\ UNCHANGED <<sync, pipesVars>>
                   ELSE /\ \E tail \in StackTail : pWrite(p, j, <<Output(p)>> \o tail)
                        /\ WhenWritten(p)
      /\ UNCHANGED <<keyboardVars, shellPc, pipeline, shellPipe, commands, fg, killed, typed, shown>>
  BY DEF LeftWrites, kernelOnly, InCall, Alive
<1>2. j \in Slot /\ j # -1 /\ Serves(j, PipeOf(p)) /\ Whole(j) /\ p \in Process
  BY <1>1, PipeFound, CallsAre
<1>3. PICK tail \in StackTail : pWrite(p, j, <<Output(p)>> \o tail)
  BY <1>1, <1>2
<1>4. PICK x \in PipeChar : x = Output(p)
  BY <1>1, OutputIsChar
<1>5. PICK i \in Slot, str \in Seq(PipeChar) : i = j /\ str = <<x>> \o tail
  <2>1. <<x>> \in Seq(PipeChar)
    OBVIOUS
  <2>. QED  BY <1>2, <2>1, StackTails
<1>. HIDE DEF j
<1>6. Whole(i) /\ Serves(i, PipeOf(p)) /\ pWrite(p, i, str) /\ getting' = getting /\ WhenWritten(p)
  BY <1>1, <1>2, <1>3, <1>4, <1>5 DEF keyboardVars
<1>7. OthersKeep(i) /\ Stays(p, i, "pWrite") /\ Sends(p, i, str)
  BY <1>1, <1>2, <1>6, WriteFlows
<1>8. /\ Working /\ shellPc = "sleep" /\ p = Left(pipeline) /\ Serves(i, OurPipe)
      /\ killed \subseteq fg /\ typed \in Seq(Text)
  BY <1>1, <1>6, LeftIs
<1>9. NoneNew
  BY <1>7, SameNoneNew DEF Stays
<1>10. PICK W : W = Holds(i) \o str /\ UnderWay(i)' = W
  BY <1>1, <1>7, <1>8, LeftSends
<1>11. UnderWay(i) = Holds(i) /\ Holds(i) \in Seq(PipeChar)
  <2>1. Holds(i) \in Seq(PipeChar) /\ Rest(p) = <<>> /\ UnderWay(i) = (Holds(i) \o Rest(p)) \o <<>>
    BY <1>1, <1>7, <1>8, LeftSends DEF Rest
  <2>2. PICK h \in Seq(PipeChar) : h = Holds(i)
    BY <2>1
  <2>3. (h \o <<>>) \o <<>> = h
    OBVIOUS
  <2>. QED  BY <2>1, <2>2, <2>3
<1>12. PICK a \in ProgramState, t \in Seq(Text) : a = prog[p] /\ t = typed
  <2>1. prog[p] \in ProgramState
    BY DEF PipesInv, Control, TypesOK
  <2>. QED  BY <1>8, <2>1
<1>13. x = Out(a)
  BY <1>4, <1>12 DEF Output, Out
<1>14. (\A q \in Program \ {p} : prog'[q] = prog[q]) /\ prog \in [Program -> ProgramState]
  <2>1. prog \in [Program -> ProgramState]
    BY DEF PipesInv, Control, TypesOK
  <2>. QED  BY <1>6, <2>1 DEF WhenWritten, AfterWrite
<1>15. ASSUME NEW D \in Seq(Text), NEW G \in Seq(Text), NEW over \in BOOLEAN,
              LeftGave(prog[p], InCall(p), FALSE, commands[1], typed, G),
              Between(over, FALSE, UnderWay(i), D, G)
       PROVE  \E H \in Seq(Text) : /\ LeftGave(prog'[p], inCall'[p].op # "none", FALSE, commands[1], t, H)
                                   /\ Between(over, FALSE, W, D, H)
  <2>. PICK command : command = commands[1]
    OBVIOUS
  <2>1. LeftGave(a, FALSE, FALSE, command, t, G) /\ a.pc \in {"write", "count"}
    <3>1. InCall(p) = FALSE
      BY <1>1 DEF InCall
    <3>. QED  BY <1>1, <1>12, <1>15, <3>1
  <2>2. x \in Text
    BY <1>13, <2>1, OutIsText
  <2>3. PICK H \in Seq(Text) : H = Append(G, x)
    <3>1. Append(G, x) \in Seq(Text)
      BY <2>2
    <3>. QED  BY <3>1
  <2>4. LeftGave(a, TRUE, FALSE, command, t, H)
    BY <1>13, <2>1, <2>3, LeftGives
  <2>5. LeftGave(prog'[p], inCall'[p].op # "none", FALSE, command, t, H)
    <3>1. LeftGave(prog[p], TRUE, FALSE, command, t, H)
      BY <1>12, <2>4
    <3>. QED  BY <1>1, <1>6, <1>14, <3>1, LeftWrote
  <2>6. PICK h \in Seq(PipeChar) : h = Holds(i) /\ Between(over, FALSE, h, D, G)
    BY <1>11, <1>15
  <2>7. Between(over, FALSE, h \o (<<x>> \o tail), D, Append(G, x))
    BY <2>2, <2>6, BetweenGives
  <2>8. Between(over, FALSE, W, D, H)
    BY <1>5, <1>10, <2>3, <2>6, <2>7
  <2>. QED  BY <1>12, <2>5, <2>8
<1>16. LeftStep(p, i, t, W, FALSE)
  BY <1>15 DEF LeftStep
<1>17. killed' \subseteq fg /\ killed \subseteq killed' /\ typed' = t
  BY <1>1, <1>8, <1>12
<1>18. (p \notin killed => FALSE = (p \in killed')) /\ FALSE \in BOOLEAN
  BY <1>1
<1>19. UNCHANGED <<shellPc, pipeline, shellPipe, commands, shown, fg>>
  BY <1>1
<1>. QED  BY <1>1, <1>7, <1>8, <1>9, <1>10, <1>14, <1>16, <1>17, <1>18, <1>19, LeftCarries

\* The same after a sleep.
LEMMA LeftGoesOnCarries ==
  ASSUME PipesInv, Carry, NEW p \in Program, LeftGoesOn(p)
  PROVE  Carry'
<1>1. /\ IsLeft(p) /\ pWriteGoesOn(p) /\ WhenWritten(p) /\ inCall[p].op = "pWrite" /\ getting' = getting
      /\ UNCHANGED <<keyboardVars, shellPc, pipeline, shellPipe, commands, fg, killed, typed, shown>>
  BY DEF LeftGoesOn, kernelOnly, pWriteGoesOn, keyboardVars
<1>2. /\ prog[p].pc \in {"write", "count"} /\ Serves(inCall[p].slot, PipeOf(p)) /\ p \in Process
      /\ Alive(p) /\ inCall[p] \in Call
  BY <1>1, CallsAre DEF Alive, PipesInv, Control, TypesOK
<1>3. PICK i \in Slot, str \in Seq(PipeChar) : i = inCall[p].slot /\ str = inCall[p].rest
  BY <1>1, <1>2 DEF Serves, Call
<1>4. Whole(i) /\ Serves(i, PipeOf(p)) /\ inCall[p].slot = i
  BY <1>2, <1>3 DEF Serves
<1>5. OthersKeep(i) /\ Stays(p, i, "pWrite") /\ Sends(p, i, str)
  BY <1>1, <1>2, <1>3, <1>4, GoesOnFlows
<1>6. /\ Working /\ shellPc = "sleep" /\ p = Left(pipeline) /\ Serves(i, OurPipe)
      /\ killed \subseteq fg /\ typed \in Seq(Text)
  BY <1>1, <1>2, <1>4, LeftIs
<1>7. NoneNew
  BY <1>5, SameNoneNew DEF Stays
<1>8. PICK W : W = Holds(i) \o str /\ UnderWay(i)' = W
  BY <1>1, <1>5, <1>6, LeftSends
<1>9. UnderWay(i) = W
  <2>1. Holds(i) \in Seq(PipeChar) /\ Rest(p) = str /\ UnderWay(i) = (Holds(i) \o Rest(p)) \o <<>>
    BY <1>1, <1>3, <1>5, <1>6, LeftSends DEF Rest
  <2>2. PICK h \in Seq(PipeChar) : h = Holds(i)
    BY <2>1
  <2>3. (h \o str) \o <<>> = h \o str
    <3>1. h \o str \in Seq(PipeChar)
      OBVIOUS
    <3>. QED  BY <3>1
  <2>. QED  BY <1>8, <2>1, <2>2, <2>3
<1>10. PICK t \in Seq(Text) : t = typed
  BY <1>6
<1>. PICK command : command = commands[1]
  OBVIOUS
<1>11. (\A q \in Program \ {p} : prog'[q] = prog[q]) /\ prog \in [Program -> ProgramState]
  <2>1. prog \in [Program -> ProgramState]
    BY DEF PipesInv, Control, TypesOK
  <2>. QED  BY <1>1, <2>1 DEF WhenWritten, AfterWrite
<1>12. ASSUME NEW D \in Seq(Text), NEW G \in Seq(Text), NEW over \in BOOLEAN,
              LeftGave(prog[p], InCall(p), FALSE, commands[1], typed, G),
              Between(over, FALSE, UnderWay(i), D, G)
       PROVE  \E H \in Seq(Text) : /\ LeftGave(prog'[p], inCall'[p].op # "none", FALSE, commands[1], t, H)
                                   /\ Between(over, FALSE, W, D, H)
  <2>1. LeftGave(prog[p], TRUE, FALSE, command, t, G)
    <3>1. InCall(p) = TRUE
      BY <1>1 DEF InCall
    <3>. QED  BY <1>10, <1>12, <3>1
  <2>2. LeftGave(prog'[p], inCall'[p].op # "none", FALSE, command, t, G)
    BY <1>1, <1>2, <1>11, <2>1, LeftWrote
  <2>. QED  BY <1>9, <1>10, <1>12, <2>2
<1>13. LeftStep(p, i, t, W, FALSE)
  BY <1>12 DEF LeftStep
<1>14. killed' \subseteq fg /\ killed \subseteq killed' /\ typed' = t
  BY <1>1, <1>6, <1>10
<1>15. (p \notin killed => FALSE = (p \in killed')) /\ FALSE \in BOOLEAN
  BY <1>1
<1>16. UNCHANGED <<shellPc, pipeline, shellPipe, commands, shown, fg>>
  BY <1>1
<1>. QED  BY <1>1, <1>2, <1>5, <1>6, <1>7, <1>8, <1>11, <1>13, <1>14, <1>15, <1>16, LeftCarries

-----------------------------------------------------------------------------
(***************************************************************************)
(* The right program.                                                      *)
(***************************************************************************)
\* A step of the right program: afterwards the screen shows t, and W is on its way.
RightStep(p, i, t, W, ended) ==
  \A D, G \in Seq(Text) :
    /\ RightShows(prog[p], commands[2], shown, D)
    /\ Between(prog[p].pc \in {"count", "dead"}, ended, UnderWay(i), D, G)
    => \E E \in Seq(Text) : /\ RightShows(prog'[p], commands[2], t, E)
                            /\ Between(prog'[p].pc \in {"count", "dead"}, ended, W, E, G)

\* The right program, and its slot.
LEMMA RightIs ==
  ASSUME PipesInv, Carry, NEW p \in Program, ~ IsLeft(p), Alive(p),
         prog[p].pc = "read" => \E i \in Slot : Serves(i, PipeOf(p)) /\ Holds(i) # <<>>
  PROVE  /\ Working /\ Flowing /\ PipeOf(p) = OurPipe
         /\ p = Right(pipeline) /\ Left(pipeline) \in Program /\ Left(pipeline) # p
         /\ \A q \in Program : PipeOf(q) # OurPipe => q # p
         /\ fg \subseteq {Left(pipeline), Right(pipeline)} /\ killed \subseteq fg
         /\ typed \in Seq(Text) /\ shown \in Seq(Screen) /\ prog[p] \in ProgramState
         /\ \E i \in Slot : Serves(i, OurPipe)
<1>1. Working /\ Flowing /\ PipeOf(p) = OurPipe /\ p = Right(pipeline)
  BY OursIs
<1>2. Left(pipeline) \in Program /\ Left(pipeline) # p
  BY <1>1, OurPipeIs DEF PipesInv
<1>3. \E i \in Slot : Serves(i, OurPipe)
  BY <1>1, ShellIsWorking
<1>4. HistoryOK /\ prog[p] \in ProgramState
  BY DEF Carry, PipesInv, Control, TypesOK
<1>. QED  BY <1>1, <1>2, <1>3, <1>4 DEF HistoryOK

\* It is all that there is to say of such a step.
LEMMA RightCarries ==
  ASSUME PipesInv, Carry, NEW p \in Program, ~ IsLeft(p), Alive(p), p = Right(pipeline),
         Working, Flowing, PipeOf(p) = OurPipe,
         NEW i \in Slot, Serves(i, OurPipe), OthersKeep(i), NoneNew,
         UNCHANGED <<shellPc, pipeline, shellPipe, commands, typed, fg, killed>>,
         \A q \in Program \ {p} : prog'[q] = prog[q],
         \A q \in Process \ {p} : inCall'[q] = inCall[q],
         NEW t \in Seq(Screen), shown' = t,
         NEW ended \in BOOLEAN, ended = Ended,
         NEW W, UnderWay(i)' = W, RightStep(p, i, t, W, ended)
  PROVE  Carry'
<1>1. /\ Flowing' /\ Left(pipeline) \in Program /\ Left(pipeline) # p /\ Left(pipeline) \in Process
      /\ typed \in Seq(Text) /\ fg \subseteq {Left(pipeline), Right(pipeline)} /\ killed \subseteq fg
      /\ \A q \in Program : PipeOf(q) # OurPipe => prog'[q] = prog[q]
  BY OurPipeIs, Bounds DEF PipesInv, Flowing, Carry, HistoryOK
<1>2. ASSUME commands[2] # "invalid", Right(pipeline) \notin killed PROVE Delivered(i)'
  <2>1. PICK l \in Program : l = Left(pipeline) /\ l \in Process /\ l # p
    BY <1>1
  <2>2. PICK D, G \in Seq(Text) :
           /\ LeftGave(prog[l], InCall(l), l \in killed, commands[1], typed, G)
           /\ RightShows(prog[p], commands[2], shown, D)
           /\ Between(prog[p].pc \in {"count", "dead"}, Ended, UnderWay(i), D, G)
    BY <1>2, <2>1, DeliveredWas
  <2>3. PICK E \in Seq(Text) : /\ RightShows(prog'[p], commands[2], t, E)
                               /\ Between(prog'[p].pc \in {"count", "dead"}, ended, W, E, G)
    BY <2>2 DEF RightStep
  <2>4. prog'[l] = prog[l] /\ InCall(l)' = InCall(l) /\ Ended' = ended
    BY <2>1 DEF InCall, Ended
  <2>5. LeftGave(prog'[l], InCall(l)', l \in killed', commands'[1], typed', G)
    BY <2>2, <2>4
  <2>6. RightShows(prog'[p], commands'[2], shown', E)
    BY <2>3
  <2>7. Between(prog'[p].pc \in {"count", "dead"}, Ended', W, E, G)
    BY <2>3, <2>4
  <2>. QED  BY <2>1, <2>5, <2>6, <2>7, DeliveredIs
<1>. QED  BY <1>1, <1>2, FlowingCarries

\* It writes to the screen.
LEMMA RightWritesCarries ==
  ASSUME BytesApart, PipesInv, Carry, NEW p \in Program, RightWrites(p)
  PROVE  Carry'
<1>1. /\ ~ IsLeft(p) /\ prog[p].pc \in {"write", "count"} /\ AfterWrite(p) /\ Alive(p)
      /\ shown' = Append(shown, Output(p))
      /\ UNCHANGED <<sync, keyboardVars, pipesVars, shellPc, pipeline, shellPipe, commands, fg, killed, typed>>
  BY DEF RightWrites, kernelOnly, Alive
<1>2. UNCHANGED <<pipes, semId, lastRead, inCall, getting>>
  BY <1>1 DEF pipesVars, keyboardVars
<1>3. NoneNew /\ \A j \in Slot : Keeps(j)
  <2>1. KeyMoves
    BY <1>1, <1>2, KeyLine DEF KeyMoves
  <2>. QED  BY <1>2, <2>1, IdleKeeps
<1>4. /\ Working /\ Flowing /\ PipeOf(p) = OurPipe /\ p = Right(pipeline)
      /\ shown \in Seq(Screen) /\ prog[p] \in ProgramState /\ \E i \in Slot : Serves(i, OurPipe)
  BY <1>1, RightIs
<1>5. PICK i \in Slot : Serves(i, OurPipe)
  BY <1>4
<1>6. OthersKeep(i)
  BY <1>3 DEF OthersKeep
<1>7. PICK a \in ProgramState, s \in Seq(Screen) : a = prog[p] /\ s = shown /\ a.pc \in {"write", "count"}
  BY <1>1, <1>4
<1>8. Output(p) = Out(a)
  BY <1>7 DEF Output, Out
<1>9. prog'[p] = Resumes(a) /\ \A q \in Program \ {p} : prog'[q] = prog[q]
  <2>1. prog \in [Program -> ProgramState]
    BY DEF PipesInv, Control, TypesOK
  <2>. QED  BY <1>1, <1>7, <2>1 DEF AfterWrite, Resumes
<1>10. Out(a) \in Screen
  <2>1. CASE a.pc = "write"
    BY <2>1 DEF Out, Screen, ProgramState
  <2>2. CASE a.pc = "count"
    <3>1. PICK n \in Nat : n = 1 + a.lines
      BY DEF ProgramState
    <3>. QED  BY <2>2, <3>1 DEF Out, Screen
  <2>. QED  BY <1>7, <2>1, <2>2
<1>11. PICK t \in Seq(Screen) : t = Append(s, Out(a))
  <2>1. Append(s, Out(a)) \in Seq(Screen)
    BY <1>10
  <2>. QED  BY <2>1
<1>12. shown' = t
  BY <1>1, <1>7, <1>8, <1>11
<1>13. PICK W : W = UnderWay(i)
  OBVIOUS
<1>14. UnderWay(i)' = W
  <2>1. PICK l : l = Left(pipeline)
    OBVIOUS
  <2>2. Holds(i)' = Holds(i) /\ Rest(l)' = Rest(l) /\ Rest(ShellProc)' = Rest(ShellProc)
    BY <1>2, <1>3 DEF Keeps, Rest
  <2>. QED  BY <1>1, <1>13, <2>1, <2>2 DEF UnderWay
<1>15. PICK ended \in BOOLEAN : ended = Ended
  <2>1. Ended \in BOOLEAN
    BY DEF Ended
  <2>. QED  BY <2>1
<1>16. ASSUME NEW D \in Seq(Text), NEW G \in Seq(Text),
              RightShows(prog[p], commands[2], shown, D),
              Between(prog[p].pc \in {"count", "dead"}, ended, UnderWay(i), D, G)
       PROVE  \E E \in Seq(Text) : /\ RightShows(prog'[p], commands[2], t, E)
                                   /\ Between(prog'[p].pc \in {"count", "dead"}, ended, W, E, G)
  <2>. PICK command : command = commands[2]
    OBVIOUS
  <2>1. RightShows(a, command, s, D)
    BY <1>7, <1>16
  <2>2. RightShows(Resumes(a), command, t, D) /\ Resumes(a).pc = (IF a.pc = "count" THEN "dead" ELSE "read")
    BY <1>7, <1>11, <2>1, RightPrints
  <2>3. (prog'[p].pc \in {"count", "dead"}) = (prog[p].pc \in {"count", "dead"})
    BY <1>7, <1>9, <2>2
  <2>4. Between(prog'[p].pc \in {"count", "dead"}, ended, W, D, G)
    BY <1>13, <1>16, <2>3
  <2>. QED  BY <1>9, <2>2, <2>4
<1>17. RightStep(p, i, t, W, ended)
  BY <1>16 DEF RightStep
<1>18. UNCHANGED <<shellPc, pipeline, shellPipe, commands, typed, fg, killed>>
  BY <1>1
<1>19. \A q \in Process \ {p} : inCall'[q] = inCall[q]
  BY <1>2
<1>. QED  BY <1>1, <1>3, <1>4, <1>5, <1>6, <1>9, <1>12, <1>14, <1>15, <1>17, <1>18, <1>19, RightCarries

\* Concatenation is associative.
LEMMA InARow ==
  ASSUME NEW s \in Seq(PipeChar), NEW t \in Seq(PipeChar), NEW u \in Seq(PipeChar)
  PROVE  (s \o t) \o u = s \o (t \o u)
BY ConcatAssociative

\* The first character, and what follows it.
LEMMA FirstOut ==
  ASSUME NEW h \in Seq(PipeChar), h # <<>>, NEW r \in Seq(PipeChar), NEW q \in Seq(PipeChar),
         NEW c \in PipeChar, c = Head(h)
  PROVE  /\ (Tail(h) \o r) \o q \in Seq(PipeChar)
         /\ (h \o r) \o q = <<c>> \o ((Tail(h) \o r) \o q)
<1>1. PICK t \in Seq(PipeChar) : t = Tail(h)
  <2>1. Tail(h) \in Seq(PipeChar)
    OBVIOUS
  <2>. QED  BY <2>1
<1>2. PICK e \in Seq(PipeChar) : e = <<c>>
  <2>1. <<c>> \in Seq(PipeChar)
    OBVIOUS
  <2>. QED  BY <2>1
<1>3. h = e \o t
  BY <1>1, <1>2
<1>4. PICK u \in Seq(PipeChar) : u = t \o r
  <2>1. t \o r \in Seq(PipeChar)
    OBVIOUS
  <2>. QED  BY <2>1
<1>5. (e \o t) \o r = e \o u
  BY <1>4, InARow
<1>6. (e \o u) \o q = e \o (u \o q)
  BY InARow
<1>7. u \o q \in Seq(PipeChar)
  OBVIOUS
<1>. QED  BY <1>1, <1>2, <1>3, <1>4, <1>5, <1>6, <1>7

\* The right program takes c, the first character of its pipe.
LEMMA TakesCarries ==
  ASSUME BytesApart, PipesInv, Carry, NEW p \in Program, ~ IsLeft(p), prog[p].pc = "read",
         NEW i \in Slot, Serves(i, PipeOf(p)), OthersKeep(i), Takes(i), Stays(p, i, "pRead"),
         NEW c \in PipeChar, Reads(p, c), lastRead'[i] = c,
         UNCHANGED <<shellPc, pipeline, shellPipe, commands, typed, shown, fg, killed>>
  PROVE  Carry'
<1>1. Alive(p) /\ Holds(i) # <<>> /\ Holds(i)' = Tail(Holds(i)) /\ c = Head(Holds(i))
  BY DEF Alive, Takes
<1>2. /\ Working /\ Flowing /\ PipeOf(p) = OurPipe /\ p = Right(pipeline) /\ Serves(i, OurPipe)
      /\ shown \in Seq(Screen) /\ prog[p] \in ProgramState
      /\ Left(pipeline) \in Program /\ Left(pipeline) # p
  BY <1>1, RightIs
<1>3. NoneNew
  BY SameNoneNew DEF Stays
<1>4. PICK a \in ProgramState, s \in Seq(Screen) : a = prog[p] /\ s = shown /\ a.pc = "read"
  BY <1>2
<1>5. prog'[p] = Received(a, c) /\ \A q \in Program \ {p} : prog'[q] = prog[q]
  <2>1. prog \in [Program -> ProgramState]
    BY DEF PipesInv, Control, TypesOK
  <2>. QED  BY <1>4, <2>1 DEF Reads
<1>6. PICK l : l = Left(pipeline) /\ l \in Program /\ l # p
  BY <1>2
<1>7. l \in Process \ {p} /\ ShellProc \in Process \ {p}
  BY <1>6, Bounds
<1>8. Rest(l)' = Rest(l) /\ Rest(ShellProc)' = Rest(ShellProc)
  <2>1. inCall'[l] = inCall[l] /\ inCall'[ShellProc] = inCall[ShellProc]
    BY <1>7 DEF Stays
  <2>. QED  BY <2>1 DEF Rest
<1>9. /\ Holds(i) \in Seq(PipeChar) /\ Rest(l) \in Seq(PipeChar) /\ Rest(ShellProc) \in Seq(PipeChar)
      /\ UnderWay(i) = (Holds(i) \o Rest(l)) \o Rest(ShellProc)
  BY <1>2, <1>6, UnderWayIs
<1>10. PICK W \in Seq(PipeChar) : W = (Tail(Holds(i)) \o Rest(l)) \o Rest(ShellProc)
                                  /\ UnderWay(i) = <<c>> \o W
  <2>1. PICK h \in Seq(PipeChar), r \in Seq(PipeChar), q \in Seq(PipeChar) :
          h = Holds(i) /\ r = Rest(l) /\ q = Rest(ShellProc)
    BY <1>9
  <2>2. /\ (Tail(h) \o r) \o q \in Seq(PipeChar)
        /\ (h \o r) \o q = <<c>> \o ((Tail(h) \o r) \o q)
    BY <1>1, <2>1, FirstOut
  <2>. QED  BY <1>9, <2>1, <2>2
<1>11. UnderWay(i)' = W
  <2>1. UnderWay(i)' = (Holds(i)' \o Rest(l)') \o Rest(ShellProc)'
    BY <1>6 DEF UnderWay
  <2>. QED  BY <1>1, <1>8, <1>10, <2>1
<1>12. PICK ended \in BOOLEAN : ended = Ended
  <2>1. Ended \in BOOLEAN
    BY DEF Ended
  <2>. QED  BY <2>1
<1>13. ASSUME NEW D \in Seq(Text), NEW G \in Seq(Text),
              RightShows(prog[p], commands[2], shown, D),
              Between(prog[p].pc \in {"count", "dead"}, ended, UnderWay(i), D, G)
       PROVE  \E E \in Seq(Text) : /\ RightShows(prog'[p], commands[2], s, E)
                                   /\ Between(prog'[p].pc \in {"count", "dead"}, ended, W, E, G)
  <2>. PICK command : command = commands[2]
    OBVIOUS
  <2>1. RightShows(a, command, s, D)
    BY <1>4, <1>13
  <2>2. Between(FALSE, ended, <<c>> \o W, D, G)
    <3>1. (prog[p].pc \in {"count", "dead"}) = FALSE
      BY <1>4
    <3>. QED  BY <1>10, <1>13, <3>1
  <2>3. \/ c = EOF /\ ended /\ D = G
        \/ c \in Text /\ Between(FALSE, ended, W, Append(D, c), G)
        \/ c \in StackByte /\ c # EOF /\ Between(FALSE, ended, W, D, G)
    BY <2>2, BetweenTakes
  <2>4. CASE c = EOF /\ ended /\ D = G
    <3>1. RightShows(Received(a, EOF), command, s, D) /\ Received(a, EOF).pc \in {"count", "dead"}
      BY <1>4, <2>1, RightEnds
    <3>2. (prog'[p].pc \in {"count", "dead"}) = TRUE
      BY <1>5, <2>4, <3>1
    <3>3. Between(prog'[p].pc \in {"count", "dead"}, ended, W, D, G)
      BY <2>4, <3>2 DEF Between
    <3>. QED  BY <1>5, <2>4, <3>1, <3>3
  <2>5. CASE c \in Text /\ Between(FALSE, ended, W, Append(D, c), G)
    <3>1. PICK E \in Seq(Text) : E = Append(D, c)
      <4>1. Append(D, c) \in Seq(Text)
        BY <2>5
      <4>. QED  BY <4>1
    <3>2. RightShows(Received(a, c), command, s, E) /\ Received(a, c).pc \notin {"count", "dead"}
      BY <1>4, <2>1, <2>5, <3>1, RightTakes
    <3>3. (prog'[p].pc \in {"count", "dead"}) = FALSE
      BY <1>5, <3>2
    <3>4. Between(prog'[p].pc \in {"count", "dead"}, ended, W, E, G)
      BY <2>5, <3>1, <3>3
    <3>. QED  BY <1>5, <3>2, <3>4
  <2>6. CASE c \in StackByte /\ c # EOF /\ Between(FALSE, ended, W, D, G)
    <3>1. RightShows(Received(a, c), command, s, D) /\ Received(a, c).pc \notin {"count", "dead"}
      BY <1>4, <2>1, <2>6, RightPasses
    <3>2. (prog'[p].pc \in {"count", "dead"}) = FALSE
      BY <1>5, <3>1
    <3>3. Between(prog'[p].pc \in {"count", "dead"}, ended, W, D, G)
      BY <2>6, <3>2
    <3>. QED  BY <1>5, <3>1, <3>3
  <2>. QED  BY <2>3, <2>4, <2>5, <2>6
<1>14. RightStep(p, i, s, W, ended)
  BY <1>13 DEF RightStep
<1>15. UNCHANGED <<shellPc, pipeline, shellPipe, commands, typed, fg, killed>> /\ shown' = s
  BY <1>4
<1>16. \A q \in Process \ {p} : inCall'[q] = inCall[q]
  BY DEF Stays
<1>. QED  BY <1>1, <1>2, <1>3, <1>5, <1>11, <1>12, <1>14, <1>15, <1>16, RightCarries

\* A read notes the character it takes.
LEMMA ReadIsLast ==
  ASSUME PipesInv, NEW i \in Slot, NEW S, ReadChar(i, S)
  PROVE  lastRead'[i] = NextChar(i)
BY DEF PipesInv, LastOK, ReadChar

\* pRead of the right program.
LEMMA RightReadsCarries ==
  ASSUME BytesApart, PipesInv, Carry, NEW p \in Program, RightReads(p)
  PROVE  Carry'
<1>. DEFINE j == getPipeIdx(PipeOf(p))
<1>1. /\ ~ IsLeft(p) /\ prog[p].pc = "read" /\ inCall[p].op = "none" /\ Alive(p)
      /\ UNCHANGED <<keyboardVars, shellPc, pipeline, shellPipe, commands, fg, killed, typed, shown>>
  BY DEF RightReads, kernelOnly, InCall, Alive
<1>2. j \in Slot /\ j # -1 /\ Serves(j, PipeOf(p)) /\ Whole(j) /\ p \in Process
  BY <1>1, PipeFound, CallsAre
<1>3. \/ Sleeps(sync, pipes[j].lockR) /\ pReadSleeps(p, j) /\ prog' = prog
      \/ pReadPasses(p, j) /\ Reads(p, NextChar(j))
  BY <1>2 DEF RightReads
<1>4. PICK i \in Slot : i = j
  BY <1>2
<1>. HIDE DEF j
<1>5. Whole(i) /\ Serves(i, PipeOf(p)) /\ getting' = getting
  BY <1>1, <1>2, <1>4 DEF keyboardVars
<1>6. CASE pReadSleeps(p, j) /\ prog' = prog
  <2>1. OthersKeep(i) /\ Keeps(i) /\ Stays(p, i, "pRead")
    BY <1>1, <1>2, <1>4, <1>5, <1>6, SleepFlows
  <2>2. NoneNew /\ \A k \in Slot : Keeps(k)
    BY <2>1, SameNoneNew DEF Stays, OthersKeep
  <2>3. \A q \in Process : q = ShellProc \/ IsLeft(q) => inCall'[q] = inCall[q]
    BY <1>1, <2>1, Bounds DEF Stays
  <2>. QED  BY <1>1, <1>6, <2>2, <2>3, QuietCarries
<1>7. CASE pReadPasses(p, j) /\ Reads(p, NextChar(j))
  <2>1. OthersKeep(i) /\ Takes(i) /\ Stays(p, i, "pRead")
    BY <1>1, <1>2, <1>4, <1>5, <1>7, PassFlows
  <2>2. PICK S : ReadChar(i, S)
    BY <1>4, <1>7 DEF pReadPasses
  <2>3. PICK c \in PipeChar : c = NextChar(i) /\ lastRead'[i] = c
    BY <2>2, ReadIsChar, ReadIsLast
  <2>4. Reads(p, c)
    BY <1>4, <1>7, <2>3
  <2>. QED  BY <1>1, <1>5, <2>1, <2>3, <2>4, TakesCarries
<1>. QED  BY <1>3, <1>6, <1>7

\* The same after a sleep.
LEMMA RightWakesCarries ==
  ASSUME BytesApart, PipesInv, Carry, NEW p \in Program, RightWakes(p)
  PROVE  Carry'
<1>1. /\ pReadReturns(p) /\ Reads(p, NextChar(inCall[p].slot)) /\ inCall[p].op = "pRead"
      /\ ReadChar(inCall[p].slot, sync)
      /\ UNCHANGED <<keyboardVars, shellPc, pipeline, shellPipe, commands, fg, killed, typed, shown>>
  BY DEF RightWakes, kernelOnly, pReadReturns
<1>2. ~ IsLeft(p) /\ prog[p].pc = "read" /\ Serves(inCall[p].slot, PipeOf(p)) /\ p \in Process
  BY <1>1, CallsAre
<1>3. PICK i, S : i \in Slot /\ i = inCall[p].slot /\ S = sync
  BY <1>2 DEF Serves
<1>4. /\ Whole(i) /\ Serves(i, PipeOf(p)) /\ inCall[p].slot = i /\ getting' = getting
      /\ ReadChar(i, S) /\ Reads(p, NextChar(i))
  BY <1>1, <1>2, <1>3 DEF Serves, keyboardVars
<1>5. OthersKeep(i) /\ Takes(i) /\ Stays(p, i, "pRead")
  BY <1>1, <1>2, <1>3, <1>4, ReturnFlows
<1>6. PICK c \in PipeChar : c = NextChar(i) /\ lastRead'[i] = c
  BY <1>3, <1>4, ReadIsChar, ReadIsLast
<1>7. Reads(p, c)
  BY <1>4, <1>6
<1>. QED  BY <1>1, <1>2, <1>3, <1>4, <1>5, <1>6, <1>7, TakesCarries

-----------------------------------------------------------------------------
(***************************************************************************)
(* The shell, before its programs exchange anything and after it.          *)
(***************************************************************************)
\* Nothing was typed for the programs yet.
LEMMA NothingYet ==
  ASSUME Carry, ~ Flowing
  PROVE  typed = <<>> /\ shown = <<>> /\ fg = {} /\ killed = {}
BY DEF Carry, HistoryOK

\* A step to where nothing is.
LEMMA StillCarries ==
  ASSUME ~ Flowing', typed' = <<>>, shown' = <<>>, fg' = {}, killed' = {}, LeftBehind',
         shellPc' \in {"prompt", "pOpen"} \/ StillEmpty'
  PROVE  Carry'
<1>1. typed' \in Seq(Text) /\ shown' \in Seq(Screen)
  <2>1. <<>> \in Seq(Text) /\ <<>> \in Seq(Screen)
    OBVIOUS
  <2>. QED  BY <2>1
<1>2. HistoryOK' /\ OnItsWay'
  BY <1>1 DEF HistoryOK, OnItsWay
<1>3. StillEmpty'
  BY DEF StillEmpty
<1>. QED  BY <1>2, <1>3 DEF Carry

\* The prompt.
LEMMA ShellReadsCarries == ASSUME PipesInv, Carry, ShellReads PROVE Carry'
<1>1. /\ shellPc = "prompt" /\ (Getchar(ShellProc) \/ GetcharReturns(ShellProc))
      /\ shellPc' \in {"prompt", "pOpen"}
      /\ UNCHANGED <<pipes, semId, inCall, lastRead, pipeline, shellPipe, typed, shown, prog, killed, fg>>
  BY DEF ShellReads, pipesVars, programVars
<1>2. KeyMoves
  BY <1>1, Bounds, GetcharMoves, ReturnMoves
<1>. QED  BY <1>1, <1>2, IdleKeeps, QuietCarries

\* pOpen: the programs that were left behind are not the ones of the new pipe.
LEMMA ShellOpensCarries == ASSUME PipesInv, Carry, ShellOpens PROVE Carry'
<1>1. /\ shellPc = "pOpen" /\ pipeline' = pipeline + 1 /\ shellPipe' = shellPipe + 1
      /\ UNCHANGED <<inCall, lastRead, keys, getting, prog>>
      /\ pipeline < MaxPipelines /\ shellPipe \in Nat /\ semId \in Nat
  BY OpenCases
<1>2. ~ Flowing /\ ~ Working
  BY <1>1 DEF Flowing, Working
<1>3. typed' = <<>> /\ shown' = <<>> /\ fg' = {} /\ killed' = {} /\ shellPc' \in {"prompt", "right"}
  BY <1>2, NothingYet DEF ShellOpens, BackToPrompt
<1>4. ~ Flowing'
  BY <1>3 DEF Flowing
<1>5. ASSUME NEW p \in Program, Alive(p)'
      PROVE  /\ Alive(p) /\ ~ IsLeft(p) /\ prog'[p].pc = "read" /\ PipeOf(p) < shellPipe
             /\ \A j \in Slot : Serves(j, PipeOf(p)) => Holds(j) = <<>>
  <2>1. Alive(p)
    BY <1>1, <1>5 DEF Alive
  <2>2. ~ Ours(p)
    BY <1>2 DEF Ours
  <2>3. p <= 2 * pipeline /\ pipeline \in Nat /\ shellPipe = 42 + pipeline
    BY <2>1, Bounds DEF PipesInv, Control, TypesOK, ProgramsServed
  <2>4. PipeOf(p) < shellPipe
    BY <2>3, Bounds DEF PipeOf, Program
  <2>. QED  BY <1>1, <2>1, <2>2, <2>4 DEF Carry, LeftBehind
<1>6. CASE UNCHANGED <<pipes, sync, semId>> /\ shellPc' = "prompt"
  <2>1. KeyMoves
    BY <1>1, <1>6, KeyLine DEF KeyMoves
  <2>2. NoneNew /\ \A j \in Slot : Keeps(j)
    BY <1>1, <1>6, <2>1, IdleKeeps
  <2>3. ASSUME NEW p \in Program, Alive(p)', NEW j \in Slot, Serves(j, PipeOf(p))'
        PROVE  Holds(j)' = <<>>
    <3>1. PICK id \in Nat : id = PipeOf(p)
      BY PipeIds
    <3>2. Serves(j, id)'
      BY <2>3, <3>1
    <3>3. Serves(j, id)
      BY <2>2, <3>2 DEF NoneNew
    <3>. QED  BY <1>5, <2>2, <2>3, <3>1, <3>3 DEF Keeps
  <2>4. LeftBehind'
    BY <1>5, <2>3 DEF LeftBehind
  <2>. QED  BY <1>3, <1>4, <1>6, <2>4, StillCarries
<1>7. ASSUME NEW f \in Slot, NEW opened \in 0 .. 2, pipes[f].state = "EMPTY",
             newPipe(f, shellPipe, opened)
      PROVE  Carry'
  <2>1. Made(f, opened) /\ Locked(opened) /\ ~ InUse(f)
    BY <1>1, <1>7, NewPipeMakes, NewPipeLocks DEF InUse
  <2>2. semId \in SyncId /\ semId + 1 \in SyncId /\ semId >= FIRST_SEM
    BY <1>1, LocksAreFree
  <2>3. Holds(f)' = <<>>
    BY <1>1, <2>1, <2>2, NewSlotFlows DEF Opened
  <2>4. shellPipe >= FIRST_PIPE
    BY Bounds DEF PipesInv, Control, TypesOK
  <2>5. \A j \in Slot \ {f} : \A id \in Nat : Serves(j, id)' = Serves(j, id)
    BY <1>1, <2>1, <2>2, <2>4, NewSlotApart
  <2>6. \A j \in Slot \ {f} : Holds(j)' = Holds(j)
    BY <1>1, <2>1, NewSlotOthers DEF Keeps
  <2>7. ASSUME NEW p \in Program, Alive(p)', NEW j \in Slot, Serves(j, PipeOf(p))'
        PROVE  Holds(j)' = <<>>
    <3>1. PICK id \in Nat : id = PipeOf(p)
      BY PipeIds
    <3>2. Serves(j, id)'
      BY <2>7, <3>1
    <3>3. CASE j = f
      BY <2>3, <3>3
    <3>4. CASE j # f
      <4>1. Serves(j, id)
        BY <2>5, <3>2, <3>4
      <4>. QED  BY <1>5, <2>6, <2>7, <3>1, <3>4, <4>1
    <3>. QED  BY <3>3, <3>4
  <2>8. LeftBehind'
    BY <1>5, <2>7 DEF LeftBehind
  <2>9. ASSUME NEW j \in Slot, Serves(j, OurPipe)' PROVE Holds(j)' = <<>>
    <3>1. PICK id \in Nat : id = shellPipe /\ OurPipe' = id
      BY <1>1 DEF OurPipe
    <3>2. Serves(j, id)'
      BY <2>9, <3>1
    <3>3. j = f
      <4>1. ~ Serves(j, id)
        BY <3>1, NextIdIsNew, SlotFound DEF PipesInv, Control
      <4>. QED  BY <2>5, <3>2, <4>1
    <3>. QED  BY <2>3, <3>3
  <2>10. StillEmpty'
    BY <1>3, <2>9 DEF StillEmpty
  <2>. QED  BY <1>3, <1>4, <2>8, <2>10, StillCarries
<1>8. \/ UNCHANGED <<pipes, sync, semId>> /\ shellPc' = "prompt"
      \/ \E f \in Slot, opened \in 0 .. 2 : pipes[f].state = "EMPTY" /\ newPipe(f, shellPipe, opened)
  BY OpenCases
<1>. QED  BY <1>6, <1>7, <1>8

\* A step that leaves the pipes and their semaphores alone.
LEMMA AloneKeeps ==
  ASSUME PipesInv, UNCHANGED <<sync, keyboardVars, pipesVars>>
  PROVE  NoneNew /\ (\A j \in Slot : Keeps(j)) /\ UNCHANGED inCall
<1>1. UNCHANGED <<sync, pipes, semId, lastRead, inCall, getting>>
  BY DEF pipesVars, keyboardVars
<1>2. KeyMoves
  BY <1>1, KeyLine DEF KeyMoves
<1>. QED  BY <1>1, <1>2, IdleKeeps

\* Who is left behind, and what is in a slot that serves its pipe, after a step that
\* leaves the pipes alone.
LEMMA StillBehind ==
  ASSUME PipesInv, UNCHANGED <<sync, keyboardVars, pipesVars>>,
         NEW p \in Program, NEW j \in Slot, Serves(j, PipeOf(p))',
         \A k \in Slot : Serves(k, PipeOf(p)) => Holds(k) = <<>>
  PROVE  Holds(j)' = <<>>
<1>1. NoneNew /\ Keeps(j)
  BY AloneKeeps
<1>2. PICK id \in Nat : id = PipeOf(p)
  BY PipeIds
<1>3. Serves(j, id)'
  BY <1>2
<1>4. Serves(j, id)
  BY <1>1, <1>3 DEF NoneNew
<1>. QED  BY <1>1, <1>2, <1>4 DEF Keeps

\* The right program is created, or the shell goes on to its pClose.
LEMMA CreatesRightCarries == ASSUME PipesInv, Carry, ShellCreatesRight PROVE Carry'
<1>1. /\ shellPc = "right"
      /\ \/ commands[2] = "invalid" /\ shellPc' = "pClose" /\ prog' = prog
         \/ shellPc' = "left" /\ Created(Right(pipeline), commands[2])
      /\ UNCHANGED <<sync, keyboardVars, pipesVars, pipeline, shellPipe, commands, typed, shown, killed, fg>>
  BY DEF ShellCreatesRight
<1>2. Working /\ ~ Flowing
  BY <1>1 DEF Working, Flowing
<1>3. NoneNew /\ (\A j \in Slot : Keeps(j)) /\ inCall' = inCall
  BY <1>1, AloneKeeps
<1>4. typed' = <<>> /\ shown' = <<>> /\ fg' = {} /\ killed' = {}
  BY <1>1, <1>2, NothingYet
<1>5. PICK i \in Slot : Serves(i, OurPipe)
  BY <1>2, ShellIsWorking
<1>6. CASE commands[2] = "invalid" /\ shellPc' = "pClose" /\ prog' = prog
  <2>1. typed' \in Seq(Text) /\ shown' \in Seq(Screen)
    <3>1. <<>> \in Seq(Text) /\ <<>> \in Seq(Screen)
      OBVIOUS
    <3>. QED  BY <1>4, <3>1
  <2>2. Flowing' /\ OthersKeep(i)
    BY <1>3, <1>6 DEF Flowing, OthersKeep
  <2>3. commands'[2] = "invalid"
    BY <1>1, <1>6
  <2>4. fg' \subseteq {Left(pipeline), Right(pipeline)} /\ killed' \subseteq fg'
    BY <1>4
  <2>. QED  BY <1>1, <1>2, <1>3, <1>5, <1>6, <2>1, <2>2, <2>3, <2>4, FlowingCarries
<1>7. CASE shellPc' = "left" /\ Created(Right(pipeline), commands[2])
  <2>1. PICK p \in Program, c \in Command :
          /\ p = Right(pipeline) /\ c = commands[2] /\ PipeOf(p) = OurPipe /\ prog[p].pc = "dead"
    BY <1>1, <1>2, ShellIsWorking, OurPipeIs
  <2>2. Created(p, c)
    BY <1>7, <2>1
  <2>3. /\ \A q \in Program \ {p} : prog'[q] = prog[q]
        /\ prog'[p].pc = "read" /\ prog'[p].command = c /\ prog'[p].lines = 0
    BY <1>2, <2>1, <2>2, CreatedIs
  <2>4. Working' /\ ~ Flowing' /\ OurPipe' = OurPipe
    BY <1>1, <1>7 DEF Working, Flowing, OurPipe
  <2>5. LeftBehind'
    <3>. SUFFICES ASSUME NEW q \in Program, Alive(q)', ~ Ours(q)'
                  PROVE  /\ ~ IsLeft(q) /\ prog'[q].pc = "read"
                         /\ \A j \in Slot : Serves(j, PipeOf(q))' => Holds(j)' = <<>>
      BY DEF LeftBehind
    <3>1. PipeOf(q) # OurPipe
      BY <2>4 DEF Ours
    <3>2. prog'[q] = prog[q] /\ Alive(q) /\ ~ Ours(q)
      BY <2>1, <2>3, <3>1 DEF Alive, Ours
    <3>3. ~ IsLeft(q) /\ prog[q].pc = "read" /\ \A j \in Slot : Serves(j, PipeOf(q)) => Holds(j) = <<>>
      BY <3>2 DEF Carry, LeftBehind
    <3>. QED  BY <1>1, <3>2, <3>3, StillBehind
  <2>6. ASSUME NEW j \in Slot, Serves(j, OurPipe)' PROVE Holds(j)' = <<>>
    <3>1. Serves(j, PipeOf(p))'
      BY <2>1, <2>4, <2>6
    <3>2. \A k \in Slot : Serves(k, PipeOf(p)) => Holds(k) = <<>>
      BY <1>1, <2>1 DEF Carry, StillEmpty
    <3>. QED  BY <1>1, <3>1, <3>2, StillBehind
  <2>7. prog'[Right(pipeline')] = prog'[p] /\ commands'[2] = c
    BY <1>1, <2>1
  <2>8. StillEmpty'
    BY <2>3, <2>6, <2>7 DEF StillEmpty
  <2>. QED  BY <1>4, <2>4, <2>5, <2>8, StillCarries
<1>. QED  BY <1>1, <1>6, <1>7

\* The left one is created, and nothing has been typed; or it is not, and the right one
\* is left behind.
LEMMA CreatesLeftCarries == ASSUME PipesInv, Carry, ShellCreatesLeft PROVE Carry'
<1>1. /\ shellPc = "left"
      /\ \/ BackToPrompt /\ prog' = prog
         \/ /\ shellPc' = "sleep" /\ Created(Left(pipeline), commands[1])
            /\ fg' = fg \cup {Left(pipeline)} /\ UNCHANGED <<commands, typed, shown, killed>>
      /\ UNCHANGED <<sync, keyboardVars, pipesVars, pipeline, shellPipe>>
  BY DEF ShellCreatesLeft
<1>2. Working /\ ~ Flowing
  BY <1>1 DEF Working, Flowing
<1>3. NoneNew /\ (\A j \in Slot : Keeps(j)) /\ inCall' = inCall
  BY <1>1, AloneKeeps
<1>4. PICK l \in Program, r \in Program :
        /\ l = Left(pipeline) /\ r = Right(pipeline) /\ l # r /\ IsLeft(l) /\ ~ IsLeft(r)
        /\ PipeOf(l) = OurPipe /\ PipeOf(r) = OurPipe
        /\ \A p \in Program : PipeOf(p) = OurPipe => p = l \/ p = r
  BY <1>2, OurPipeIs DEF PipesInv
<1>5. prog[l].pc = "dead" /\ prog[r].pc = "read" /\ prog[r].lines = 0 /\ prog[r].command = commands[2]
  BY <1>1, <1>2, <1>4, ShellIsWorking DEF Carry, StillEmpty
<1>6. CASE BackToPrompt /\ prog' = prog
  <2>1. /\ shellPc' = "prompt" /\ typed' = <<>> /\ shown' = <<>> /\ fg' = {} /\ killed' = {}
    BY <1>6 DEF BackToPrompt
  <2>2. ~ Flowing'
    BY <2>1 DEF Flowing
  <2>3. LeftBehind'
    <3>. SUFFICES ASSUME NEW q \in Program, Alive(q)'
                  PROVE  /\ ~ IsLeft(q) /\ prog'[q].pc = "read"
                         /\ \A j \in Slot : Serves(j, PipeOf(q))' => Holds(j)' = <<>>
      BY DEF LeftBehind
    <3>1. Alive(q)
      BY <1>6 DEF Alive
    <3>2. ~ IsLeft(q) /\ prog[q].pc = "read" /\ \A j \in Slot : Serves(j, PipeOf(q)) => Holds(j) = <<>>
      <4>1. CASE Ours(q)
        <5>1. PipeOf(q) = OurPipe /\ q = r
          BY <1>4, <1>5, <3>1, <4>1 DEF Ours, Alive
        <5>. QED  BY <1>1, <1>4, <1>5, <5>1 DEF Carry, StillEmpty
      <4>2. CASE ~ Ours(q)
        BY <3>1, <4>2 DEF Carry, LeftBehind
      <4>. QED  BY <4>1, <4>2
    <3>. QED  BY <1>1, <1>6, <3>2, StillBehind
  <2>. QED  BY <2>1, <2>2, <2>3, StillCarries
<1>7. CASE /\ shellPc' = "sleep" /\ Created(Left(pipeline), commands[1])
           /\ fg' = fg \cup {Left(pipeline)} /\ UNCHANGED <<commands, typed, shown, killed>>
  <2>1. PICK c \in Command : c = commands[1]
    BY <1>2, ShellIsWorking
  <2>2. /\ \A q \in Program \ {l} : prog'[q] = prog[q]
        /\ prog'[l].pc = "read" /\ prog'[l].command = c /\ prog'[l].lines = 0
    <3>1. Created(l, c)
      BY <1>4, <1>7, <2>1
    <3>. QED  BY <1>2, <1>4, <1>5, <3>1, CreatedIs
  <2>3. typed' = <<>> /\ shown' = <<>> /\ fg' = {l} /\ killed' = {}
    BY <1>2, <1>4, <1>7, NothingYet
  <2>4. PICK i \in Slot : Serves(i, OurPipe)
    BY <1>2, ShellIsWorking
  <2>5. Holds(i) = <<>> /\ Rest(l) = <<>> /\ Rest(ShellProc) = <<>> /\ ~ InCall(l)
    BY <1>1, <1>2, <1>4, <1>5, <2>4, UnderWayIs DEF Carry, StillEmpty
  <2>6. UnderWay(i)' = <<>>
    <3>1. Holds(i)' = <<>> /\ Rest(l)' = <<>> /\ Rest(ShellProc)' = <<>>
      BY <1>3, <2>5 DEF Keeps, Rest
    <3>2. UnderWay(i)' = (Holds(i)' \o Rest(l)') \o Rest(ShellProc)'
      BY <1>1, <1>4 DEF UnderWay
    <3>. QED  BY <3>1, <3>2
  <2>7. Delivered(i)'
    <3>1. \A command : Copied(command, <<>>) = <<>>
      BY WithoutEmpty DEF Copied
    <3>2. LeftGave(prog'[l], FALSE, FALSE, c, <<>>, <<>>)
      BY <2>2, <3>1, LinesEmpty DEF LeftGave
    <3>3. InCall(l)' = FALSE /\ (l \in killed') = FALSE
      BY <1>3, <2>3, <2>5 DEF InCall
    <3>4. LeftGave(prog'[l], InCall(l)', l \in killed', commands'[1], typed', <<>>)
      BY <1>7, <2>1, <2>3, <3>2, <3>3
    <3>5. PICK d : d = commands[2]
      OBVIOUS
    <3>6. RightShows(prog'[r], d, <<>>, <<>>)
      <4>1. prog'[r].pc = "read" /\ prog'[r].lines = 0 /\ prog'[r].command = d
        BY <1>4, <1>5, <2>2, <3>5
      <4>2. Plain(<<>>) = <<>>
        BY WithoutEmpty DEF Plain
      <4>. QED  BY <3>1, <4>1, <4>2, LinesEmpty DEF RightShows
    <3>7. RightShows(prog'[r], commands'[2], shown', <<>>)
      BY <1>7, <2>3, <3>5, <3>6
    <3>8. (prog'[r].pc \in {"count", "dead"}) = FALSE /\ Ended' = FALSE
      BY <1>4, <1>5, <1>7, <2>2 DEF Ended
    <3>9. Between(prog'[r].pc \in {"count", "dead"}, Ended', <<>>, <<>>, <<>>)
      BY <3>8, BetweenNone
    <3>10. <<>> \in Seq(Text)
      OBVIOUS
    <3>. QED  BY <1>1, <1>4, <2>6, <3>4, <3>7, <3>9, <3>10, DeliveredIs
  <2>8. Flowing' /\ OthersKeep(i)
    BY <1>3, <1>7 DEF Flowing, OthersKeep
  <2>9. typed' \in Seq(Text) /\ shown' \in Seq(Screen)
    <3>1. <<>> \in Seq(Text) /\ <<>> \in Seq(Screen)
      OBVIOUS
    <3>. QED  BY <2>3, <3>1
  <2>10. \A q \in Program : PipeOf(q) # OurPipe => prog'[q] = prog[q]
    BY <1>4, <2>2
  <2>11. fg' \subseteq {Left(pipeline), Right(pipeline)} /\ killed' \subseteq fg'
    BY <1>4, <2>3
  <2>. QED  BY <1>1, <1>2, <1>3, <2>4, <2>7, <2>8, <2>9, <2>10, <2>11, FlowingCarries
<1>. QED  BY <1>1, <1>6, <1>7

-----------------------------------------------------------------------------
(***************************************************************************)
(* The shell, when the left program is dead.                               *)
(***************************************************************************)
\* A write of the shell: what it writes follows what is in the pipe.
LEMMA ShellSends ==
  ASSUME PipesInv, Working, pipeline' = pipeline, prog[Left(pipeline)].pc = "dead",
         NEW i \in Slot, Serves(i, OurPipe), Stays(ShellProc, i, "pWrite"),
         NEW str \in Seq(PipeChar), Sends(ShellProc, i, str)
  PROVE  /\ UnderWay(i)' = Holds(i) \o str /\ UnderWay(i) = Holds(i) \o Rest(ShellProc)
         /\ Holds(i) \in Seq(PipeChar)
<1>1. PICK l \in Program : l = Left(pipeline)
  BY OurPipeIs DEF PipesInv
<1>2. l \in Process \ {ShellProc} /\ ShellProc \in Process
  BY Bounds
<1>3. /\ Holds(i) \in Seq(PipeChar) /\ Rest(l) = <<>> /\ Rest(ShellProc) \in Seq(PipeChar)
      /\ UnderWay(i) = (Holds(i) \o Rest(l)) \o Rest(ShellProc)
  BY <1>1, UnderWayIs
<1>4. Rest(l)' = <<>> /\ Rest(ShellProc)' \in Seq(PipeChar)
  BY <1>2, <1>3, RestIs DEF Stays, Rest
<1>5. PICK s \in Seq(PipeChar) : Holds(i)' = Holds(i) \o s /\ str = s \o Rest(ShellProc)'
  BY DEF Sends
<1>6. PICK h \in Seq(PipeChar), r \in Seq(PipeChar), q \in Seq(PipeChar) :
        h = Holds(i) /\ r = Rest(ShellProc)' /\ q = Rest(ShellProc)
  BY <1>3, <1>4
<1>7. UnderWay(i)' = ((h \o s) \o <<>>) \o r
  <2>1. UnderWay(i)' = (Holds(i)' \o Rest(l)') \o Rest(ShellProc)'
    BY <1>1 DEF UnderWay
  <2>. QED  BY <1>4, <1>5, <1>6, <2>1
<1>8. ((h \o s) \o <<>>) \o r = h \o (s \o r)
  <2>1. PICK u \in Seq(PipeChar) : u = h \o s
    <3>1. h \o s \in Seq(PipeChar)
      OBVIOUS
    <3>. QED  BY <3>1
  <2>2. u \o <<>> = u
    OBVIOUS
  <2>3. (h \o s) \o r = h \o (s \o r)
    BY InARow
  <2>. QED  BY <2>1, <2>2, <2>3
<1>9. (h \o <<>>) \o q = h \o q
  <2>1. h \o <<>> = h
    OBVIOUS
  <2>. QED  BY <2>1
<1>. QED  BY <1>3, <1>5, <1>6, <1>7, <1>8, <1>9

\* A step of the shell after which EOF is written, or is being written.
LEMMA EndsCarries ==
  ASSUME PipesInv, Carry, Working, Flowing, NoneNew, shellPc' \in {"writing", "wait", "pClose"},
         UNCHANGED <<pipeline, shellPipe, commands, prog, typed, shown, killed>>,
         prog[Left(pipeline)].pc = "dead",
         NEW i \in Slot, Serves(i, OurPipe), OthersKeep(i),
         fg \subseteq fg', fg' \subseteq {Left(pipeline), Right(pipeline)},
         inCall'[Left(pipeline)] = inCall[Left(pipeline)],
         NEW W, UnderWay(i)' = W,
         \A D, G \in Seq(Text), over \in BOOLEAN :
           Between(over, Ended, UnderWay(i), D, G) => Between(over, TRUE, W, D, G)
  PROVE  Carry'
<1>1. Flowing' /\ Ended' = TRUE
  BY DEF Flowing, Ended
<1>2. typed' \in Seq(Text) /\ shown' \in Seq(Screen) /\ killed' \subseteq fg'
  BY DEF Carry, HistoryOK
<1>3. ASSUME commands'[2] # "invalid", Right(pipeline) \notin killed'
      PROVE  Delivered(i)'
  <2>1. PICK l, r : l = Left(pipeline) /\ r = Right(pipeline)
    OBVIOUS
  <2>2. commands[2] # "invalid" /\ Right(pipeline) \notin killed
    BY <1>3
  <2>3. \E D, G \in Seq(Text) :
          /\ LeftGave(prog[l], InCall(l), l \in killed, commands[1], typed, G)
          /\ RightShows(prog[r], commands[2], shown, D)
          /\ Between(prog[r].pc \in {"count", "dead"}, Ended, UnderWay(i), D, G)
    BY <2>1, <2>2, DeliveredWas
  <2>4. PICK D, G \in Seq(Text) :
          /\ LeftGave(prog[l], InCall(l), l \in killed, commands[1], typed, G)
          /\ RightShows(prog[r], commands[2], shown, D)
          /\ Between(prog[r].pc \in {"count", "dead"}, Ended, UnderWay(i), D, G)
    BY <2>3
  <2>5. Between(prog[r].pc \in {"count", "dead"}, TRUE, W, D, G)
    <3>1. PICK over \in BOOLEAN : over = (prog[r].pc \in {"count", "dead"})
      <4>1. (prog[r].pc \in {"count", "dead"}) \in BOOLEAN
        OBVIOUS
      <4>. QED  BY <4>1
    <3>. QED  BY <2>4, <3>1
  <2>6. InCall(l)' = InCall(l)
    BY <2>1 DEF InCall
  <2>7. LeftGave(prog'[l], InCall(l)', l \in killed', commands'[1], typed', G)
    BY <2>4, <2>6
  <2>8. RightShows(prog'[r], commands'[2], shown', D)
    BY <2>4
  <2>9. Between(prog'[r].pc \in {"count", "dead"}, Ended', W, D, G)
    BY <1>1, <2>5
  <2>. QED  BY <2>1, <2>7, <2>8, <2>9, DeliveredIs
<1>4. \A q \in Program : PipeOf(q) # OurPipe => prog'[q] = prog[q]
  OBVIOUS
<1>. QED  BY <1>1, <1>2, <1>3, <1>4, FlowingCarries

\* EOF is written behind what the left program gave.
LEMMA WritesEofCarries == ASSUME PipesInv, Carry, ShellWritesEof PROVE Carry'
<1>. DEFINE j == getPipeIdx(OurPipe)
<1>1. /\ shellPc = "sleep" /\ prog[Left(pipeline)].pc = "dead" /\ shellPc' = "writing"
      /\ j # -1 => \E tail \in StackTail : pWrite(ShellProc, j, EofBytes \o tail)
      /\ UNCHANGED <<keyboardVars, pipeline, shellPipe, commands, typed, shown, prog, killed, fg>>
  BY DEF ShellWritesEof, Alive, programVars
<1>2. Working /\ Flowing /\ Ended = FALSE
  BY <1>1 DEF Working, Flowing, Ended
<1>3. Control /\ \E k \in Slot : Serves(k, OurPipe)
  BY <1>2, ShellIsWorking
<1>4. PICK i \in Slot : Serves(i, OurPipe)
  BY <1>3
<1>5. j = i /\ j # -1
  <2>1. PICK id : id = OurPipe /\ Serves(i, id)
    BY <1>4
  <2>. QED  BY <1>3, <2>1, SlotFound DEF Control
<1>. HIDE DEF j
<1>6. PICK tail \in StackTail : pWrite(ShellProc, i, EofBytes \o tail)
  BY <1>1, <1>5
<1>7. PICK str \in Seq(PipeChar) : str = EofBytes \o tail
  <2>1. EOF \in PipeChar
    BY PipelineAssumption
  <2>2. EofBytes \in Seq(PipeChar)
    BY <2>1 DEF EofBytes
  <2>. QED  BY <2>2, StackTails
<1>8. str # <<>> /\ Head(str) = EOF
  <2>1. tail \in Seq(PipeChar) /\ EOF \in PipeChar
    <3>1. <<>> \in Seq(PipeChar) /\ <<>> \o tail = tail
      BY PipelineAssumption DEF StackTail
    <3>. QED  BY <3>1, StackTails, PipelineAssumption
  <2>. QED  BY <1>7, <2>1 DEF EofBytes
<1>9. /\ Whole(i) /\ pWrite(ShellProc, i, str) /\ getting' = getting
      /\ inCall[ShellProc].op = "none" /\ ShellProc \in Process
  BY <1>1, <1>3, <1>4, <1>6, <1>7, ShellCalls, Bounds DEF Serves, keyboardVars
<1>10. OthersKeep(i) /\ Stays(ShellProc, i, "pWrite") /\ Sends(ShellProc, i, str)
  BY <1>9, WriteFlows
<1>11. /\ UnderWay(i)' = Holds(i) \o str /\ UnderWay(i) = Holds(i) \o Rest(ShellProc)
       /\ Holds(i) \in Seq(PipeChar)
  BY <1>1, <1>2, <1>4, <1>10, ShellSends
<1>12. UnderWay(i) = Holds(i)
  <2>1. Rest(ShellProc) = <<>>
    BY <1>9 DEF Rest
  <2>. QED  BY <1>11, <2>1
<1>13. PICK W : W = Holds(i) \o str /\ UnderWay(i)' = W
  BY <1>11
<1>14. ASSUME NEW D \in Seq(Text), NEW G \in Seq(Text), NEW over \in BOOLEAN,
              Between(over, Ended, UnderWay(i), D, G)
       PROVE  Between(over, TRUE, W, D, G)
  <2>1. PICK h \in Seq(PipeChar) : h = Holds(i)
    BY <1>11
  <2>2. Between(over, FALSE, h, D, G)
    BY <1>2, <1>12, <1>14, <2>1
  <2>3. Between(over, TRUE, h \o str, D, G)
    BY <1>8, <2>2, BetweenEnds
  <2>. QED  BY <1>13, <2>1, <2>3
<1>15. NoneNew /\ inCall'[Left(pipeline)] = inCall[Left(pipeline)]
  <2>1. Left(pipeline) \in Process \ {ShellProc}
    BY <1>2, <1>3, OurPipeIs, Bounds
  <2>. QED  BY <1>10, <2>1, SameNoneNew DEF Stays
<1>16. fg \subseteq fg' /\ fg' \subseteq {Left(pipeline), Right(pipeline)}
  BY <1>1, <1>2 DEF Carry, HistoryOK
<1>. QED  BY <1>1, <1>2, <1>4, <1>10, <1>13, <1>14, <1>15, <1>16, EndsCarries

\* The shell is woken, and writes on.
LEMMA ShellGoesOnCarries == ASSUME PipesInv, Carry, ShellGoesOn PROVE Carry'
<1>1. /\ pWriteGoesOn(ShellProc) /\ inCall[ShellProc].op = "pWrite"
      /\ UNCHANGED <<keyboardVars, shellPc, pipeline, shellPipe, commands, typed, shown, prog, killed, fg>>
  BY DEF ShellGoesOn, pWriteGoesOn, programVars
<1>2. shellPc = "writing" /\ Serves(inCall[ShellProc].slot, OurPipe) /\ ShellProc \in Process
      /\ inCall[ShellProc] \in Call
  BY <1>1, ShellCalls, Bounds DEF PipesInv, Control, TypesOK
<1>3. Working /\ Flowing /\ Ended = TRUE
  BY <1>2 DEF Working, Flowing, Ended
<1>4. prog[Left(pipeline)].pc = "dead" /\ Control
  BY <1>2, <1>3, ShellIsWorking
<1>5. PICK i \in Slot, str \in Seq(PipeChar) : i = inCall[ShellProc].slot /\ str = inCall[ShellProc].rest
  BY <1>1, <1>2 DEF Serves, Call
<1>6. Whole(i) /\ Serves(i, OurPipe) /\ inCall[ShellProc].slot = i /\ getting' = getting
  BY <1>1, <1>2, <1>5 DEF Serves, keyboardVars
<1>7. OthersKeep(i) /\ Stays(ShellProc, i, "pWrite") /\ Sends(ShellProc, i, str)
  BY <1>1, <1>2, <1>5, <1>6, GoesOnFlows
<1>8. UnderWay(i)' = Holds(i) \o str /\ UnderWay(i) = Holds(i) \o Rest(ShellProc)
  BY <1>1, <1>3, <1>4, <1>6, <1>7, ShellSends
<1>9. PICK W : W = Holds(i) \o str /\ UnderWay(i)' = W /\ UnderWay(i) = W
  <2>1. Rest(ShellProc) = str
    BY <1>1, <1>5 DEF Rest
  <2>. QED  BY <1>8, <2>1
<1>10. \A D, G \in Seq(Text), over \in BOOLEAN :
         Between(over, Ended, UnderWay(i), D, G) => Between(over, TRUE, W, D, G)
  BY <1>3, <1>9
<1>11. NoneNew /\ inCall'[Left(pipeline)] = inCall[Left(pipeline)]
  <2>1. Left(pipeline) \in Process \ {ShellProc}
    BY <1>3, <1>4, OurPipeIs, Bounds
  <2>. QED  BY <1>7, <2>1, SameNoneNew DEF Stays
<1>12. fg \subseteq fg' /\ fg' \subseteq {Left(pipeline), Right(pipeline)}
  BY <1>1, <1>3 DEF Carry, HistoryOK
<1>13. shellPc' \in {"writing", "wait", "pClose"}
  BY <1>1, <1>2
<1>. QED  BY <1>1, <1>3, <1>4, <1>6, <1>7, <1>9, <1>10, <1>11, <1>12, <1>13, EndsCarries

\* wait, and its return.
LEMMA WaitsCarries == ASSUME PipesInv, Carry, ShellWaits \/ ShellWaited PROVE Carry'
<1>1. /\ shellPc \in {"writing", "wait"} /\ shellPc' \in {"wait", "pClose"}
      /\ fg' \in {fg, fg \cup {Right(pipeline)}}
      /\ UNCHANGED <<sync, keyboardVars, pipesVars, pipeline, shellPipe, commands, typed, shown, prog, killed>>
  BY DEF ShellWaits, ShellWaited, programVars
<1>2. Working /\ Flowing /\ Ended = TRUE
  BY <1>1 DEF Working, Flowing, Ended
<1>3. prog[Left(pipeline)].pc = "dead" /\ \E i \in Slot : Serves(i, OurPipe)
  BY <1>1, <1>2, ShellIsWorking
<1>4. PICK i \in Slot : Serves(i, OurPipe)
  BY <1>3
<1>5. NoneNew /\ OthersKeep(i) /\ Keeps(i) /\ inCall' = inCall
  BY <1>1, AloneKeeps DEF OthersKeep
<1>6. PICK W : W = UnderWay(i) /\ UnderWay(i)' = W
  <2>1. UnderWay(i)' = UnderWay(i)
    BY <1>1, <1>5 DEF UnderWay, Rest, Keeps
  <2>. QED  BY <2>1
<1>7. \A D, G \in Seq(Text), over \in BOOLEAN :
        Between(over, Ended, UnderWay(i), D, G) => Between(over, TRUE, W, D, G)
  BY <1>2, <1>6
<1>8. fg \subseteq fg' /\ fg' \subseteq {Left(pipeline), Right(pipeline)}
  BY <1>1, <1>2 DEF Carry, HistoryOK
<1>9. shellPc' \in {"writing", "wait", "pClose"}
  BY <1>1
<1>. QED  BY <1>1, <1>2, <1>3, <1>4, <1>5, <1>6, <1>7, <1>8, <1>9, EndsCarries

\* The pipe is closed when nobody uses it, and the other slots stay.
LEMMA ClosesCarries == ASSUME PipesInv, Carry, ShellCloses PROVE Carry'
<1>1. /\ shellPc = "pClose" /\ pClose(OurPipe)
      /\ shellPc' = "prompt" /\ typed' = <<>> /\ shown' = <<>> /\ fg' = {} /\ killed' = {}
      /\ UNCHANGED <<pipeline, shellPipe, prog>>
  BY DEF ShellCloses, BackToPrompt
<1>2. Working /\ ~ Flowing'
  BY <1>1 DEF Working, Flowing
<1>3. PICK i \in Slot : Serves(i, OurPipe) /\ Control
  BY <1>2, ShellIsWorking
<1>. DEFINE r == pipes[i].lockR
<1>4. /\ pipes' = [pipes EXCEPT ![i].totalProcesses = pipes[i].totalProcesses - 1,
                                ![i].state = "EMPTY"]
      /\ sync' \in Semaphores
      /\ \A t \in SyncId \ {r, r + 1} : sync'[t] = sync[t]
      /\ UNCHANGED <<semId, inCall, lastRead>>
  BY <1>1, <1>3, CloseDoes
<1>5. \A p \in Program : Alive(p) => PipeOf(p) # OurPipe
  BY <1>1, <1>3, NobodyAtClose
<1>6. /\ pipes \in [Slot -> Pipe] /\ \A j \in Slot \ {i} : pipes'[j] = pipes[j]
  <2>1. pipes \in [Slot -> Pipe]
    BY <1>3 DEF Control, SlotsApart
  <2>. QED  BY <1>4, <2>1
<1>7. PipesInv'
  BY ClosesFine DEF Fine
<1>8. ASSUME NEW j \in Slot, j # i PROVE Keeps(j)
  <2>1. pipes' \in [Slot -> Pipe] /\ Alike(pipes[j], pipes'[j])
    BY <1>6, <1>7, <1>8 DEF PipesInv, Control, SlotsApart, Alike
  <2>2. InUse(j) /\ pipes[j].lockR # -1 => /\ sync'[pipes[j].lockR] = sync[pipes[j].lockR]
                                           /\ sync'[pipes[j].lockR + 1] = sync[pipes[j].lockR + 1]
    <3>. SUFFICES ASSUME InUse(j), pipes[j].lockR # -1
                  PROVE  /\ sync'[pipes[j].lockR] = sync[pipes[j].lockR]
                         /\ sync'[pipes[j].lockR + 1] = sync[pipes[j].lockR + 1]
      OBVIOUS
    <3>1. /\ pipes[j].lockR \in SyncId /\ pipes[j].lockR + 1 \in SyncId
          /\ pipes[j].lockR \notin {r, r + 1} /\ pipes[j].lockR + 1 \notin {r, r + 1}
      <4>1. InUse(i) /\ pipes[i].lockR # -1
        BY <1>3 DEF Serves, Whole
      <4>. QED  BY <1>3, <1>8, <4>1, LocksAre
    <3>. QED  BY <1>4, <3>1
  <2>. QED  BY <1>4, <2>1, <2>2, SlotUntouched
<1>9. LeftBehind'
  <2>. SUFFICES ASSUME NEW p \in Program, Alive(p)'
                PROVE  /\ ~ IsLeft(p) /\ prog'[p].pc = "read"
                       /\ \A j \in Slot : Serves(j, PipeOf(p))' => Holds(j)' = <<>>
    BY DEF LeftBehind
  <2>1. Alive(p) /\ ~ Ours(p)
    BY <1>1, <1>5 DEF Alive, Ours
  <2>2. ~ IsLeft(p) /\ prog[p].pc = "read" /\ \A j \in Slot : Serves(j, PipeOf(p)) => Holds(j) = <<>>
    BY <2>1 DEF Carry, LeftBehind
  <2>3. PICK id \in Nat : id = PipeOf(p)
    BY PipeIds
  <2>4. ASSUME NEW j \in Slot, Serves(j, id)' PROVE Holds(j)' = <<>>
    <3>1. CASE j = i
      <4>1. ~ InUse(i)'
        <5>1. pipes'[i].state = "EMPTY"
          BY <1>4, <1>6
        <5>. QED  BY <5>1 DEF InUse
      <4>. QED  BY <2>4, <3>1, <4>1 DEF Serves, Whole
    <3>2. CASE j # i
      <4>1. Serves(j, id)
        BY <1>6, <2>4, <3>2 DEF Serves, Whole, InUse
      <4>. QED  BY <1>8, <2>2, <2>3, <3>2, <4>1 DEF Keeps
    <3>. QED  BY <3>1, <3>2
  <2>. QED  BY <1>1, <2>2, <2>3, <2>4
<1>. QED  BY <1>1, <1>2, <1>9, StillCarries

-----------------------------------------------------------------------------
(***************************************************************************)
(* From the keyboard to the screen.                                        *)
(***************************************************************************)
\* At boot nothing is on its way.
LEMMA InitCarry == PipelineInit => Carry
<1>. SUFFICES ASSUME PipelineInit PROVE Carry
  OBVIOUS
<1>1. /\ shellPc = "prompt" /\ prog = [p \in Program |-> NoProgram]
      /\ fg = {} /\ typed = <<>> /\ shown = <<>> /\ killed = {}
  BY DEF PipelineInit
<1>2. typed \in Seq(Text) /\ shown \in Seq(Screen)
  <2>1. <<>> \in Seq(Text) /\ <<>> \in Seq(Screen)
    OBVIOUS
  <2>. QED  BY <1>1, <2>1
<1>3. HistoryOK
  BY <1>1, <1>2 DEF HistoryOK, Working
<1>4. LeftBehind
  BY <1>1 DEF LeftBehind, Alive, NoProgram
<1>5. StillEmpty /\ OnItsWay
  BY <1>1 DEF StillEmpty, OnItsWay, Flowing
<1>. QED  BY <1>3, <1>4, <1>5 DEF Carry

\* Every step of the system carries on.
LEMMA EveryStepCarries ==
  ASSUME BytesApart, PipesInv, Carry, [PipelineNext]_allPipelineVars
  PROVE  Carry'
<1>1. CASE UNCHANGED allPipelineVars
  <2>1. UNCHANGED <<sync, keyboardVars, pipesVars, pipeline, shellPipe, shellPc, commands, prog, typed,
                    shown, killed, fg>>
    BY <1>1 DEF allPipelineVars, pipelineVars
  <2>. QED  BY <2>1, AloneKeeps, QuietCarries
<1>2. ASSUME NEW c \in Keystrokes, Type(c) PROVE Carry'
  BY <1>2, TypeCarries
<1>3. ASSUME NEW p \in Program, Interrupts(p) PROVE Carry'
  BY <1>3, InterruptsCarries
<1>4. ASSUME NEW p \in Program, Runs(p) PROVE Carry'
  BY <1>4, LeftReadsCarries, RightReadsCarries, RightWakesCarries, LeftWritesCarries,
     LeftGoesOnCarries, RightWritesCarries DEF Runs
<1>5. CASE ShellRuns
  BY <1>5, ShellReadsCarries, ShellOpensCarries, CreatesRightCarries, CreatesLeftCarries,
     WritesEofCarries, ShellGoesOnCarries, WaitsCarries, ClosesCarries DEF ShellRuns
<1>. QED  BY <1>1, <1>2, <1>3, <1>4, <1>5 DEF PipelineNext

\* When the right program is dead it has read all that the left one gave.
LEMMA CarryDelivers == PipesInv /\ Carry => PipelineDelivers
<1>. SUFFICES ASSUME PipesInv, Carry, shellPc = "pClose", commands[2] # "invalid",
                     Right(pipeline) \notin killed
              PROVE  LET screen == Without(shown, StackByte) IN
                     IF Left(pipeline) \notin killed
                     THEN screen = Printed(commands[2], Printed(commands[1], typed))
                     ELSE \E n \in {Len(typed) - 1, Len(typed)} :
                            screen = Printed(commands[2], Copied(commands[1], SubSeq(typed, 1, n)))
  BY DEF PipelineDelivers
<1>1. Working /\ Flowing
  BY DEF Working, Flowing
<1>2. PICK i \in Slot : Serves(i, OurPipe)
  BY <1>1, ShellIsWorking
<1>3. PICK l, r : l = Left(pipeline) /\ r = Right(pipeline)
  OBVIOUS
<1>4. prog[l].pc = "dead" /\ prog[r].pc = "dead"
  BY <1>1, <1>3, ShellIsWorking
<1>5. PICK D, G \in Seq(Text) :
        /\ LeftGave(prog[l], InCall(l), l \in killed, commands[1], typed, G)
        /\ RightShows(prog[r], commands[2], shown, D)
        /\ Between(prog[r].pc \in {"count", "dead"}, Ended, UnderWay(i), D, G)
  BY <1>1, <1>2, <1>3, DeliveredWas
<1>6. D = G
  BY <1>4, <1>5 DEF Between
<1>7. Without(shown, StackByte) = Printed(commands[2], G)
  BY <1>4, <1>5, <1>6 DEF RightShows, Plain
<1>8. CASE l \notin killed
  <2>1. G = Printed(commands[1], typed)
    BY <1>4, <1>5, <1>8 DEF LeftGave
  <2>. QED  BY <1>3, <1>7, <1>8, <2>1
<1>9. CASE l \in killed
  <2>1. \E n \in {Len(typed) - 1, Len(typed)} : G = Copied(commands[1], SubSeq(typed, 1, n))
    BY <1>4, <1>5, <1>9 DEF LeftGave
  <2>. QED  BY <1>3, <1>7, <1>9, <2>1
<1>. QED  BY <1>8, <1>9

\* Everything that the left program read goes through both to the screen, once and in
\* order, whoever sleeps, waits for the other or is killed in the meantime: for every
\* size of the ring and any number of pipelines.
THEOREM PipelineAlwaysDelivers == ASSUME BytesApart PROVE PipelineSpec => []PipelineDelivers
<1>1. PipelineInit => Carry
  BY InitCarry
<1>2. PipesInv /\ Carry /\ [PipelineNext]_allPipelineVars => Carry'
  BY EveryStepCarries
<1>3. PipesInv /\ Carry => PipelineDelivers
  BY CarryDelivers
<1>. QED  BY <1>1, <1>2, <1>3, PipesInvHolds, PTL DEF PipelineSpec
=============================================================================
