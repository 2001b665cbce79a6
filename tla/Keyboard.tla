------------------------------- MODULE Keyboard -------------------------------
(***************************************************************************)
(* The keyboard of Kernel/drivers/keyboardDriver.c: the handler of IRQ 1,  *)
(* the ring it fills, the semaphore KEY_SEM_ID that counts what is in it,  *)
(* and getchar for several readers.                                        *)
(*                                                                         *)
(* The handler and getchar run with interrupts off, except that a getchar  *)
(* that finds no token sleeps inside its sWait: it removes its character   *)
(* when it has the CPU again, and other keys and readers come in between.  *)
(***************************************************************************)
EXTENDS StaticQueue, Sync, FiniteSets

CONSTANTS KEY_SEM_ID,
          Reader,      \* the processes that read the keyboard
          Key,         \* the keys that are used, besides the three modifiers
          MAX_TOKENS   \* bound: no key is pressed when the semaphore is that high

\* What a key types, without and with shift: a few rows of the table.
pressCodes == [one |-> <<"1", "!">>, enter |-> <<"newline", "newline">>, a |-> <<"a", "A">>,
               c |-> <<"c", "C">>, d |-> <<"d", "D">>, l |-> <<"l", "L">>, s |-> <<"s", "S">>]
Letter == {"a", "c", "d", "l", "s"}

CONSTANTS CLEAR_SCREEN, EOF  \* the characters of ctrl-L and ctrl-D

ASSUME KeyboardAssumption ==
  /\ Reader \subseteq Process /\ IsFiniteSet(Reader) /\ KEY_SEM_ID \in SyncId
  /\ Key \subseteq DOMAIN pressCodes
  /\ \A k \in Key : pressCodes[k][1] \in Char /\ pressCodes[k][2] \in Char
  /\ {CLEAR_SCREEN, EOF} \subseteq Char
  /\ MAX_TOKENS \in Nat

VARIABLES
  keys,      \* currentBuffer
  shift,     \* specialChars
  capsLock,
  l_ctrl,
  getting,   \* the readers inside a getchar that slept
  taken,     \* what the last getchar returned
  lost       \* history: a key found the ring full

keyboardVars == <<keys, shift, capsLock, l_ctrl, getting, taken, lost>>

KeyboardInit ==
  /\ sync = [s \in SyncId |-> IF s = KEY_SEM_ID
                                THEN [value |-> 0, listeners |-> 1, blockedPIDs |-> <<>>]
                                ELSE NoSync]
  /\ keys = EmptyRing
  /\ shift = 0 /\ capsLock = 0 /\ l_ctrl = 0
  /\ getting = {}
  /\ taken = Zero
  /\ lost = FALSE

\* The semaphore is posted first, and also when the ring drops the character.
Announced_Never(S) == S
Announced(S) == AfterPost(S, KEY_SEM_ID)

sendKey(c) ==
  /\ sync' = Announced(sync)
  /\ keys' = queueInsert(keys, c)
  /\ lost' = (lost \/ queueIsFull(keys))

(***************************************************************************)
(* keyboardHandler.                                                        *)
(***************************************************************************)
PressShift == shift' = 1 /\ UNCHANGED <<sync, keys, capsLock, l_ctrl, getting, taken, lost>>
PressCapsLock ==
  /\ capsLock' = 1 - capsLock
  /\ UNCHANGED <<sync, keys, shift, l_ctrl, getting, taken, lost>>
PressControl == l_ctrl' = 1 /\ UNCHANGED <<sync, keys, shift, capsLock, getting, taken, lost>>

\* Releasing one shift key releases both.
ReleaseShift == shift' = 0 /\ UNCHANGED <<sync, keys, capsLock, l_ctrl, getting, taken, lost>>
ReleaseControl == l_ctrl' = 0 /\ UNCHANGED <<sync, keys, shift, capsLock, getting, taken, lost>>

\* For letters caps lock and shift cancel each other.
Typed(k) ==
  LET column == IF k \in Letter THEN (IF capsLock = shift THEN 0 ELSE 1) ELSE shift
  IN pressCodes[k][column + 1]

\* ctrl-S takes a snapshot of the registers and ctrl-C kills a process (see
\* Scheduler): neither types anything.
PressKey(k) ==
  /\ sync[KEY_SEM_ID].value < MAX_TOKENS
  /\ CASE l_ctrl = 0 -> sendKey(Typed(k))
       [] l_ctrl = 1 /\ k = "l" -> sendKey(CLEAR_SCREEN)
       [] l_ctrl = 1 /\ k = "d" -> sendKey(EOF)
       [] OTHER -> UNCHANGED <<sync, keys, lost>>
  /\ UNCHANGED <<shift, capsLock, l_ctrl, getting, taken>>

(***************************************************************************)
(* getchar.                                                                *)
(***************************************************************************)
TakeKey == taken' = Removed(keys) /\ keys' = queueRemoveData(keys)

\* With a token it goes through; without, it sleeps.
Getchar(p) ==
  /\ p \notin getting
  /\ sync' = AfterWait(sync, KEY_SEM_ID, p)
  /\ IF Sleeps(sync, KEY_SEM_ID) THEN getting' = getting \cup {p} /\ UNCHANGED <<keys, taken>>
                                 ELSE TakeKey /\ UNCHANGED getting
  /\ UNCHANGED <<shift, capsLock, l_ctrl, lost>>

GetcharReturns(p) ==
  /\ p \in getting
  /\ ~Asleep(p)
  /\ TakeKey
  /\ getting' = getting \ {p}
  /\ UNCHANGED <<sync, shift, capsLock, l_ctrl, lost>>

KeyboardNext ==
  \/ PressShift \/ PressCapsLock \/ PressControl
  \/ ReleaseShift \/ ReleaseControl
  \/ \E k \in Key : PressKey(k)
  \/ \E p \in Reader : Getchar(p) \/ GetcharReturns(p)

KeyboardSpec == KeyboardInit /\ [][KeyboardNext]_<<sync, keyboardVars>>

(***************************************************************************)
(* Properties                                                              *)
(***************************************************************************)

\* Readers that were woken and have not had the CPU yet.
Woken == {p \in getting : ~Asleep(p)}

\* The ring is well formed, and no key is stuck in it: each has a token in the
\* semaphore or a reader on its way to it.  The post comes before the insertion and
\* is not taken back when the ring is full, so there can be tokens without a key,
\* but only after a key was lost.
KeysHaveTokens ==
  LET tokens == sync[KEY_SEM_ID].value + Cardinality(Woken) IN
  /\ RingOK(keys)
  /\ keys.size <= tokens
  /\ lost \/ keys.size = tokens

\* Through any interleaving of keys and readers the keyboard is a stream: keys are
\* read in the order in which they were typed, none twice, and getchar answers 0
\* only after the ring was full.
KeyStream == INSTANCE Stream WITH
  Capacity <- dim, NoChar <- Zero, Lossy <- TRUE, open <- TRUE, contents <- Items(keys)
KeysAreAStream == KeyStream!StreamSpec
==============================================================================
