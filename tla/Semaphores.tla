------------------------------ MODULE Semaphores ------------------------------
(***************************************************************************)
(* The semaphores of Kernel/sync/semaphores.c on top of the process table: *)
(* sOpen, sWait, sPost and sClose, called by programs that are created,    *)
(* killed and scheduled by the module Scheduler.                           *)
(*                                                                         *)
(* The calls run with interrupts off, so the spin lock "mutex" inside a    *)
(* semaphore is always found free, and is left out.  A sWait on an empty   *)
(* semaphore gives the CPU away in the middle of the call: its second half *)
(* (return 0) happens when the scheduler gives the CPU back to its caller. *)
(***************************************************************************)
EXTENDS Scheduler

CONSTANTS SemId,             \* the ids that programs use
          InitValues,        \* the initial values they ask for
          MAX_BLOCKED_PIDS,  \* the size of blockedPIDs, and the cap on listeners
          MAX_VALUE,         \* bound: no post makes a value larger
          SemCalls,          \* the calls of the environment
          NoSem              \* no semaphore with that id; waiting for none

\* sWait, sPost and sClose by a process that has the semaphore open, as the
\* processes of testSync.c do; sWaitAny and sPostAny by any process, as the
\* philosophers, the users of a pipe and the readers of the keyboard do.
AllSemCalls == {"sOpen", "sWait", "sPost", "sClose", "sWaitAny", "sPostAny"}

Semaphore == [value : 0 .. MAX_VALUE, listeners : Nat, blockedPIDs : Seq(PID)]

ASSUME SemAssumption ==
  /\ MAX_BLOCKED_PIDS \in Nat \ {0}
  /\ MAX_VALUE \in Nat /\ InitValues \subseteq 0 .. MAX_VALUE
  /\ SemCalls \subseteq AllSemCalls
  /\ NoSem \notin SemId /\ NoSem \notin Semaphore

VARIABLES
  sem,       \* the list of semaphores, by id
  waitsFor,  \* the semaphore in whose sWait each process is suspended
  opened,    \* the semaphores that each program has open
  tokens     \* history: initial value and posts, less the waits that returned

semVars == <<sem, waitsFor, opened, tokens>>
allVars == <<vars, semVars>>

SemInit ==
  /\ Init
  /\ sem = [s \in SemId |-> NoSem]
  /\ waitsFor = [p \in PID |-> NoSem]
  /\ opened = [p \in PID |-> {}]
  /\ tokens = [s \in SemId |-> 0]

(***************************************************************************)
(* The calls.                                                              *)
(***************************************************************************)
SemCalling(p, call) ==
  /\ call \in SemCalls
  /\ mode = "user"
  /\ p = currentProcess
  /\ p \notin {NoProc, IdlePid, Overseer}

\* The program has the semaphore open, or does not care.
Uses(p, s, call, anyCall) ==
  \/ SemCalling(p, call) /\ s \in opened[p]
  \/ SemCalling(p, anyCall)

\* findSem: an existing semaphore keeps its value.
Found_Reset(s, initValue) ==
  IF sem[s] = NoSem THEN [value |-> initValue, listeners |-> 0, blockedPIDs |-> <<>>]
                    ELSE [sem[s] EXCEPT !.value = initValue]
Found(s, initValue) ==
  IF sem[s] = NoSem THEN [value |-> initValue, listeners |-> 0, blockedPIDs |-> <<>>]
                    ELSE sem[s]

\* No space for this listener.
Full_OffByOne(found) == found.listeners > MAX_BLOCKED_PIDS
Full(found) == found.listeners >= MAX_BLOCKED_PIDS

SOpen(p, s, initValue) ==
  /\ SemCalling(p, "sOpen")
  /\ s \notin opened[p]
  /\ LET found == Found(s, initValue) IN
       IF Full(found)
       THEN UNCHANGED <<sem, opened, tokens>>
       ELSE /\ sem' = [sem EXCEPT ![s] = [found EXCEPT !.listeners = @ + 1]]
            /\ opened' = [opened EXCEPT ![p] = @ \cup {s}]
            /\ tokens' = IF sem[s] = NoSem THEN [tokens EXCEPT ![s] = initValue] ELSE tokens
  /\ UNCHANGED <<vars, waitsFor>>

\* A token is there: take it and go on.
SWaitPasses(p, s) ==
  /\ Uses(p, s, "sWait", "sWaitAny")
  /\ sem[s] # NoSem
  /\ sem[s].value > 0
  /\ sem' = [sem EXCEPT ![s].value = @ - 1]
  /\ tokens' = [tokens EXCEPT ![s] = @ - 1]
  /\ UNCHANGED <<vars, waitsFor, opened>>

\* The waiters are served in the order in which they came.
Enlisted_InFront(waiters, p) == <<p>> \o waiters
Enlisted(waiters, p) == Append(waiters, p)

\* None is there: into the array, and blockProcess of oneself.
SWaitBlocks(p, s) ==
  /\ Uses(p, s, "sWait", "sWaitAny")
  /\ sem[s] # NoSem
  /\ sem[s].value = 0
  /\ sem' = [sem EXCEPT ![s].blockedPIDs = Enlisted(@, p)]
  /\ waitsFor' = [waitsFor EXCEPT ![p] = s]
  /\ SetNewState(p, "BLOCKED")
  /\ TickIfSelf(p)
  /\ UNCHANGED <<opened, tokens, newPIDVal, pcb, queue, cpu, returned>>

\* The longest waiter gets the token, dead or alive; a semaphore nobody waits for
\* keeps it.
Posted_Both(r) ==
  IF r.blockedPIDs # <<>> THEN [r EXCEPT !.blockedPIDs = Tail(@), !.value = @ + 1]
                          ELSE [r EXCEPT !.value = @ + 1]
Posted(r) ==
  IF r.blockedPIDs # <<>> THEN [r EXCEPT !.blockedPIDs = Tail(@)]
                          ELSE [r EXCEPT !.value = @ + 1]

SPost(p, s) ==
  /\ Uses(p, s, "sPost", "sPostAny")
  /\ sem[s] # NoSem
  /\ sem[s].value < MAX_VALUE
  /\ sem' = [sem EXCEPT ![s] = Posted(@)]
  /\ IF sem[s].blockedPIDs # <<>> THEN SetNewState(Head(sem[s].blockedPIDs), "READY")
                                  ELSE UNCHANGED <<state, readySize>>
  /\ tokens' = [tokens EXCEPT ![s] = @ + 1]
  /\ UNCHANGED <<waitsFor, opened, newPIDVal, pcb, queue, cpu, mode, returned>>

\* The last listener frees the semaphore.
LastListener_Any(r) == TRUE
LastListener(r) == r.listeners = 1

SClose(p, s) ==
  /\ SemCalling(p, "sClose")
  /\ s \in opened[p]
  /\ LET last == LastListener(sem[s]) IN
       /\ sem' = IF last THEN [sem EXCEPT ![s] = NoSem] ELSE [sem EXCEPT ![s].listeners = @ - 1]
       /\ tokens' = IF last THEN [tokens EXCEPT ![s] = 0] ELSE tokens
  /\ opened' = [opened EXCEPT ![p] = @ \ {s}]
  /\ UNCHANGED <<vars, waitsFor>>

(***************************************************************************)
(* A step of the process table.  A process that gets the CPU while it is   *)
(* suspended in sWait returns from it, whatever made it READY; a dead one  *)
(* never returns, and closes nothing.                                      *)
(***************************************************************************)
Returns(p) == currentProcess' = p /\ waitsFor[p] # NoSem

SchedulerStep ==
  /\ Next
  /\ waitsFor' = [p \in PID |-> IF Returns(p) \/ state'[p] = "none" THEN NoSem
                                                                   ELSE waitsFor[p]]
  /\ tokens' = [s \in SemId |->
                  tokens[s] - Cardinality({p \in PID : Returns(p) /\ waitsFor[p] = s})]
  /\ opened' = [p \in PID |-> IF state'[p] = "none" THEN {} ELSE opened[p]]
  /\ UNCHANGED sem

SemCall(p) ==
  \E s \in SemId :
    \/ \E initValue \in InitValues : SOpen(p, s, initValue)
    \/ SWaitPasses(p, s)
    \/ SWaitBlocks(p, s)
    \/ SPost(p, s)
    \/ SClose(p, s)

SemNext == (\E p \in PID : SemCall(p)) \/ SchedulerStep

SemSpec == SemInit /\ [][SemNext]_allVars
\* The fairness of Scheduler: programs need not call anything.
SemFairSpec == SemSpec /\ Fairness

(***************************************************************************)
(* Properties                                                              *)
(***************************************************************************)

\* The type invariant of the semaphores.
SemTypeOK ==
  /\ sem \in [SemId -> Semaphore \cup {NoSem}]
  /\ waitsFor \in [PID -> SemId \cup {NoSem}]
  /\ opened \in [PID -> SUBSET SemId]
  /\ tokens \in [SemId -> Nat]

Open == {s \in SemId : sem[s] # NoSem}
Listed(p, s) == s \in Open /\ p \in Range(sem[s].blockedPIDs)
Alive(p) == state[p] \in {"READY", "BLOCKED"}

\* A live process is in the array of a semaphore exactly while it is blocked in
\* its sWait: nobody sleeps where no post will look (a semaphore closed under its
\* waiters, a wake-up that comes before the sleep), and no post is spent on a
\* process that has gone on.
WaitersAreListed ==
  \A p \in PID, s \in SemId :
     Alive(p) => (Listed(p, s) <=> state[p] = "BLOCKED" /\ waitsFor[p] = s)

\* sWait writes to blockedPIDs without looking at its size: the cap of sOpen on
\* listeners must do for it, also when waiters are killed and stay in the array.
ArrayFits == \A s \in Open : Len(sem[s].blockedPIDs) <= MAX_BLOCKED_PIDS

\* Nobody waits for a semaphore that has tokens.
NoTokenWhileWaiting == \A s \in Open : sem[s].value > 0 => sem[s].blockedPIDs = <<>>

\* Those that a post has chosen and that have not had the CPU since.
Chosen(s) == {p \in PID : waitsFor[p] = s /\ state[p] = "READY"}

\* Through every interleaving of waits, posts, deaths and scheduling, what is in a
\* semaphore, and what was promised to a waiter on its way, was put there: no
\* token is taken twice.
NoTokenForged == \A s \in SemId :
  tokens[s] >= (IF s \in Open THEN sem[s].value ELSE 0) + Cardinality(Chosen(s))

\* When nobody is killed no token is lost either.
TokensConserved == \A s \in SemId :
  tokens[s] = (IF s \in Open THEN sem[s].value ELSE 0) + Cardinality(Chosen(s))

\* The kernel's semaphores keep the promise that programs are written on: whoever
\* is killed and whenever, waiters are woken in the order in which they came, a
\* waiter makes no call while it is listed, and no semaphore is freed under a
\* waiter.
Promise == INSTANCE Sync WITH
  SyncId <- SemId, Process <- PID, InitialValues <- InitValues,
  MAX_LISTENERS <- MAX_BLOCKED_PIDS, NoSync <- NoSem,
  sync <- sem
ImplementsSync == Promise!SyncSpec

\* If posts keep coming, everybody who waits goes on: waiters are served in order,
\* and one that was chosen gets the CPU.
WaitersAreServed ==
  \A s \in SemId :
     []<><<\E p \in PID : SPost(p, s)>>_allVars
       => \A p \in PID : waitsFor[p] = s ~> waitsFor[p] # s
==============================================================================
