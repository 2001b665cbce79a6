--------------------------------- MODULE Sync ---------------------------------
(***************************************************************************)
(* What the semaphores of Kernel/sync/semaphores.c promise to the programs *)
(* that use them: a count, and a line of sleepers who are woken in the     *)
(* order in which they came, each with a token that nobody can take from   *)
(* it.  The module Semaphores shows that the code, on its scheduler, does  *)
(* this; the modules about programs are written on top of it.              *)
(*                                                                         *)
(* The calls are operators on the whole list of semaphores, because one    *)
(* system call may make several of them.                                   *)
(***************************************************************************)
EXTENDS Integers, Sequences, Functions

CONSTANTS SyncId,         \* the ids of semaphores
          Process,        \* who calls
          InitialValues,  \* what semaphores are opened with
          MAX_LISTENERS,  \* listeners of one semaphore
          NoSync          \* no semaphore with that id

Semaphore == [value : Nat, listeners : 1 .. MAX_LISTENERS, blockedPIDs : Seq(Process)]

ASSUME SyncAssumption ==
  /\ MAX_LISTENERS \in Nat \ {0} /\ InitialValues \subseteq Nat
  /\ NoSync \notin Semaphore

VARIABLE sync

Asleep(p) == \E s \in SyncId : sync[s] # NoSync /\ p \in Range(sync[s].blockedPIDs)

\* sOpen: an existing semaphore keeps its value.
Refused(S, s) == S[s] # NoSync /\ S[s].listeners >= MAX_LISTENERS
AfterOpen(S, s, v) ==
  CASE Refused(S, s) -> S
    [] S[s] = NoSync -> [S EXCEPT ![s] = [value |-> v, listeners |-> 1, blockedPIDs |-> <<>>]]
    [] OTHER -> [S EXCEPT ![s].listeners = @ + 1]

\* sWait: a token, or a place in the line.  Without the semaphore it returns at once.
Sleeps(S, s) == S[s] # NoSync /\ S[s].value = 0
AfterWait(S, s, p) ==
  CASE S[s] = NoSync -> S
    [] Sleeps(S, s) -> [S EXCEPT ![s].blockedPIDs = Append(@, p)]
    [] OTHER -> [S EXCEPT ![s].value = @ - 1]

\* sPost: to the first in line, or to the count.
Given(r) == IF r.blockedPIDs # <<>> THEN [r EXCEPT !.blockedPIDs = Tail(@)]
                                ELSE [r EXCEPT !.value = @ + 1]
AfterPost(S, s) == IF S[s] = NoSync THEN S ELSE [S EXCEPT ![s] = Given(@)]

\* sClose: the last listener takes the semaphore away.
AfterClose_Any(S, s) == [S EXCEPT ![s] = NoSync]
AfterClose(S, s) ==
  CASE S[s] = NoSync -> S
    [] S[s].listeners = 1 -> [S EXCEPT ![s] = NoSync]
    [] OTHER -> [S EXCEPT ![s].listeners = @ - 1]

(***************************************************************************)
(* The promise.  A sleeper does nothing until it is woken, and nobody      *)
(* takes a semaphore away from under its sleepers.                         *)
(***************************************************************************)
SyncInit == sync = [s \in SyncId |-> NoSync]

SyncNext == \E p \in Process, s \in SyncId :
  /\ ~Asleep(p)
  /\ \/ \E v \in InitialValues : sync' = AfterOpen(sync, s, v)
     \/ sync' = AfterWait(sync, s, p)
     \/ sync' = AfterPost(sync, s)
     \/ /\ sync[s] # NoSync
        /\ sync[s].listeners = 1 => sync[s].blockedPIDs = <<>>
        /\ sync' = AfterClose(sync, s)

SyncSpec == SyncInit /\ [][SyncNext]_sync
==============================================================================
