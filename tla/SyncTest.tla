------------------------------- MODULE SyncTest -------------------------------
(***************************************************************************)
(* The program synctest of testSync/testSync.c: processes that add 1 to,   *)
(* and take 1 from, a global variable, with a yield between the read and   *)
(* the write, under a semaphore.  nosynctest is the same without it.       *)
(***************************************************************************)
EXTENDS Sync, FiniteSets

CONSTANTS SEM_ID,
          Incrementer, Decrementer,  \* the processes with "1" and with "-1"
          N,                         \* rounds of each
          Flags                      \* whether the semaphore is used

ASSUME SyncTestAssumption ==
  /\ SEM_ID \in SyncId
  /\ Incrementer \cup Decrementer \subseteq Process
  /\ Incrementer \cap Decrementer = {}
  /\ IsFiniteSet(Incrementer \cup Decrementer)
  /\ N \in Nat /\ Flags \subseteq BOOLEAN

VARIABLES
  flag,    \* the semaphore is used
  global,
  aux,     \* what each process has read
  rounds,  \* i
  pc

testVars == <<flag, global, aux, rounds, pc>>

Worker == Incrementer \cup Decrementer
value(p) == IF p \in Incrementer THEN 1 ELSE -1

TestVarsInit ==
  /\ flag \in Flags
  /\ global = 0
  /\ aux = [p \in Worker |-> 0] /\ rounds = [p \in Worker |-> 0]
  /\ pc = [p \in Worker |-> "sOpen"]

SyncTestInit == SyncInit /\ TestVarsInit

Goes(p, from, to) == pc[p] = from /\ pc' = [pc EXCEPT ![p] = to]
NextRound(p) == IF rounds[p] < N THEN "sWait" ELSE "sClose"

OpensSem(p) ==
  /\ pc[p] = "sOpen"
  /\ pc' = [pc EXCEPT ![p] = IF flag /\ Refused(sync, SEM_ID) THEN "done" ELSE NextRound(p)]
  /\ sync' = IF flag THEN AfterOpen(sync, SEM_ID, 1) ELSE sync
  /\ UNCHANGED <<flag, global, aux, rounds>>

\* With an empty semaphore the process sleeps at "slowInc".
WaitsSem(p) ==
  /\ Goes(p, "sWait", "slowInc")
  /\ sync' = IF flag THEN AfterWait(sync, SEM_ID, p) ELSE sync
  /\ UNCHANGED <<flag, global, aux, rounds>>

\* slowInc: the read, a yield, and the write.
ReadsGlobal(p) ==
  /\ Goes(p, "slowInc", "yield")
  /\ ~Asleep(p)
  /\ aux' = [aux EXCEPT ![p] = global + value(p)]
  /\ UNCHANGED <<sync, flag, global, rounds>>
WritesGlobal(p) ==
  /\ Goes(p, "yield", "sPost")
  /\ global' = aux[p]
  /\ UNCHANGED <<sync, flag, aux, rounds>>

PostsSem(p) ==
  /\ pc[p] = "sPost"
  /\ rounds' = [rounds EXCEPT ![p] = @ + 1]
  /\ pc' = [pc EXCEPT ![p] = IF rounds[p] + 1 < N THEN "sWait" ELSE "sClose"]
  /\ sync' = IF flag THEN AfterPost(sync, SEM_ID) ELSE sync
  /\ UNCHANGED <<flag, global, aux>>

ClosesSem(p) ==
  /\ Goes(p, "sClose", "done")
  /\ sync' = IF flag THEN AfterClose(sync, SEM_ID) ELSE sync
  /\ UNCHANGED <<flag, global, aux, rounds>>

Incs(p) == OpensSem(p) \/ WaitsSem(p) \/ ReadsGlobal(p) \/ WritesGlobal(p) \/ PostsSem(p)
             \/ ClosesSem(p)
SyncTestNext == \E p \in Worker : Incs(p)

allTestVars == <<sync, testVars>>
SyncTestSpec == SyncTestInit /\ [][SyncTestNext]_allTestVars
                  /\ \A p \in Worker : WF_allTestVars(Incs(p))

(***************************************************************************)
(* Properties                                                              *)
(***************************************************************************)

\* Who is between its sWait and its sPost.
Inside(p) == pc[p] \in {"slowInc", "yield", "sPost"} /\ ~Asleep(p)

OneInside == \A p, q \in Worker : Inside(p) /\ Inside(q) => p = q
AllDone == \A p \in Worker : pc[p] = "done"

\* With the semaphore no update is lost, although the last process to close it frees
\* it and a later one opens a new one: at most one process is between its wait and its
\* post, and when all are done the variable is back at 0 and the semaphore is gone.
NoUpdateIsLost ==
  flag => OneInside /\ (AllDone => global = 0 /\ sync[SEM_ID] = NoSync)
==============================================================================
