----------------------------- MODULE TestProcesses -----------------------------
(***************************************************************************)
(* The command schedtest, testProcess/testProcesses.c: a program that      *)
(* creates processes, kills, blocks and unblocks them, and keeps its own   *)
(* account of their states.  The process table is the little of schedule.c *)
(* that these calls answer from; when a killed process is freed is up to   *)
(* the scheduler.                                                          *)
(***************************************************************************)
EXTENDS Integers, FiniteSets

CONSTANTS MAX_PROCESSES,
          LastPid         \* bound: the last pid that is handed out

ASSUME TestProcessesAssumption == MAX_PROCESSES \in 1 .. 255 /\ LastPid \in Nat

VARIABLES
  table,   \* the state of each process that exists
  nextPid,
  p_rqs,   \* what the program knows of its processes
  rq,      \* its loop variable
  alive,
  testPc   \* "create", "act", "unblock", or the message it ended with

procTestVars == <<table, nextPid, p_rqs, rq, alive, testPc>>

FirstTestPid == 4
Index == 0 .. MAX_PROCESSES - 1

TestProcessesInit ==
  /\ table = [pid \in {} |-> "READY"] /\ nextPid = FirstTestPid
  /\ p_rqs = [i \in Index |-> [pid |-> 0, state |-> "ERROR"]]
  /\ rq = 0 /\ alive = 0 /\ testPc = "create"

\* -1 is answered for a process that is dead or gone.
Answers(pid) == pid \in DOMAIN table /\ table[pid] # "KILLED"

\* The end of a loop over the processes.
NextIndex(to) ==
  IF rq < MAX_PROCESSES - 1 THEN rq' = rq + 1 /\ UNCHANGED testPc ELSE rq' = 0 /\ testPc' = to
SetOf(state) == p_rqs' = [p_rqs EXCEPT ![rq].state = state]
SetState(state) == table' = [table EXCEPT ![p_rqs[rq].pid] = state]
Ends(message) == testPc' = message /\ UNCHANGED <<table, nextPid, p_rqs, rq, alive>>

Creates ==
  /\ testPc = "create" /\ nextPid <= LastPid
  /\ table' = [pid \in DOMAIN table \cup {nextPid} |->
                 IF pid = nextPid THEN "READY" ELSE table[pid]]
  /\ p_rqs' = [p_rqs EXCEPT ![rq] = [pid |-> nextPid, state |-> "RUNNING"]]
  /\ nextPid' = nextPid + 1 /\ alive' = alive + 1
  /\ NextIndex("act")
\* No memory for the process.
CreationFails == testPc = "create" /\ Ends("Error creating process")

\* action = 0
Kills ==
  /\ testPc = "act" /\ p_rqs[rq].state \in {"RUNNING", "BLOCKED"}
  /\ IF ~Answers(p_rqs[rq].pid) THEN Ends("Error killing process")
     ELSE /\ SetState("KILLED") /\ SetOf("KILLED") /\ alive' = alive - 1
          /\ NextIndex("unblock")
          /\ UNCHANGED nextPid
\* action = 1
Blocks ==
  /\ testPc = "act" /\ p_rqs[rq].state = "RUNNING"
  /\ IF ~Answers(p_rqs[rq].pid) THEN Ends("Error blocking process")
     ELSE SetState("BLOCKED") /\ SetOf("BLOCKED") /\ NextIndex("unblock") /\ UNCHANGED <<nextPid, alive>>
\* An action that does not apply.
PassesBy ==
  /\ testPc = "act" /\ p_rqs[rq].state # "RUNNING"
  /\ NextIndex("unblock")
  /\ UNCHANGED <<table, nextPid, p_rqs, alive>>

AfterRound == IF alive > 0 THEN "act" ELSE "create"
Unblocks ==
  /\ testPc = "unblock" /\ p_rqs[rq].state = "BLOCKED"
  /\ IF ~Answers(p_rqs[rq].pid) THEN Ends("Error unblocking process")
     ELSE SetState("READY") /\ SetOf("RUNNING") /\ NextIndex(AfterRound) /\ UNCHANGED <<nextPid, alive>>
LeavesBlocked ==
  /\ testPc = "unblock"
  /\ NextIndex(AfterRound)
  /\ UNCHANGED <<table, nextPid, p_rqs, alive>>

\* The scheduler frees a killed process.
Frees(pid) ==
  /\ pid \in DOMAIN table /\ table[pid] = "KILLED"
  /\ table' = [p \in DOMAIN table \ {pid} |-> table[p]]
  /\ UNCHANGED <<nextPid, p_rqs, rq, alive, testPc>>

TestProcessesNext ==
  \/ Creates \/ CreationFails \/ Kills \/ Blocks \/ PassesBy \/ Unblocks \/ LeavesBlocked
  \/ \E pid \in FirstTestPid .. LastPid : Frees(pid)
TestProcessesSpec == TestProcessesInit /\ [][TestProcessesNext]_procTestVars

\* While nobody else kills its processes the program's account is true of the process
\* table, whenever the dead are freed: it ends with no other message than a failed
\* creation, alive is the number of its processes that are, and no process of an earlier
\* round outlives it.
AccountIsTrue ==
  /\ testPc \in {"create", "act", "unblock", "Error creating process"}
  /\ alive = Cardinality({pid \in DOMAIN table : table[pid] # "KILLED"})
  /\ \A i \in Index : /\ p_rqs[i].state = "RUNNING" => table[p_rqs[i].pid] = "READY"
                      /\ p_rqs[i].state = "BLOCKED" => table[p_rqs[i].pid] = "BLOCKED"
================================================================================
