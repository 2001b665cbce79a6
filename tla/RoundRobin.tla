----------------------------- MODULE RoundRobin ------------------------------
(***************************************************************************)
(* What Kernel/task_manager/schedule.c promises to the programs: the CPU   *)
(* goes round a line of ready processes.  The one that waited longest in   *)
(* the line is next, the process that loses the CPU goes to its end, and   *)
(* the idle process runs only when the line is empty.  A blocked process   *)
(* is not in the line; it comes back anywhere in it, because the code      *)
(* keeps it in the same queue as the others while it is blocked.           *)
(***************************************************************************)
EXTENDS Naturals, Sequences, SequencesExt

CONSTANTS Proc, Idle, Nobody

VARIABLES line,     \* the ready processes that wait for the CPU
          running,  \* the process that has the CPU
          parked    \* the blocked processes

vars == <<line, running, parked>>

Waiting == Range(line)

Init ==
  /\ \E p \in Proc : line = <<p>>
  /\ running = Nobody
  /\ parked = {}

\* The running process makes a new one, and may wait for it.
Spawn(p, child, waits) ==
  /\ running = p
  /\ child \notin Waiting \cup parked \cup {p}
  /\ line' = Append(line, child)
  /\ running' = IF waits THEN Nobody ELSE p
  /\ parked' = IF waits THEN parked \cup {p} ELSE parked

\* The running process goes to the end of the line, ...
Preempt(p) ==
  /\ running = p
  /\ line' = Append(line, p)
  /\ running' = Nobody
  /\ UNCHANGED parked

\* ... blocks, ...
Park(p) ==
  /\ running = p
  /\ parked' = parked \cup {p}
  /\ running' = Nobody
  /\ UNCHANGED line

\* ... or dies.
Die(p) ==
  /\ running = p
  /\ running' = Nobody
  /\ UNCHANGED <<line, parked>>

\* Another process is blocked or killed while it waits, or killed while blocked.
ParkWaiting(p) ==
  /\ \E i \in 1 .. Len(line) : line[i] = p /\ line' = RemoveAt(line, i)
  /\ parked' = parked \cup {p}
  /\ UNCHANGED running

DieWaiting(p) ==
  /\ \E i \in 1 .. Len(line) : line[i] = p /\ line' = RemoveAt(line, i)
  /\ UNCHANGED <<running, parked>>

DieParked(p) ==
  /\ p \in parked
  /\ parked' = parked \ {p}
  /\ UNCHANGED <<line, running>>

Unpark(p) ==
  /\ p \in parked
  /\ parked' = parked \ {p}
  /\ \E i \in 1 .. Len(line) + 1 : line' = InsertAt(line, i, p)
  /\ UNCHANGED running

\* The CPU is given to the head of the line, or to nobody's process.
Dispatch ==
  /\ running = Nobody
  /\ line # <<>>
  /\ running' = Head(line)
  /\ line' = Tail(line)
  /\ UNCHANGED parked

DispatchIdle ==
  /\ running = Nobody
  /\ line = <<>>
  /\ running' = Idle
  /\ UNCHANGED <<line, parked>>

LeaveIdle ==
  /\ running = Idle
  /\ running' = Nobody
  /\ UNCHANGED <<line, parked>>

Next ==
  \/ \E p \in Proc :
       \/ \E child \in Proc, waits \in BOOLEAN : Spawn(p, child, waits)
       \/ Preempt(p) \/ Park(p) \/ Die(p)
       \/ ParkWaiting(p) \/ DieWaiting(p) \/ DieParked(p) \/ Unpark(p)
  \/ Dispatch \/ DispatchIdle \/ LeaveIdle

Spec == Init /\ [][Next]_vars
==============================================================================
