------------------------- MODULE SchedulerRefinement -------------------------
(***************************************************************************)
(* The scheduler of schedule.c implements RoundRobin.  The line is what    *)
(* remains of the queue when the blocked and the killed nodes are left     *)
(* out, so that the rotations of the search loop are stuttering steps; a   *)
(* process that blocked or killed itself has given the CPU away although   *)
(* scheduler has not been entered yet.                                     *)
(***************************************************************************)
EXTENDS Scheduler

\* The elements of q that are in S, in their order.
Kept(q, S) ==
  LET upTo[i \in 0 .. Len(q)] ==
        IF i = 0 THEN <<>>
        ELSE IF q[i] \in S THEN Append(upTo[i - 1], q[i]) ELSE upTo[i - 1]
  IN  upTo[Len(q)]

line == Kept(queue, {p \in PID : state[p] = "READY"})

running ==
  IF currentProcess # NoProc /\ state[currentProcess] = "READY"
  THEN currentProcess ELSE NoProc

parked == {p \in PID : state[p] = "BLOCKED"}

RR == INSTANCE RoundRobin WITH Proc <- PID \ {IdlePid}, Idle <- IdlePid, Nobody <- NoProc

\* Every behaviour of the scheduler is one of the round-robin line: no process is
\* served out of turn, forgotten or served twice, whatever is blocked, killed,
\* woken or created meanwhile.
ImplementsRoundRobin == RR!Spec
==============================================================================
