------------------------------ MODULE ProcessList ------------------------------
(***************************************************************************)
(* The linked list behind the queue of Scheduler: processQueue and         *)
(* processDequeue of schedule.c, node by node, driven by the scheduler's   *)
(* steps.  A node is named by its pid.  What mallocCust gives is not       *)
(* cleared, a node that is dequeued keeps its next, and one that is queued *)
(* on an empty list keeps it too: what the walks over the list find behind *)
(* the last node depends on where it has been.                             *)
(***************************************************************************)
EXTENDS SchedulerRefinement

NULL == -1
Junk == -2  \* what a fresh node holds

VARIABLE list  \* processes: first, last and size, and the next of every node

listVars == <<vars, list>>

EmptyList == [first |-> NULL, last |-> NULL, size |-> 0, next |-> [p \in PID |-> Junk]]

queueIsEmpty(L) == L.size = 0

Alone(L, p) == [first |-> p, last |-> p, size |-> 1, next |-> L.next]
Behind(L, p, links) == [first |-> L.first, last |-> p, size |-> L.size + 1, next |-> links]

processQueue_KeepsNext(L, p) ==
  IF queueIsEmpty(L) THEN Alone(L, p) ELSE Behind(L, p, [L.next EXCEPT ![L.last] = p])
processQueue(L, p) ==
  IF queueIsEmpty(L) THEN Alone(L, p)
  ELSE Behind(L, p, [L.next EXCEPT ![L.last] = p, ![p] = NULL])

\* The node is L.first.
processDequeue(L) ==
  IF queueIsEmpty(L) THEN L
  ELSE [first |-> IF L.first \in PID THEN L.next[L.first] ELSE Junk,
        last |-> L.last, size |-> L.size - 1, next |-> L.next]

\* A node that was freed holds anything.
freed(L) ==
  [first |-> L.first, last |-> L.last, size |-> L.size,
   next |-> [p \in PID |-> IF state'[p] = "none" THEN Junk ELSE L.next[p]]]

\* initScheduler queues haltFunc and takes it off again; main adds the Overseer.
ListInit ==
  /\ Init
  /\ list = processQueue(processDequeue(processQueue(EmptyList, IdlePid)), Overseer)

Adds == \E p \in PID, asked \in {0, 1} : AddProcess(p, asked)

\* The steps that queue or dequeue, and the others.
ListNext ==
  \/ Adds /\ list' = processQueue(list, newPIDVal)
  \/ Requeue /\ list' = processQueue(list, currentProcess)
  \/ RunHead /\ list' = processDequeue(list)
  \/ RotateHead /\ list' = processQueue(processDequeue(list), list.first)
  \/ ReapHead /\ list' = freed(processDequeue(list))
  \/ Next /\ UNCHANGED queue /\ list' = freed(list)

ListSpec == ListInit /\ [][ListNext]_listVars /\ Fairness

\* The pointers are the queue of Scheduler: first, next and last go through its pids in
\* order, size counts them, and once the shell waits there with the Overseer the walks of
\* getProcessOfPID and processDisplay, which look for a NULL, find it behind the last node
\* and not the next that it had in an earlier place.
ListIsTheQueue ==
  LET n == Len(queue) IN
  /\ list.size = n
  /\ n > 0 => list.first = queue[1] /\ list.last = queue[n]
  /\ \A i \in 1 .. n - 1 : list.next[queue[i]] = queue[i + 1]
  /\ newPIDVal > Shell /\ ~(newPIDVal = Shell + 1 /\ currentProcess = Overseer) =>
       n > 0 /\ list.next[queue[n]] = NULL
================================================================================
