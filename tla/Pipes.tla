--------------------------------- MODULE Pipes ---------------------------------
(***************************************************************************)
(* The pipes of Kernel/inter_process_comun/pipes.c: an array of slots,     *)
(* each with a ring of characters and two semaphores: lockR counts what    *)
(* can be read, lockW what can be written.                                 *)
(*                                                                         *)
(* The calls run with interrupts off, but pRead and pWrite can sleep in a  *)
(* semaphore: what they still have to do is kept in inCall, and they go on *)
(* with the slot they had found, whatever happened to it.                  *)
(***************************************************************************)
EXTENDS Sync

CONSTANTS PipeId, PIPE_COUNT, BUFF_SIZE,
          PipeChar, NoChar,   \* the characters, and what the buffer holds at boot
          FIRST_SEM           \* semId at boot

ASSUME PipesAssumption ==
  /\ PIPE_COUNT \in Nat \ {0} /\ BUFF_SIZE \in Nat \ {0} /\ FIRST_SEM \in Nat
  /\ NoChar \in PipeChar

VARIABLES
  pipes,    \* pipesArray
  semId,    \* the id of the next semaphore
  inCall,   \* the rest of the pRead or pWrite in which each process sleeps
  lastRead  \* history: the character each slot gave last

pipesVars == <<pipes, semId, inCall, lastRead>>

Slot == 0 .. PIPE_COUNT - 1

PipesInit ==
  /\ pipes = [i \in Slot |-> [state |-> "EMPTY", id |-> 0, totalProcesses |-> 0,
                              lockR |-> 0, lockW |-> 0, readIndex |-> 0, writeIndex |-> 0,
                              buffer |-> [j \in 0 .. BUFF_SIZE - 1 |-> NoChar]]]
  /\ semId = FIRST_SEM
  /\ inCall = [p \in Process |-> [op |-> "none"]]
  /\ lastRead = [i \in Slot |-> NoChar]

\* The first slot with some property, or -1.
FirstSlot(S) == IF S = {} THEN -1 ELSE CHOOSE i \in S : \A j \in S : i <= j
getPipeIdx(id) == FirstSlot({i \in Slot : pipes[i].state = "IN_USE" /\ pipes[i].id = id})
getFreePipe == FirstSlot({i \in Slot : pipes[i].state = "EMPTY"})

(***************************************************************************)
(* pOpen.  newPipe answers the id of the pipe, and pOpen takes the answer  *)
(* for an index: it counts its caller in another slot, or in memory past   *)
(* the array, which is not modelled.                                       *)
(***************************************************************************)
Counted(array, i) == IF i \in Slot THEN [array EXCEPT ![i].totalProcesses = @ + 1] ELSE array

\* newPipe in slot i, where "opened" of its two semaphores find memory.
newPipe(i, id, opened) ==
  LET inUse == [pipes EXCEPT ![i].id = id, ![i].state = "IN_USE", ![i].readIndex = 0,
                             ![i].writeIndex = 0, ![i].totalProcesses = 0,
                             ![i].lockR = IF opened > 0 THEN semId ELSE -1,
                             ![i].lockW = IF opened > 1 THEN semId + 1 ELSE @]
      withR == IF opened > 0 THEN AfterOpen(sync, semId, 0) ELSE sync
  IN /\ pipes' = IF opened = 2 THEN Counted(inUse, id) ELSE inUse
     /\ sync' = IF opened = 2 THEN AfterOpen(withR, semId + 1, BUFF_SIZE) ELSE withR
     /\ semId' = semId + (IF opened > 0 THEN 2 ELSE 1)

\* What pOpen answers.
Opens(id, opened) == getPipeIdx(id) # -1 \/ (getFreePipe # -1 /\ opened = 2)

pOpen(id, opened) ==
  /\ CASE getPipeIdx(id) # -1 ->
            pipes' = Counted(pipes, getPipeIdx(id)) /\ UNCHANGED <<sync, semId>>
       [] getPipeIdx(id) = -1 /\ getFreePipe # -1 -> newPipe(getFreePipe, id, opened)
       [] OTHER -> UNCHANGED <<pipes, sync, semId>>
  /\ UNCHANGED <<inCall, lastRead>>

\* pClose: the last user frees the slot and its semaphores.
Depleted_Exact(total) == total = 0
Depleted(total) == total <= 0

pClose(id) ==
  LET i == getPipeIdx(id)
      total == pipes[i].totalProcesses - 1
  IN /\ IF i = -1 THEN UNCHANGED <<pipes, sync>>
        ELSE IF Depleted(total)
        THEN /\ pipes' = [pipes EXCEPT ![i].totalProcesses = total, ![i].state = "EMPTY"]
             /\ sync' = AfterClose(AfterClose(sync, pipes[i].lockR), pipes[i].lockW)
        ELSE pipes' = [pipes EXCEPT ![i].totalProcesses = total] /\ UNCHANGED sync
     /\ UNCHANGED <<semId, inCall, lastRead>>

(***************************************************************************)
(* pRead.                                                                  *)
(***************************************************************************)
Advanced(index) == (index + 1) % BUFF_SIZE

\* The second half, after the wait on lockR.  S is the list of semaphores then.
NextChar(i) == pipes[i].buffer[pipes[i].readIndex]
ReadChar_NoPost(i, S) ==
  /\ pipes' = [pipes EXCEPT ![i].readIndex = Advanced(@)]
  /\ lastRead' = [lastRead EXCEPT ![i] = NextChar(i)]
  /\ sync' = S
ReadChar(i, S) ==
  /\ pipes' = [pipes EXCEPT ![i].readIndex = Advanced(@)]
  /\ lastRead' = [lastRead EXCEPT ![i] = NextChar(i)]
  /\ sync' = AfterPost(S, pipes[i].lockW)

\* The call: it ends with a character, or sleeps.
pReadPasses(p, i) ==
  /\ ~Sleeps(sync, pipes[i].lockR)
  /\ ReadChar(i, AfterWait(sync, pipes[i].lockR, p))
  /\ UNCHANGED <<semId, inCall>>
pReadSleeps(p, i) ==
  /\ Sleeps(sync, pipes[i].lockR)
  /\ sync' = AfterWait(sync, pipes[i].lockR, p)
  /\ inCall' = [inCall EXCEPT ![p] = [op |-> "pRead", slot |-> i]]
  /\ UNCHANGED <<pipes, semId, lastRead>>
pReadReturns(p) ==
  /\ inCall[p].op = "pRead" /\ ~Asleep(p)
  /\ ReadChar(inCall[p].slot, sync)
  /\ inCall' = [inCall EXCEPT ![p] = [op |-> "none"]]
  /\ UNCHANGED semId

(***************************************************************************)
(* pWrite of a string, up to the character for which there is no space.    *)
(***************************************************************************)
PutChar(k, i, c) ==
  [array |-> [k.array EXCEPT ![i].buffer[k.array[i].writeIndex] = c,
                             ![i].writeIndex = Advanced(@)],
   sems |-> AfterPost(k.sems, k.array[i].lockR)]

\* One turn of the loop that finds space.
PutNext_NoWait(k, i, c) == PutChar(k, i, c)
PutNext(k, i, c) ==
  PutChar([k EXCEPT !.sems = AfterWait(@, pipes[i].lockW, 0)], i, c)

Room(S, i, str) ==
  LET lockW == pipes[i].lockW IN
  IF S[lockW] = NoSync \/ S[lockW].value >= Len(str) THEN Len(str) ELSE S[lockW].value

WriteFrom(p, k0, i, str) ==
  LET room == Room(k0.sems, i, str)
      written[n \in 0 .. room] == IF n = 0 THEN k0 ELSE PutNext(written[n - 1], i, str[n])
      k == written[room]
      ends == room = Len(str)
  IN /\ pipes' = k.array
     /\ sync' = IF ends THEN k.sems ELSE AfterWait(k.sems, pipes[i].lockW, p)
     /\ inCall' = [inCall EXCEPT ![p] =
                     IF ends THEN [op |-> "none"]
                     ELSE [op |-> "pWrite", slot |-> i,
                           rest |-> SubSeq(str, room + 1, Len(str))]]
     /\ UNCHANGED <<semId, lastRead>>

pWrite(p, i, str) == WriteFrom(p, [array |-> pipes, sems |-> sync], i, str)

\* The token that woke the writer is for the first character of the rest.
pWriteGoesOn(p) ==
  /\ inCall[p].op = "pWrite" /\ ~Asleep(p)
  /\ LET i == inCall[p].slot
         k == PutChar([array |-> pipes, sems |-> sync], i, Head(inCall[p].rest))
     IN WriteFrom(p, k, i, Tail(inCall[p].rest))

InCall(p) == inCall[p].op # "none"
==============================================================================
