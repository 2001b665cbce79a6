--------------------------- MODULE SchedulerProofs ---------------------------
(***************************************************************************)
(* Theorems about the process table and its scheduler, for every number of *)
(* processes, every assignment of priorities and every set of calls: the   *)
(* invariants and action properties of Scheduler; the waiting for          *)
(* children; the pointers of ProcessList; and that the queue implements    *)
(* the round-robin line, as SchedulerRefinement maps it.  Then the         *)
(* semaphores, which wake and block those processes.                       *)
(***************************************************************************)
EXTENDS Semaphores, ProcessList, DataLemmas, FiniteSetTheorems, TLAPS

(***************************************************************************)
(* The inductive invariant.  The properties are not inductive by           *)
(* themselves: a pid handed out twice would put a process in two places,   *)
(* a search that held a process would lose it when it dispatched another,  *)
(* and haltFunc must not be blockable.                                     *)
(***************************************************************************)
Fresh == \A p \in PID : p >= newPIDVal => state[p] = "none"
SearchHoldsNobody == mode = "dispatch" => currentProcess = NoProc
IdleIsReady == state[IdlePid] = "READY"

IInv == /\ TypeOK
        /\ InOnePlace
        /\ ReadyCount
        /\ OnlyReadyRuns
        /\ Fresh
        /\ SearchHoldsNobody
        /\ IdleIsReady

-----------------------------------------------------------------------------
(***************************************************************************)
(* Counting.                                                               *)
(***************************************************************************)

\* A set of pids has a size, and one element more or less changes it by one.
LEMMA CountChange ==
  ASSUME NEW T \in SUBSET PID, NEW x \in PID
  PROVE  /\ Cardinality(T) \in Nat
         /\ Cardinality(T) = 0 <=> T = {}
         /\ Cardinality(T \cup {x}) = Cardinality(T) + (IF x \in T THEN 0 ELSE 1)
         /\ Cardinality(T \ {x}) = Cardinality(T) - (IF x \in T THEN 1 ELSE 0)
<1>1. IsFiniteSet(PID)
  BY MaxPidAssumption, FS_Interval DEF PID
<1>2. IsFiniteSet(T)
  BY <1>1, FS_Subset
<1>3. Cardinality(T) \in Nat
  BY <1>2, FS_CardinalityType
<1>4. Cardinality(T) = 0 <=> T = {}
  BY <1>2, FS_EmptySet
<1>5. Cardinality(T \cup {x}) = Cardinality(T) + (IF x \in T THEN 0 ELSE 1)
  <2>1. CASE x \in T
    <3>1. T \cup {x} = T
      BY <2>1
    <3>. QED  BY <2>1, <3>1, <1>3
  <2>2. CASE x \notin T
    BY <2>2, <1>2, FS_AddElement
  <2>. QED  BY <2>1, <2>2
<1>6. Cardinality(T \ {x}) = Cardinality(T) - (IF x \in T THEN 1 ELSE 0)
  <2>1. CASE x \in T
    BY <2>1, <1>2, FS_RemoveElement
  <2>2. CASE x \notin T
    <3>1. T \ {x} = T
      BY <2>2
    <3>2. Cardinality(T \ {x}) = Cardinality(T)
      BY <3>1, Zenon
    <3>3. Cardinality(T) = Cardinality(T) - 0
      BY <1>3, SMT
    <3>4. (IF x \in T THEN 1 ELSE 0) = 0
      BY <2>2
    <3>. QED  BY <3>2, <3>3, <3>4, Zenon
  <2>. QED  BY <2>1, <2>2
<1>. QED  BY <1>3, <1>4, <1>5, <1>6

\* The processes the invariant speaks of.
LEMMA Pids == {IdlePid, Overseer, Shell} \subseteq PID /\ NoProc \notin PID
BY MaxPidAssumption DEF PID, IdlePid, Overseer, Shell, NoProc

\* The queue holds pids.
LEMMA QueuedPids == TypeOK => Queued \subseteq PID /\ ReadyQueued \subseteq PID
BY DEF TypeOK, Queued, ReadyQueued, Range

-----------------------------------------------------------------------------
(***************************************************************************)
(* setNewState keeps the count, and revives nobody.                        *)
(***************************************************************************)
LEMMA SetNewStateKeepsCount ==
  ASSUME TypeOK, InOnePlace, ReadyCount, IdleIsReady,
         NEW pid \in PID, NEW s \in {"READY", "BLOCKED", "KILLED"},
         SetNewState(pid, s), UNCHANGED <<queue, currentProcess>>
  PROVE  /\ state' \in [PID -> State] /\ readySize' \in Nat
         /\ ReadyCount'
         /\ InOnePlace'
         /\ \A p \in PID : p # pid => state'[p] = state[p]
         /\ state[pid] \in {"none", "KILLED"} => state'[pid] = state[pid]
         /\ state[pid] # "none" => state'[pid] # "none"
         /\ ~ Exists(pid) => state'[pid] = state[pid]
<1>. USE DEF State
<1>1. Queued' = Queued /\ (\A p : Exists(p)' <=> Exists(p))
  BY DEF Queued, Exists
<1>2. CASE ~ Settable(pid)
  <2>1. state' = state /\ readySize' = readySize
    BY <1>2 DEF SetNewState
  <2>2. ReadyQueued' = ReadyQueued
    BY <2>1, <1>1 DEF ReadyQueued
  <2>. QED  BY <2>1, <2>2, <1>1 DEF TypeOK, InOnePlace, ReadyCount
<1>3. CASE Settable(pid)
  <2>1. /\ state' = [state EXCEPT ![pid] = s]
        /\ readySize' = readySize + Recount(pid, s)
    BY <1>3 DEF SetNewState
  <2>2. Exists(pid) /\ state[pid] # "KILLED"
    BY <1>3 DEF Settable
  <2>3. state' \in [PID -> State] /\ state'[pid] = s /\ \A p \in PID : p # pid => state'[p] = state[p]
    BY <2>1 DEF TypeOK
  <2>4. pid # IdlePid => state[pid] # "none"
    BY <2>2 DEF InOnePlace
  <2>5. InOnePlace'
    BY <1>1, <2>2, <2>3, <2>4 DEF InOnePlace
  <2>6. ReadyQueued \subseteq PID
    BY QueuedPids
  <2>7. readySize' \in Nat /\ ReadyCount'
    <3>1. CASE pid = currentProcess
      <4>1. pid \notin Queued
        BY <3>1 DEF InOnePlace
      <4>2. ReadyQueued' = ReadyQueued
        BY <4>1, <1>1, <2>3, QueuedPids DEF ReadyQueued
      <4>. QED  BY <3>1, <4>2, <2>1 DEF Recount, ReadyCount, TypeOK
    <3>2. CASE pid # currentProcess
      <4>1. pid \in Queued
        BY <3>2, <2>2 DEF Exists
      <4>2. ReadyQueued' = IF s = "READY" THEN ReadyQueued \cup {pid} ELSE ReadyQueued \ {pid}
        BY <4>1, <1>1, <2>3, QueuedPids DEF ReadyQueued
      <4>3. pid \in ReadyQueued <=> state[pid] = "READY"
        BY <4>1 DEF ReadyQueued
      <4>4. readySize' = readySize + Ready(s) - Ready(state[pid])
        BY <3>2, <2>1 DEF Recount, Ready, TypeOK
      <4>5. /\ Cardinality(ReadyQueued \cup {pid}) =
                 Cardinality(ReadyQueued) + (IF state[pid] = "READY" THEN 0 ELSE 1)
            /\ Cardinality(ReadyQueued \ {pid}) =
                 Cardinality(ReadyQueued) - (IF state[pid] = "READY" THEN 1 ELSE 0)
        BY <4>3, <2>6, CountChange
      <4>6. readySize = Cardinality(ReadyQueued) /\ readySize \in Nat
        BY DEF ReadyCount, TypeOK
      <4>7. Cardinality(ReadyQueued') = readySize'
        <5>1. CASE s = "READY"
          BY <5>1, <4>2, <4>4, <4>5, <4>6 DEF Ready
        <5>2. CASE s # "READY"
          BY <5>2, <4>2, <4>4, <4>5, <4>6 DEF Ready
        <5>. QED  BY <5>1, <5>2
      <4>8. ReadyQueued' \subseteq PID
        BY <4>2, <2>6
      <4>. QED  BY <4>7, <4>8, CountChange DEF ReadyCount
    <3>. QED  BY <3>1, <3>2
  <2>. QED  BY <2>2, <2>3, <2>5, <2>7, <1>3 DEF TypeOK, InOnePlace, Settable, IdleIsReady
<1>. QED  BY <1>2, <1>3

\* Hence a call that does nothing to the scheduler but setNewState keeps the whole
\* invariant, if it gives the CPU away whenever it stops its own caller and leaves
\* haltFunc alone.
LEMMA SetNewStateKeepsIInv ==
  ASSUME IInv, NEW pid \in PID, NEW s \in {"READY", "BLOCKED", "KILLED"},
         SetNewState(pid, s),
         UNCHANGED <<newPIDVal, ppid, priority, queue, cpu, returned>>,
         fg' \in [PID -> {0, 1}],
         mode' \in {mode, "tick"}, mode \in {"user", "exit"},
         pid = currentProcess => s = "READY" \/ mode' = "tick",
         pid = IdlePid => s = "READY" \/ ~ Exists(IdlePid)
  PROVE  IInv'
<1>. USE DEF IInv
<1>1. /\ state' \in [PID -> State] /\ readySize' \in Nat
      /\ ReadyCount'
      /\ InOnePlace'
      /\ \A p \in PID : p # pid => state'[p] = state[p]
      /\ state[pid] \in {"none", "KILLED"} => state'[pid] = state[pid]
      /\ state[pid] # "none" => state'[pid] # "none"
      /\ ~ Exists(pid) => state'[pid] = state[pid]
  BY SetNewStateKeepsCount DEF cpu
<1>2. state'[pid] \in {s, state[pid]}
  BY DEF SetNewState, Settable, TypeOK
<1>3. TypeOK'
  BY <1>1 DEF TypeOK, Mode, cpu
<1>4. OnlyReadyRuns'
  <2>1. CASE mode' = "user"
    <3>1. mode = "user" /\ currentProcess' = currentProcess
      BY <2>1 DEF cpu
    <3>2. CASE pid = currentProcess
      BY <3>1, <3>2, <1>2, <2>1 DEF OnlyReadyRuns
    <3>3. CASE pid # currentProcess
      BY <3>1, <3>3, <1>1 DEF OnlyReadyRuns, TypeOK
    <3>. QED  BY <3>2, <3>3
  <2>2. CASE mode' # "user"
    BY <2>2 DEF OnlyReadyRuns
  <2>. QED  BY <2>1, <2>2
<1>5. Fresh'
  BY <1>1 DEF Fresh
<1>6. SearchHoldsNobody'
  BY DEF SearchHoldsNobody
<1>7. IdleIsReady'
  <2>1. IdlePid \in PID
    BY Pids
  <2>. QED  BY <2>1, <1>1, <1>2 DEF IdleIsReady
<1>. QED  BY <1>1, <1>3, <1>4, <1>5, <1>6, <1>7

-----------------------------------------------------------------------------
(***************************************************************************)
(* The initial state and the steps, call by call.                          *)
(***************************************************************************)
\* The state main leaves satisfies the invariant.
LEMMA InitIInv == Init => IInv
<1>. SUFFICES ASSUME Init PROVE IInv
  OBVIOUS
<1>. USE DEF Init
<1>1. MaxPid \in Nat /\ MaxPid >= 2
  BY MaxPidAssumption
<1>2. Queued = {Overseer}
  BY DEF Queued, Range
<1>3. TypeOK
  <2>1. /\ newPIDVal \in 2 .. MaxPid + 1 /\ cyclesLeft \in 0 .. PRIO_CAP
        /\ readySize \in Nat /\ currentProcess \in PID \cup {NoProc}
    BY <1>1, PriorityAssumption
  <2>2. queue \in Seq(PID)
    <3>1. Overseer \in PID
      BY Pids
    <3>. HIDE DEF Init
    <3>2. <<Overseer>> \in Seq(PID)
      BY <3>1
    <3>. QED  BY <3>2 DEF Init
  <2>3. mode \in Mode /\ returned \in BOOLEAN
    BY DEF Mode
  <2>4. state \in [PID -> State] /\ fg \in [PID -> {0, 1}]
    BY DEF State
  <2>5. ppid \in [PID -> PID]
    BY Pids DEF IdlePid
  <2>6. priority \in [PID -> 0 .. PRIO_CAP]
    BY PriorityAssumption
  <2>. QED  BY <2>1, <2>2, <2>3, <2>4, <2>5, <2>6 DEF TypeOK
<1>4. InOnePlace
  BY <1>2, Pids DEF InOnePlace, Exists, PID, IdlePid, Overseer, NoProc
<1>5. ReadyCount
  <2>1. ReadyQueued = {Overseer}
    BY <1>2, Pids DEF ReadyQueued
  <2>. QED  BY <2>1, FS_Singleton DEF ReadyCount
<1>6. Fresh
  BY <1>1 DEF Fresh, PID, IdlePid, Overseer
<1>. QED  BY <1>3, <1>4, <1>5, <1>6, Pids DEF IInv, OnlyReadyRuns, SearchHoldsNobody, IdleIsReady

\* What the guard of a system call says of its caller.
LEMMA CallerRuns ==
  ASSUME IInv, NEW p \in PID, NEW call, Calling(p, call)
  PROVE  /\ mode = "user" /\ p = currentProcess /\ p # IdlePid
         /\ state[p] = "READY" /\ ~ Exists(IdlePid)
BY Pids DEF IInv, TypeOK, OnlyReadyRuns, InOnePlace, Calling, Exists

\* A new process is put where no other is: its pid was never used.
LEMMA AddProcessKeepsIInv ==
  ASSUME IInv, NEW p \in PID, NEW asked \in {0, 1}, AddProcess(p, asked)
  PROVE  IInv'
<1>. DEFINE new == newPIDVal
            waits == Waits(p, asked)
<1>. USE DEF IInv
<1>1. /\ mode = "user" /\ p = currentProcess /\ p # IdlePid
      /\ state[p] = "READY" /\ ~ Exists(IdlePid) /\ Calling(p, "add")
  BY CallerRuns DEF AddProcess
<1>2. /\ new \in PID
      /\ newPIDVal' = new + 1
      /\ ppid' = [ppid EXCEPT ![new] = p]
      /\ fg' = [fg EXCEPT ![new] = ChildFg(p, asked)]
      /\ priority' = [priority EXCEPT ![new] = IF ChildFg(p, asked) = 1 THEN INIT_PRIO_AUG
                                            ELSE INIT_PRIO]
      /\ state' = [state EXCEPT ![new] = "READY", ![p] = IF waits THEN "BLOCKED" ELSE @]
      /\ queue' = Append(queue, new)
      /\ readySize' = readySize + 1
      /\ mode' = IF waits THEN "tick" ELSE mode
      /\ UNCHANGED <<cpu, returned>>
  BY DEF AddProcess, ProcessQueue, Ready
<1>3. new # p /\ new # IdlePid /\ state[new] = "none" /\ new \in 2 .. MaxPid /\ MaxPid \in Nat
  <2>1. new \in 2 .. MaxPid /\ MaxPid \in Nat
    BY <1>2, MaxPidAssumption DEF TypeOK, PID
  <2>2. state[new] = "none"
    BY <1>2, <2>1 DEF Fresh
  <2>. QED  BY <2>1, <2>2, <1>1 DEF IdlePid
<1>4. currentProcess' = currentProcess /\ cyclesLeft' = cyclesLeft
  BY <1>2 DEF cpu
<1>5. ~ Exists(new) /\ new \notin Queued
  BY <1>2, <1>3 DEF InOnePlace, Exists
<1>6. Queued' = Queued \cup {new} /\ Distinct(queue')
  <2>1. queue \in Seq(PID) /\ Distinct(queue) /\ new \notin Range(queue)
    BY <1>5 DEF TypeOK, InOnePlace, Distinct, Queued
  <2>2. Range(Append(queue, new)) = Range(queue) \cup {new}
    BY <2>1, <1>2, RangeAppend
  <2>3. Distinct(Append(queue, new))
    BY <2>1, <1>2, DistinctAppend
  <2>. QED  BY <1>2, <2>2, <2>3 DEF Queued
<1>7. TypeOK'
  <2>1. ChildFg(p, asked) \in {0, 1}
    BY DEF ChildFg
  <2>2. state' \in [PID -> State] /\ queue' \in Seq(PID) /\ mode' \in Mode
    BY <1>2 DEF TypeOK, State, Mode
  <2>. QED
    BY <1>2, <1>3, <1>4, <2>1, <2>2, PriorityAssumption DEF TypeOK
<1>8. state'[new] = "READY" /\ state'[p] = (IF waits THEN "BLOCKED" ELSE "READY")
      /\ \A q \in PID : q \notin {new, p} => state'[q] = state[q]
  BY <1>1, <1>2, <1>3 DEF TypeOK
<1>9. InOnePlace'
  BY <1>1, <1>3, <1>4, <1>6, <1>8 DEF InOnePlace, Exists, Distinct
<1>10. ReadyCount'
  <2>1. ReadyQueued' = ReadyQueued \cup {new} /\ new \notin ReadyQueued
    BY <1>1, <1>5, <1>6, <1>8, QueuedPids DEF ReadyQueued, InOnePlace
  <2>. QED  BY <2>1, <1>2, QueuedPids, CountChange DEF ReadyCount
<1>11. OnlyReadyRuns'
  BY <1>1, <1>2, <1>4, <1>8 DEF OnlyReadyRuns
<1>12. Fresh'
  <2>. SUFFICES ASSUME NEW q \in PID, q >= new + 1 PROVE state'[q] = "none"
    BY <1>2 DEF Fresh
  <2>1. q >= new /\ q # new
    BY <1>3 DEF PID
  <2>2. state[q] = "none"
    BY <2>1 DEF Fresh
  <2>. QED  BY <2>1, <2>2, <1>1, <1>8
<1>13. SearchHoldsNobody'
  BY <1>1, <1>2 DEF SearchHoldsNobody
<1>14. IdleIsReady'
  BY <1>1, <1>3, <1>8, Pids DEF IdleIsReady
<1>. QED  BY <1>7, <1>9, <1>10, <1>11, <1>12, <1>13, <1>14

\* killProcess, whoever calls it, keeps the invariant.
LEMMA KillProcessKeepsIInv ==
  ASSUME IInv, NEW pid \in PID, KillProcess(pid), mode \in {"user", "exit"}
  PROVE  IInv'
<1>1. CASE Killable(pid)
  <2>1. /\ SetNewState(pid, "KILLED") /\ TickIfSelf(pid)
        /\ UNCHANGED <<newPIDVal, ppid, fg, priority, queue, cpu, returned>>
    BY <1>1 DEF KillProcess, pcb
  <2>2. pid # IdlePid
    BY <1>1 DEF Killable, Shell, IdlePid
  <2>3. fg' \in [PID -> {0, 1}]
    BY <2>1 DEF IInv, TypeOK
  <2>4. mode' \in {mode, "tick"} /\ (pid = currentProcess => mode' = "tick")
    BY <2>1 DEF TickIfSelf
  <2>. QED  BY <2>1, <2>2, <2>3, <2>4, SetNewStateKeepsIInv
<1>2. CASE ~ Killable(pid)
  BY <1>2 DEF KillProcess, pcb, cpu, IInv, TypeOK, InOnePlace, ReadyCount, ReadyQueued,
     OnlyReadyRuns, Fresh, SearchHoldsNobody, IdleIsReady, Queued, Exists
<1>. QED  BY <1>1, <1>2

\* The block call, on oneself or on another process, keeps the invariant.
LEMMA BlockKeepsIInv ==
  ASSUME IInv, NEW p \in PID, NEW pid \in PID, Block(p, pid)
  PROVE  IInv'
<1>1. mode = "user" /\ p = currentProcess /\ p # IdlePid /\ ~ Exists(IdlePid)
  BY CallerRuns DEF Block
<1>2. /\ SetNewState(pid, "BLOCKED") /\ TickIfSelf(pid)
      /\ UNCHANGED <<newPIDVal, ppid, fg, priority, queue, cpu, returned>>
  BY DEF Block, pcb
<1>3. fg' \in [PID -> {0, 1}]
  BY <1>2 DEF IInv, TypeOK
<1>4. mode' \in {mode, "tick"} /\ (pid = currentProcess => mode' = "tick")
  BY <1>2 DEF TickIfSelf
<1>. QED  BY <1>1, <1>2, <1>3, <1>4, SetNewStateKeepsIInv

\* The unblock call, which an interrupt can make too, keeps the invariant.
LEMMA UnblockKeepsIInv ==
  ASSUME IInv, NEW pid \in PID, Unblock(pid)
  PROVE  IInv'
<1>1. /\ SetNewState(pid, "READY") /\ mode \in {"user", "exit"} /\ mode' = mode
      /\ UNCHANGED <<newPIDVal, ppid, fg, priority, queue, cpu, returned>>
  BY DEF Unblock, pcb
<1>2. fg' \in [PID -> {0, 1}]
  BY <1>1 DEF IInv, TypeOK
<1>. QED  BY <1>1, <1>2, SetNewStateKeepsIInv

\* waitForPID keeps the invariant.
LEMMA WaitForPIDKeepsIInv ==
  ASSUME IInv, NEW p \in PID, NEW pid \in PID, WaitForPID(p, pid)
  PROVE  IInv'
<1>1. mode = "user" /\ p = currentProcess /\ p # IdlePid
  BY CallerRuns DEF WaitForPID
<1>2. /\ SetNewState(p, "BLOCKED") /\ mode' = "tick"
      /\ fg' = [fg EXCEPT ![pid] = 1]
      /\ UNCHANGED <<newPIDVal, ppid, priority, queue, cpu, returned>>
  BY DEF WaitForPID
<1>3. fg' \in [PID -> {0, 1}]
  BY <1>2 DEF IInv, TypeOK
<1>. QED  BY <1>1, <1>2, <1>3, SetNewStateKeepsIInv

\* Steps that move no process and change no state.
LEMMA FrameKeepsIInv ==
  ASSUME IInv, TypeOK', newPIDVal' >= newPIDVal,
         UNCHANGED <<state, queue, readySize, currentProcess>>,
         mode' = "user" => mode = "user" \/ state[currentProcess] = "READY",
         mode' # "dispatch"
  PROVE  IInv'
<1>. USE DEF IInv
<1>1. Queued' = Queued /\ (\A p : Exists(p)' <=> Exists(p))
  BY DEF Queued, Exists
<1>2. InOnePlace' /\ ReadyCount'
  BY <1>1 DEF InOnePlace, ReadyCount, ReadyQueued
<1>3. OnlyReadyRuns' /\ SearchHoldsNobody' /\ IdleIsReady'
  BY DEF OnlyReadyRuns, SearchHoldsNobody, IdleIsReady
<1>4. Fresh'
  BY DEF Fresh, TypeOK, PID
<1>. QED  BY <1>2, <1>3, <1>4

\* The steps that touch no process state: a failed addProcess, nice, yield, a tick.
LEMMA SmallStepsKeepIInv ==
  ASSUME IInv,
         \/ \E p \in PID : \/ AddProcessFails(p) \/ Yield(p)
                           \/ \E pid \in PID, prio \in -1 .. PRIO_CAP + 1 : Nice(p, pid, prio)
         \/ TimerTick \/ KeepRunning
  PROVE  IInv'
<1>. USE DEF pcb, cpu
<1>0. IInv /\ TypeOK /\ MaxPid \in Nat /\ PRIO_CAP \in Nat
  BY MaxPidAssumption, PriorityAssumption DEF IInv
<1>1. ASSUME NEW p \in PID, AddProcessFails(p) PROVE IInv'
  <2>1. mode = "user"
    BY <1>1 DEF AddProcessFails, Calling
  <2>2. newPIDVal' \in 2 .. MaxPid + 1 /\ newPIDVal' >= newPIDVal
    BY <1>0, <1>1 DEF AddProcessFails, TypeOK, PID
  <2>3. TypeOK'
    BY <1>0, <1>1, <2>2 DEF AddProcessFails, TypeOK
  <2>. QED  BY <1>1, <2>1, <2>2, <2>3, FrameKeepsIInv DEF AddProcessFails
<1>2. ASSUME NEW p \in PID, Yield(p) PROVE IInv'
  <2>1. TypeOK' /\ newPIDVal' >= newPIDVal
    BY <1>0, <1>2 DEF Yield, TypeOK, Mode
  <2>. QED  BY <1>2, <2>1, FrameKeepsIInv DEF Yield
<1>3. ASSUME NEW p \in PID, NEW pid \in PID, NEW prio \in -1 .. PRIO_CAP + 1,
             Nice(p, pid, prio)
      PROVE  IInv'
  <2>1. mode = "user"
    BY <1>3 DEF Nice, Calling
  <2>2. Clamped(prio) \in 0 .. PRIO_CAP
    BY <1>0 DEF Clamped
  <2>3. priority' \in [PID -> 0 .. PRIO_CAP]
    BY <1>0, <1>3, <2>2 DEF Nice, TypeOK
  <2>4. TypeOK' /\ newPIDVal' >= newPIDVal
    BY <1>0, <1>3, <2>3 DEF Nice, TypeOK
  <2>. QED  BY <1>3, <2>1, <2>4, FrameKeepsIInv DEF Nice
<1>4. ASSUME TimerTick PROVE IInv'
  <2>1. TypeOK' /\ newPIDVal' >= newPIDVal
    BY <1>0, <1>4 DEF TimerTick, TypeOK, Mode
  <2>. QED  BY <1>4, <2>1, FrameKeepsIInv DEF TimerTick
<1>5. ASSUME KeepRunning PROVE IInv'
  <2>1. state[currentProcess] = "READY" /\ cyclesLeft > 0 /\ mode' \in {"user", "wild"}
    BY <1>5 DEF KeepRunning, QuantumLeft, Resume
  <2>2. TypeOK' /\ newPIDVal' >= newPIDVal
    BY <1>0, <1>5, <2>1 DEF KeepRunning, TypeOK, Mode
  <2>. QED  BY <1>5, <2>1, <2>2, FrameKeepsIInv DEF KeepRunning
<1>. QED  BY <1>1, <1>2, <1>3, <1>4, <1>5

\* The program that returns was READY and current, so the count is not concerned.
LEMMA ExitKeepsIInv ==
  ASSUME IInv, NEW p \in PID, Exit(p)
  PROVE  IInv'
<1>. USE DEF IInv, pcb, cpu
<1>1. mode = "user" /\ p = currentProcess /\ p # IdlePid /\ state[p] = "READY"
  BY CallerRuns DEF Exit
<1>2. /\ UNCHANGED <<queue, readySize, currentProcess, newPIDVal>> /\ mode' = "exit"
      /\ state'[p] \in {"READY", "KILLED"} /\ \A q \in PID : q # p => state'[q] = state[q]
  BY <1>1 DEF Exit, TypeOK
<1>3. TypeOK'
  BY <1>1 DEF Exit, TypeOK, Mode, State
<1>4. Queued' = Queued /\ \A q : Exists(q)' <=> Exists(q)
  BY <1>2 DEF Queued, Exists
<1>5. p \notin Queued
  BY <1>1 DEF InOnePlace
<1>6. ReadyQueued' = ReadyQueued
  BY <1>2, <1>4, <1>5, QueuedPids DEF ReadyQueued
<1>7. InOnePlace' /\ ReadyCount'
  BY <1>1, <1>2, <1>4, <1>6 DEF InOnePlace, ReadyCount
<1>8. Fresh' /\ IdleIsReady'
  BY <1>1, <1>2, Pids DEF Fresh, IdleIsReady
<1>. QED  BY <1>2, <1>3, <1>7, <1>8 DEF OnlyReadyRuns, SearchHoldsNobody

-----------------------------------------------------------------------------
(***************************************************************************)
(* scheduler().                                                            *)
(***************************************************************************)

\* Taking the CPU from haltFunc queues nobody.
LEMMA LeaveIdleKeepsIInv ==
  ASSUME IInv, LeaveIdle
  PROVE  IInv'
<1>. USE DEF IInv, pcb
<1>1. /\ currentProcess \in {NoProc, IdlePid} /\ currentProcess' = NoProc /\ mode' = "dispatch"
      /\ UNCHANGED <<newPIDVal, state, ppid, fg, priority, queue, readySize, cyclesLeft, returned>>
  BY DEF LeaveIdle, PutAway, NotQueued
<1>2. TypeOK'
  BY <1>1 DEF TypeOK, Mode
<1>3. Queued' = Queued /\ \A q \in PID \ {IdlePid} : Exists(q)' <=> Exists(q)
  BY <1>1, Pids DEF Queued, Exists
<1>4. NoProc \notin Queued
  BY QueuedPids, Pids
<1>5. InOnePlace' /\ ReadyCount'
  BY <1>1, <1>3, <1>4 DEF InOnePlace, ReadyCount, ReadyQueued
<1>6. Fresh' /\ IdleIsReady' /\ SearchHoldsNobody' /\ OnlyReadyRuns'
  BY <1>1 DEF Fresh, IdleIsReady, SearchHoldsNobody, OnlyReadyRuns
<1>. QED  BY <1>2, <1>5, <1>6

\* The process that had the CPU goes from its place to the queue, with its count.
LEMMA RequeueKeepsIInv ==
  ASSUME IInv, Requeue
  PROVE  IInv'
<1>. DEFINE p == currentProcess
<1>. USE DEF IInv, pcb
<1>1. /\ p \notin {NoProc, IdlePid} /\ state[p] # "KILLED"
      /\ currentProcess' = NoProc /\ mode' = "dispatch"
      /\ queue' = Append(queue, p) /\ readySize' = readySize + Ready(state[p])
      /\ UNCHANGED <<newPIDVal, state, ppid, fg, priority, cyclesLeft, returned>>
  BY DEF Requeue, PutAway, ProcessQueue, NotQueued
<1>2. p \in PID /\ p \notin Queued
  BY <1>1 DEF TypeOK, InOnePlace
<1>3. Queued' = Queued \cup {p} /\ Distinct(queue') /\ queue' \in Seq(PID)
  <2>1. queue \in Seq(PID) /\ Distinct(queue) /\ p \notin Range(queue)
    BY <1>2 DEF TypeOK, InOnePlace, Distinct, Queued
  <2>2. Range(Append(queue, p)) = Range(queue) \cup {p} /\ Distinct(Append(queue, p))
    BY <2>1, <1>2, RangeAppend, DistinctAppend
  <2>. QED  BY <1>1, <1>2, <2>1, <2>2 DEF Queued
<1>4. TypeOK'
  BY <1>1, <1>3 DEF TypeOK, Mode, Ready
<1>5. InOnePlace'
  <2>1. NoProc \notin Queued'
    BY <1>1, <1>3, QueuedPids, Pids
  <2>2. \A q \in PID : Exists(q)' <=> Exists(q)
    BY <1>1, <1>3, Pids DEF Exists
  <2>. QED  BY <1>1, <1>3, <2>1, <2>2 DEF InOnePlace, Distinct
<1>6. ReadyCount'
  <2>1. CASE state[p] = "READY"
    <3>1. ReadyQueued' = ReadyQueued \cup {p} /\ p \notin ReadyQueued
      BY <1>1, <1>2, <1>3, <2>1 DEF ReadyQueued
    <3>. QED  BY <3>1, <1>1, <1>2, <2>1, QueuedPids, CountChange DEF ReadyCount, Ready
  <2>2. CASE state[p] # "READY"
    <3>1. ReadyQueued' = ReadyQueued
      BY <1>1, <1>3, <2>2 DEF ReadyQueued
    <3>. QED  BY <3>1, <1>1, <2>2 DEF ReadyCount, Ready, TypeOK
  <2>. QED  BY <2>1, <2>2
<1>7. Fresh' /\ IdleIsReady' /\ SearchHoldsNobody' /\ OnlyReadyRuns'
  BY <1>1 DEF Fresh, IdleIsReady, SearchHoldsNobody, OnlyReadyRuns
<1>. QED  BY <1>4, <1>5, <1>6, <1>7

\* A freed PCB has well-typed fields.
LEMMA FreePCBType ==
  ASSUME TypeOK, NEW p \in PID, FreePCB(p)
  PROVE  ppid' \in [PID -> PID] /\ fg' \in [PID -> {0, 1}] /\ priority' \in [PID -> 0 .. PRIO_CAP]
<1>1. INIT_PRIO \in 0 .. PRIO_CAP
  BY PriorityAssumption
<1>2. 0 \in PID
  BY Pids DEF IdlePid
<1>. QED  BY <1>1, <1>2 DEF TypeOK, FreePCB

\* The dead process had the CPU, so nothing is left of it; its parent, if it is
\* woken, waits in the queue and is counted from now on.
LEMMA FreeCurrentKeepsIInv ==
  ASSUME IInv, FreeCurrent
  PROVE  IInv'
<1>. DEFINE p == currentProcess
            parent == ppid[p]
            wakes == WakesParent(p)
<1>. USE DEF IInv
<1>1. /\ p \notin {NoProc, IdlePid} /\ state[p] = "KILLED"
      /\ currentProcess' = NoProc /\ mode' = "dispatch"
      /\ state' = [state EXCEPT ![p] = "none", ![parent] = IF wakes THEN "READY" ELSE @]
      /\ readySize' = readySize + (IF wakes THEN 1 ELSE 0)
      /\ FreePCB(p)
      /\ UNCHANGED <<newPIDVal, queue, cyclesLeft, returned>>
  BY DEF FreeCurrent, PutAway, NotQueued
<1>2. p \in PID /\ p \notin Queued /\ parent \in PID
  BY <1>1 DEF TypeOK, InOnePlace
<1>3. wakes => parent \in Queued /\ parent # p /\ state[parent] = "BLOCKED"
  BY <1>1 DEF WakesParent, Exists
<1>4. /\ state'[p] = "none"
      /\ wakes => state'[parent] = "READY"
      /\ \A q \in PID : q # p /\ (wakes => q # parent) => state'[q] = state[q]
  BY <1>1, <1>2, <1>3 DEF TypeOK
<1>5. Queued' = Queued
  BY <1>1 DEF Queued
<1>6. TypeOK'
  <2>1. state' \in [PID -> State]
    BY <1>1, <1>2 DEF TypeOK, State
  <2>2. ppid' \in [PID -> PID] /\ fg' \in [PID -> {0, 1}] /\ priority' \in [PID -> 0 .. PRIO_CAP]
    BY <1>1, <1>2, FreePCBType
  <2>3. readySize' \in Nat
    BY <1>1 DEF TypeOK
  <2>4. mode' \in Mode
    BY <1>1 DEF Mode
  <2>. QED  BY <1>1, <2>1, <2>2, <2>3, <2>4 DEF TypeOK
<1>7. InOnePlace'
  <2>1. NoProc \notin Queued'
    BY <1>5, QueuedPids, Pids
  <2>2. \A q \in PID : Exists(q)' <=> Exists(q) /\ q # p
    BY <1>1, <1>2, <1>5, Pids DEF Exists
  <2>3. \A q \in PID \ {IdlePid} : state'[q] # "none" <=> state[q] # "none" /\ q # p
    BY <1>3, <1>4
  <2>. QED  BY <1>1, <1>5, <2>1, <2>2, <2>3 DEF InOnePlace
<1>8. ReadyCount'
  <2>1. CASE wakes
    <3>1. ReadyQueued' = ReadyQueued \cup {parent} /\ parent \notin ReadyQueued
      BY <2>1, <1>2, <1>3, <1>4, <1>5, QueuedPids DEF ReadyQueued
    <3>. QED  BY <3>1, <2>1, <1>1, <1>2, QueuedPids, CountChange DEF ReadyCount
  <2>2. CASE ~ wakes
    <3>1. ReadyQueued' = ReadyQueued
      BY <2>2, <1>2, <1>4, <1>5, QueuedPids DEF ReadyQueued
    <3>. QED  BY <3>1, <2>2, <1>1 DEF ReadyCount, TypeOK
  <2>. QED  BY <2>1, <2>2
<1>9. Fresh'
  BY <1>1, <1>3, <1>4 DEF Fresh
<1>10. IdleIsReady'
  BY <1>1, <1>3, <1>4, Pids DEF IdleIsReady
<1>11. SearchHoldsNobody' /\ OnlyReadyRuns'
  BY <1>1 DEF SearchHoldsNobody, OnlyReadyRuns
<1>. QED  BY <1>6, <1>7, <1>8, <1>9, <1>10, <1>11

\* The search never dereferences the NULL of an empty queue.
LEMMA SearchFindsHead ==
  ASSUME IInv, mode = "dispatch", SomeReady
  PROVE  /\ queue # <<>> /\ currentProcess = NoProc
         /\ Head(queue) \in Queued /\ Head(queue) \in PID \ {IdlePid}
         /\ Tail(queue) \in Seq(PID)
         /\ Range(Tail(queue)) = Queued \ {Head(queue)} /\ Distinct(Tail(queue))
<1>. USE DEF IInv
<1>1. ReadyQueued # {}
  BY QueuedPids, FS_EmptySet DEF SomeReady, ReadyCount
<1>2. queue # <<>>
  BY <1>1 DEF ReadyQueued, Queued, Range
<1>3. queue \in Seq(PID) /\ Distinct(queue)
  BY DEF TypeOK, InOnePlace, Distinct
<1>4. /\ Head(queue) \in Range(queue) /\ Head(queue) \in PID /\ Tail(queue) \in Seq(PID)
      /\ Range(Tail(queue)) = Range(queue) \ {Head(queue)}
      /\ Distinct(Tail(queue))
  BY <1>2, <1>3, RangeTail
<1>. QED  BY <1>2, <1>4 DEF SearchHoldsNobody, InOnePlace, Queued

\* The head of the queue gets the CPU, and is no longer counted.
LEMMA RunHeadKeepsIInv ==
  ASSUME IInv, RunHead
  PROVE  IInv' /\ currentProcess' \in ReadyQueued
<1>. DEFINE p == Head(queue)
<1>. USE DEF IInv, pcb
<1>1. /\ mode = "dispatch" /\ SomeReady /\ state[p] = "READY"
      /\ queue' = Tail(queue) /\ readySize' = readySize - 1
      /\ currentProcess' = p /\ cyclesLeft' = priority[p] /\ mode' \in {"user", "wild"}
      /\ UNCHANGED <<newPIDVal, state, ppid, fg, priority, returned>>
  BY DEF RunHead, Searching, GiveCpu, Resume
<1>2. /\ queue # <<>> /\ currentProcess = NoProc /\ p \in Queued /\ p \in PID \ {IdlePid}
      /\ queue' \in Seq(PID) /\ Queued' = Queued \ {p} /\ Distinct(queue')
  BY <1>1, SearchFindsHead DEF Queued
<1>3. TypeOK'
  <2>1. readySize' \in Nat
    BY <1>1 DEF SomeReady, TypeOK
  <2>. QED  BY <1>1, <1>2, <2>1 DEF TypeOK, Mode
<1>4. InOnePlace'
  <2>1. \A q \in PID : Exists(q)' <=> Exists(q)
    BY <1>1, <1>2, Pids DEF Exists
  <2>. QED  BY <1>1, <1>2, <2>1 DEF InOnePlace, Distinct
<1>5. ReadyCount'
  <2>1. ReadyQueued' = ReadyQueued \ {p} /\ p \in ReadyQueued
    BY <1>1, <1>2 DEF ReadyQueued
  <2>. QED  BY <2>1, <1>1, <1>2, QueuedPids, CountChange DEF ReadyCount
<1>6. Fresh' /\ IdleIsReady' /\ SearchHoldsNobody' /\ OnlyReadyRuns'
  BY <1>1 DEF Fresh, IdleIsReady, SearchHoldsNobody, OnlyReadyRuns
<1>7. currentProcess' \in ReadyQueued
  BY <1>1, <1>2 DEF ReadyQueued
<1>. QED  BY <1>3, <1>4, <1>5, <1>6, <1>7

\* A blocked head goes to the back.
LEMMA RotateHeadKeepsIInv ==
  ASSUME IInv, RotateHead
  PROVE  IInv'
<1>. DEFINE p == Head(queue)
<1>. USE DEF IInv, pcb, cpu
<1>1. /\ mode = "dispatch" /\ SomeReady /\ state[p] = "BLOCKED"
      /\ queue' = Append(Tail(queue), p)
      /\ UNCHANGED <<newPIDVal, state, ppid, fg, priority, readySize, currentProcess,
                     cyclesLeft, mode, returned>>
  BY DEF RotateHead, Searching
<1>2. /\ p \in Queued /\ p \in PID /\ Tail(queue) \in Seq(PID)
      /\ Range(Tail(queue)) = Queued \ {p} /\ Distinct(Tail(queue))
  BY <1>1, SearchFindsHead
<1>3. queue' \in Seq(PID) /\ Queued' = Queued /\ Distinct(queue')
  <2>1. p \notin Range(Tail(queue))
    BY <1>2
  <2>2. Range(Append(Tail(queue), p)) = Range(Tail(queue)) \cup {p}
    BY <1>2, RangeAppend
  <2>3. Distinct(Append(Tail(queue), p))
    BY <1>2, <2>1, DistinctAppend
  <2>4. Append(Tail(queue), p) \in Seq(PID)
    BY <1>2
  <2>5. (Queued \ {p}) \cup {p} = Queued
    BY <1>2
  <2>. QED  BY <1>1, <1>2, <2>2, <2>3, <2>4, <2>5 DEF Queued
<1>4. TypeOK'
  BY <1>1, <1>3 DEF TypeOK
<1>5. InOnePlace' /\ ReadyCount'
  <2>1. \A q \in PID : Exists(q)' <=> Exists(q)
    BY <1>1, <1>3 DEF Exists
  <2>. QED  BY <1>1, <1>3, <2>1 DEF InOnePlace, ReadyCount, ReadyQueued, Distinct
<1>6. Fresh' /\ IdleIsReady' /\ SearchHoldsNobody' /\ OnlyReadyRuns'
  BY <1>1 DEF Fresh, IdleIsReady, SearchHoldsNobody, OnlyReadyRuns
<1>. QED  BY <1>4, <1>5, <1>6

\* A killed head leaves the process table.
LEMMA ReapHeadKeepsIInv ==
  ASSUME IInv, ReapHead
  PROVE  IInv'
<1>. DEFINE p == Head(queue)
<1>. USE DEF IInv, cpu
<1>1. /\ mode = "dispatch" /\ SomeReady /\ state[p] = "KILLED"
      /\ state' = [state EXCEPT ![p] = "none"]
      /\ queue' = Tail(queue)
      /\ FreePCB(p)
      /\ UNCHANGED <<newPIDVal, readySize, currentProcess, cyclesLeft, mode, returned>>
  BY DEF ReapHead, Searching
<1>2. /\ currentProcess = NoProc /\ p \in Queued /\ p \in PID \ {IdlePid}
      /\ queue' \in Seq(PID) /\ Queued' = Queued \ {p} /\ Distinct(queue')
  BY <1>1, SearchFindsHead DEF Queued
<1>3. state'[p] = "none" /\ \A q \in PID : q # p => state'[q] = state[q]
  BY <1>1, <1>2 DEF TypeOK
<1>4. TypeOK'
  <2>1. state' \in [PID -> State]
    BY <1>1 DEF TypeOK, State
  <2>2. ppid' \in [PID -> PID] /\ fg' \in [PID -> {0, 1}] /\ priority' \in [PID -> 0 .. PRIO_CAP]
    BY <1>1, <1>2, FreePCBType
  <2>. QED  BY <1>1, <1>2, <2>1, <2>2 DEF TypeOK
<1>5. InOnePlace'
  <2>1. \A q \in PID : Exists(q)' <=> Exists(q) /\ q # p
    BY <1>1, <1>2, Pids DEF Exists
  <2>. QED  BY <1>1, <1>2, <1>3, <2>1, Pids DEF InOnePlace, Distinct
<1>6. ReadyCount'
  <2>1. ReadyQueued' = ReadyQueued
    BY <1>1, <1>2, <1>3, QueuedPids DEF ReadyQueued
  <2>. QED  BY <2>1, <1>1 DEF ReadyCount
<1>7. Fresh' /\ IdleIsReady' /\ SearchHoldsNobody' /\ OnlyReadyRuns'
  BY <1>1, <1>2, <1>3, Pids DEF Fresh, IdleIsReady, SearchHoldsNobody, OnlyReadyRuns
<1>. QED  BY <1>4, <1>5, <1>6, <1>7

\* haltFunc gets the CPU when readySize is 0.
LEMMA RunIdleKeepsIInv ==
  ASSUME IInv, RunIdle
  PROVE  IInv' /\ \A p \in PID \ {IdlePid} : state[p] # "READY"
<1>. USE DEF IInv, pcb
<1>1. /\ mode = "dispatch" /\ ~ SomeReady
      /\ currentProcess' = IdlePid /\ cyclesLeft' = priority[IdlePid] /\ mode' = "user"
      /\ UNCHANGED <<newPIDVal, state, ppid, fg, priority, queue, readySize, returned>>
  BY DEF RunIdle, GiveCpu, Resume, IdlePid, Overseer
<1>2. currentProcess = NoProc
  BY <1>1 DEF SearchHoldsNobody
<1>3. TypeOK'
  BY <1>1, Pids DEF TypeOK, Mode
<1>4. Queued' = Queued /\ \A q \in PID \ {IdlePid} : Exists(q)' <=> Exists(q)
  BY <1>1, <1>2, Pids DEF Exists, Queued
<1>5. InOnePlace' /\ ReadyCount'
  BY <1>1, <1>4 DEF InOnePlace, ReadyCount, ReadyQueued
<1>6. Fresh' /\ IdleIsReady' /\ SearchHoldsNobody' /\ OnlyReadyRuns'
  BY <1>1 DEF Fresh, IdleIsReady, SearchHoldsNobody, OnlyReadyRuns
<1>7. ASSUME NEW p \in PID \ {IdlePid} PROVE state[p] # "READY"
  <2>1. Cardinality(ReadyQueued) = 0
    BY <1>1 DEF SomeReady, ReadyCount, TypeOK
  <2>2. ReadyQueued = {}
    BY <2>1, QueuedPids, Pids, CountChange
  <2>3. state[p] # "none" => p \in Queued
    BY <1>2, Pids DEF InOnePlace, Exists
  <2>. QED  BY <2>2, <2>3 DEF ReadyQueued
<1>. QED  BY <1>3, <1>5, <1>6, <1>7

-----------------------------------------------------------------------------
(***************************************************************************)
(* Every step keeps the invariant, so every reachable state satisfies it.  *)
(***************************************************************************)
\* Every step of the system keeps the invariant: one case per action of Next.
LEMMA StepIInv == IInv /\ [Next]_vars => IInv'
<1>. SUFFICES ASSUME IInv, [Next]_vars PROVE IInv'
  OBVIOUS
<1>1. ASSUME NEW p \in PID, SystemCall(p) PROVE IInv'
  <2>1. ASSUME NEW asked \in {0, 1}, AddProcess(p, asked) PROVE IInv'
    BY <2>1, AddProcessKeepsIInv
  <2>2. ASSUME NEW pid \in PID, Kill(p, pid) PROVE IInv'
    BY <2>2, KillProcessKeepsIInv DEF Kill, Calling
  <2>3. CASE Fault(p)
    BY <2>3, KillProcessKeepsIInv DEF Fault, Calling
  <2>4. ASSUME NEW pid \in PID, Block(p, pid) PROVE IInv'
    BY <2>4, BlockKeepsIInv
  <2>5. ASSUME NEW pid \in PID, WaitForPID(p, pid) PROVE IInv'
    BY <2>5, WaitForPIDKeepsIInv
  <2>6. CASE Exit(p)
    BY <2>6, ExitKeepsIInv
  <2>7. CASE AddProcessFails(p) \/ Yield(p)
             \/ \E pid \in PID, prio \in -1 .. PRIO_CAP + 1 : Nice(p, pid, prio)
    BY <2>7, SmallStepsKeepIInv
  <2>. QED  BY <1>1, <2>1, <2>2, <2>3, <2>4, <2>5, <2>6, <2>7 DEF SystemCall
<1>2. CASE Interrupt
  <2>1. CASE TimerTick
    BY <2>1, SmallStepsKeepIInv
  <2>2. CASE CtrlC
    <3>1. currentProcess \in PID
      BY <2>2 DEF CtrlC, FgTarget, IInv, TypeOK
    <3>. QED  BY <3>1, <2>2, KillProcessKeepsIInv DEF CtrlC
  <2>3. ASSUME NEW pid \in PID, Unblock(pid) PROVE IInv'
    BY <2>3, UnblockKeepsIInv
  <2>. QED  BY <1>2, <2>1, <2>2, <2>3 DEF Interrupt
<1>3. CASE scheduler
  <2>1. CASE KeepRunning
    BY <2>1, SmallStepsKeepIInv
  <2>. QED
    BY <1>3, <2>1, LeaveIdleKeepsIInv, RequeueKeepsIInv, FreeCurrentKeepsIInv, RunHeadKeepsIInv,
       RotateHeadKeepsIInv, ReapHeadKeepsIInv, RunIdleKeepsIInv DEF scheduler, schedulerLoop
<1>4. CASE Wild \/ UNCHANGED vars
  <2>1. UNCHANGED vars
    BY <1>4 DEF Wild
  <2>. QED
    BY <2>1 DEF vars, pcb, cpu, IInv, TypeOK, InOnePlace, ReadyCount, ReadyQueued,
       OnlyReadyRuns, Fresh, SearchHoldsNobody, IdleIsReady, Queued, Exists
<1>. QED  BY <1>1, <1>2, <1>3, <1>4 DEF Next

\* The inductive invariant holds in every reachable state.
THEOREM Invariance == Spec => []IInv
BY InitIInv, StepIInv, PTL DEF Spec

\* The process table is well typed, for every number of processes.
THEOREM TypeCorrect == Spec => []TypeOK
<1>1. IInv => TypeOK
  BY DEF IInv
<1>. QED  BY <1>1, Invariance, PTL

\* No call, interrupt or kill puts a process in two places or loses it.
THEOREM EveryProcessInOnePlace == Spec => []InOnePlace
<1>1. IInv => InOnePlace
  BY DEF IInv
<1>. QED  BY <1>1, Invariance, PTL

\* readySize is always the number of READY processes in the queue.
THEOREM ReadySizeIsExact == Spec => []ReadyCount
<1>1. IInv => ReadyCount
  BY DEF IInv
<1>. QED  BY <1>1, Invariance, PTL

\* No blocked or killed process is ever resumed.
THEOREM OnlyReadyProcessesRun == Spec => []OnlyReadyRuns
<1>1. IInv => OnlyReadyRuns
  BY DEF IInv
<1>. QED  BY <1>1, Invariance, PTL

\* The idle process never takes the CPU from a READY one.
THEOREM IdleRunsLast == Spec => IdleOnlyWhenNobodyCanRun
<1>1. ASSUME IInv, [Next]_vars, currentProcess' = IdlePid, currentProcess # IdlePid
      PROVE  \A p \in PID \ {IdlePid} : state[p] # "READY"
  <2>1. currentProcess' # currentProcess /\ currentProcess' # NoProc
    BY <1>1 DEF IdlePid, NoProc
  <2>2. RunHead \/ RunIdle
    BY <1>1, <2>1 DEF Next, vars, cpu, SystemCall, Interrupt, scheduler, schedulerLoop,
       AddProcess, AddProcessFails, Kill, Fault, KillProcess, Block, Nice, Yield, WaitForPID,
       Exit, TimerTick, CtrlC, Unblock, KeepRunning, LeaveIdle, Requeue, FreeCurrent, PutAway,
       RotateHead, ReapHead, Wild
  <2>3. CASE RunHead
    <3>1. IdlePid \notin ReadyQueued
      BY <1>1 DEF IInv, InOnePlace, ReadyQueued
    <3>. QED  BY <3>1, <2>3, <1>1, RunHeadKeepsIInv
  <2>4. CASE RunIdle
    BY <2>4, <1>1, RunIdleKeepsIInv
  <2>. QED  BY <2>2, <2>3, <2>4
<1>2. IInv /\ [Next]_vars
        => [currentProcess' = IdlePid /\ currentProcess # IdlePid
              => \A p \in PID \ {IdlePid} : state[p] # "READY"]_vars
  BY <1>1
<1>. QED  BY <1>2, Invariance, PTL DEF Spec, IdleOnlyWhenNobodyCanRun

-----------------------------------------------------------------------------
(***************************************************************************)
(* Dead processes.                                                         *)
(***************************************************************************)
StaysDead(p) ==
  /\ state[p] = "KILLED" => /\ state'[p] \in {"KILLED", "none"}
                            /\ currentProcess' = p => currentProcess = p
  /\ state[p] = "none" /\ p < newPIDVal => state'[p] = "none"

\* A step that only calls setNewState revives nobody.
LEMMA SetNewStateRevivesNobody ==
  ASSUME IInv, NEW pid \in PID, NEW s \in {"READY", "BLOCKED", "KILLED"},
         SetNewState(pid, s), UNCHANGED <<queue, currentProcess>>,
         NEW p \in PID
  PROVE  StaysDead(p)
<1>1. /\ \A q \in PID : q # pid => state'[q] = state[q]
      /\ state[pid] \in {"none", "KILLED"} => state'[pid] = state[pid]
  BY SetNewStateKeepsCount DEF IInv
<1>. QED  BY <1>1 DEF StaysDead

\* Every step of the system leaves the dead dead.
LEMMA StepKeepsDead ==
  ASSUME IInv, [Next]_vars, NEW p \in PID
  PROVE  StaysDead(p)
<1>. USE DEF cpu, pcb
<1>1. ASSUME NEW c \in PID, NEW asked \in {0, 1}, AddProcess(c, asked) PROVE StaysDead(p)
  <2>1. state[c] = "READY"
    BY <1>1, CallerRuns DEF AddProcess
  <2>2. \A q \in PID : q \notin {c, newPIDVal} => state'[q] = state[q]
    BY <1>1 DEF AddProcess, IInv, TypeOK
  <2>3. newPIDVal \in PID /\ state[newPIDVal] = "none" /\ ~ (newPIDVal < newPIDVal)
    BY <1>1 DEF AddProcess, IInv, TypeOK, Fresh, PID
  <2>4. currentProcess' = currentProcess
    BY <1>1 DEF AddProcess
  <2>. QED  BY <2>1, <2>2, <2>3, <2>4 DEF StaysDead
<1>2. ASSUME NEW pid \in PID, KillProcess(pid) PROVE StaysDead(p)
  <2>1. CASE Killable(pid)
    BY <2>1, <1>2, SetNewStateRevivesNobody DEF KillProcess
  <2>2. CASE ~ Killable(pid)
    BY <2>2, <1>2 DEF KillProcess, StaysDead
  <2>. QED  BY <2>1, <2>2
<1>3. ASSUME NEW c \in PID, NEW pid \in PID, Block(c, pid) PROVE StaysDead(p)
  BY <1>3, SetNewStateRevivesNobody DEF Block
<1>4. ASSUME NEW pid \in PID, Unblock(pid) PROVE StaysDead(p)
  BY <1>4, SetNewStateRevivesNobody DEF Unblock
<1>5. ASSUME NEW c \in PID, NEW pid \in PID, WaitForPID(c, pid) PROVE StaysDead(p)
  BY <1>5, SetNewStateRevivesNobody DEF WaitForPID
<1>6. ASSUME NEW c \in PID, Exit(c) PROVE StaysDead(p)
  <2>1. state[c] = "READY"
    BY <1>6, CallerRuns DEF Exit
  <2>2. currentProcess' = currentProcess /\ \A q \in PID : q # c => state'[q] = state[q]
    BY <1>6 DEF Exit, IInv, TypeOK
  <2>. QED  BY <2>1, <2>2 DEF StaysDead
<1>7. ASSUME FreeCurrent PROVE StaysDead(p)
  <2>1. /\ state[currentProcess] = "KILLED" /\ currentProcess \in PID
        /\ currentProcess' \notin PID
        /\ state' = [state EXCEPT ![currentProcess] = "none",
                                  ![ppid[currentProcess]] =
                                     IF WakesParent(currentProcess) THEN "READY" ELSE @]
    BY <1>7, Pids DEF FreeCurrent, PutAway, NotQueued, IInv, TypeOK
  <2>2. WakesParent(currentProcess) => state[ppid[currentProcess]] = "BLOCKED"
    BY DEF WakesParent
  <2>3. state'[p] = IF p = ppid[currentProcess] /\ WakesParent(currentProcess) THEN "READY"
                    ELSE IF p = currentProcess THEN "none" ELSE state[p]
    BY <2>1, <2>2 DEF IInv, TypeOK
  <2>. QED  BY <2>1, <2>2, <2>3 DEF StaysDead
<1>8. ASSUME ReapHead PROVE StaysDead(p)
  <2>1. state[Head(queue)] = "KILLED" /\ state' = [state EXCEPT ![Head(queue)] = "none"]
        /\ currentProcess' = currentProcess
    BY <1>8 DEF ReapHead, Searching
  <2>. QED  BY <2>1 DEF StaysDead, IInv, TypeOK
<1>9. ASSUME RunHead PROVE StaysDead(p)
  <2>1. state' = state /\ state[currentProcess'] = "READY"
    BY <1>9 DEF RunHead, Searching, GiveCpu
  <2>. QED  BY <2>1 DEF StaysDead
<1>10. ASSUME RunIdle PROVE StaysDead(p)
  <2>1. state' = state /\ state[currentProcess'] = "READY"
    BY <1>10 DEF RunIdle, GiveCpu, IInv, IdleIsReady
  <2>. QED  BY <2>1 DEF StaysDead
<1>11. ASSUME UNCHANGED state, currentProcess' \in {currentProcess, NoProc} PROVE StaysDead(p)
  BY <1>11, Pids DEF StaysDead
<1>12. ASSUME NEW c \in PID, SystemCall(c) PROVE StaysDead(p)
  BY <1>1, <1>2, <1>3, <1>5, <1>6, <1>11, <1>12
     DEF SystemCall, Kill, Fault, AddProcessFails, Yield, Nice
<1>13. CASE Interrupt
  <2>1. CtrlC => currentProcess \in PID
    BY DEF CtrlC, FgTarget, IInv, TypeOK
  <2>. QED  BY <1>13, <2>1, <1>2, <1>4, <1>11 DEF Interrupt, CtrlC, TimerTick
<1>14. CASE scheduler
  BY <1>14, <1>7, <1>8, <1>9, <1>10, <1>11
     DEF scheduler, schedulerLoop, KeepRunning, LeaveIdle, Requeue, PutAway, RotateHead
<1>15. CASE Wild \/ UNCHANGED vars
  BY <1>15, <1>11 DEF Wild, vars
<1>. QED  BY <1>12, <1>13, <1>14, <1>15 DEF Next

\* Killed is final: a killed process is only ever freed, and gets the CPU no more.
THEOREM KilledIsFinal == Spec => DeadStayDead
<1>1. IInv /\ [Next]_vars => \A p \in PID : StaysDead(p)
  BY StepKeepsDead
<1>2. IInv /\ [Next]_vars
        => [\A p \in PID :
              /\ state[p] = "KILLED" => /\ state'[p] \in {"KILLED", "none"}
                                        /\ currentProcess' = p => currentProcess = p
              /\ state[p] = "none" /\ p < newPIDVal => state'[p] = "none"]_vars
  BY <1>1 DEF StaysDead
<1>. QED  BY <1>2, Invariance, PTL DEF Spec, DeadStayDead

-----------------------------------------------------------------------------
(***************************************************************************)
(* Waiting in the foreground, for every number of processes: when nobody   *)
(* kills, blocks or wakes another process, and programs wait only for      *)
(* their own children, a blocked process has exactly one child that it     *)
(* waits for, and goes on in the step that frees that child.               *)
(***************************************************************************)

\* The calls that the theorems do not speak of.
Meddling == {"kill", "block", "unblock", "waitAny"}

(***************************************************************************)
(* The inductive invariant.  That a blocked parent has a child is not      *)
(* inductive: when the child goes and wakes its parent, there must be no   *)
(* other child that keeps it waiting, and the child must have had the CPU  *)
(* when it died, since the search loop wakes nobody.                       *)
(***************************************************************************)
OneAwaited == \A p \in PID \ {IdlePid}, c, d \in PID : Awaits(p, c) /\ Awaits(p, d) => c = d
AwaitingStops == \A p \in PID \ {IdlePid}, c \in PID : Awaits(p, c) => state[p] # "READY"
DieOnCpu == \A p \in PID : state[p] = "KILLED" => p = currentProcess

ParentsFirst == \A c \in PID : ppid[c] < newPIDVal

\* This part holds although processes are killed and blocked.
AwaitInv == OneAwaited /\ AwaitingStops /\ ParentsFirst

WInv == AwaitInv /\ BlockedParentHasChild /\ DieOnCpu

-----------------------------------------------------------------------------
\* A step after which nobody awaits a child that he did not await before, and only
\* those go on who await none.
LEMMA FewerAwaited ==
  ASSUME AwaitInv, ParentsFirst', \A q, d \in PID : Awaits(q, d)' => Awaits(q, d),
         \A q \in PID \ {IdlePid} :
            state'[q] = "READY" => state[q] = "READY" \/ \A d \in PID : ~ Awaits(q, d)'
  PROVE  AwaitInv'
BY DEF AwaitInv, OneAwaited, AwaitingStops

\* A step that leaves the parents and the foreground alone, and wakes nobody.
LEMMA NobodyWakes ==
  ASSUME IInv, AwaitInv, UNCHANGED <<ppid, fg>>, newPIDVal' >= newPIDVal, newPIDVal' \in Nat,
         \A q \in PID : /\ state[q] = "none" => state'[q] = "none"
                        /\ state'[q] = "READY" => state[q] = "READY"
  PROVE  /\ AwaitInv'
         /\ \A q, d \in PID : Awaits(q, d)' => Awaits(q, d)
<1>1. \A q, d \in PID : Awaits(q, d)' => Awaits(q, d)
  BY DEF Awaits
<1>2. ParentsFirst'
  <2>1. newPIDVal \in Nat /\ \A c \in PID : ppid[c] \in Nat
    BY DEF IInv, TypeOK, PID
  <2>. QED  BY <2>1 DEF AwaitInv, ParentsFirst
<1>. QED  BY <1>1, <1>2, FewerAwaited

\* The running process blocks for a child that is in the foreground from now on: its
\* own, or one that is new.
LEMMA ParentBlocks ==
  ASSUME IInv, AwaitInv, NEW p \in PID \ {IdlePid}, state[p] = "READY", state'[p] = "BLOCKED",
         NEW c \in PID, Awaits(p, c)', ParentsFirst',
         \A q \in PID \ {p, c} : state'[q] = state[q],
         c # p => \/ state'[c] = state[c]
                  \/ state[c] = "none" /\ state'[c] = "READY" /\ c >= newPIDVal,
         \A q \in PID, d \in PID \ {c} : Awaits(q, d)' <=> Awaits(q, d),
         \A q \in PID : Awaits(q, c) => q = p
  PROVE  /\ AwaitInv'
         /\ \A q, d \in PID : Awaits(q, d)' => Awaits(q, d) \/ q = p
         /\ BlockedParentHasChild => BlockedParentHasChild'
<1>1. \A q \in PID : Awaits(q, c)' => q = p
  BY DEF Awaits
<1>2. \A d \in PID : ~ Awaits(p, d)
  BY DEF AwaitInv, AwaitingStops
<1>3. OneAwaited'
  BY <1>1, <1>2 DEF AwaitInv, OneAwaited
<1>4. ASSUME NEW q \in PID, NEW d \in PID, Awaits(q, d)', q # p
      PROVE  Awaits(q, d) /\ state'[q] = state[q]
  <2>1. Awaits(q, d) /\ ppid[d] = q
    BY <1>1, <1>4 DEF Awaits
  <2>2. q < newPIDVal
    BY <2>1 DEF AwaitInv, ParentsFirst
  <2>3. newPIDVal \in Nat /\ q \in Nat
    BY MaxPidAssumption DEF IInv, TypeOK, PID
  <2>. QED  BY <1>4, <2>1, <2>2, <2>3
<1>5. AwaitingStops'
  BY <1>4 DEF AwaitInv, AwaitingStops
<1>6. ASSUME BlockedParentHasChild PROVE BlockedParentHasChild'
  <2>1. ASSUME NEW q \in PID, state'[q] = "BLOCKED", q # p PROVE \E d \in PID : Awaits(q, d)'
    <3>1. state[q] = "BLOCKED"
      BY <2>1
    <3>2. PICK d \in PID : Awaits(q, d)
      BY <3>1, <1>6 DEF BlockedParentHasChild
    <3>. QED  BY <2>1, <3>2
  <2>. QED  BY <2>1 DEF BlockedParentHasChild
<1>. QED  BY <1>3, <1>4, <1>5, <1>6 DEF AwaitInv

-----------------------------------------------------------------------------
(***************************************************************************)
(* The steps.                                                              *)
(***************************************************************************)
\* A foreground child is the one its parent waits for.
LEMMA AddProcessAwaits ==
  ASSUME IInv, AwaitInv, NEW p \in PID, NEW asked \in {0, 1}, AddProcess(p, asked)
  PROVE  /\ AwaitInv'
         /\ \A q, d \in PID : Awaits(q, d)' => Awaits(q, d) \/ q = p
         /\ BlockedParentHasChild => BlockedParentHasChild'
<1>0. state \in [PID -> State] /\ ppid \in [PID -> PID] /\ fg \in [PID -> {0, 1}]
      /\ newPIDVal \in Nat
  BY DEF IInv, TypeOK
<1>1. PICK c \in PID : c = newPIDVal
  BY DEF AddProcess
<1>2. /\ c \in PID /\ newPIDVal' = c + 1 /\ currentProcess' = currentProcess
      /\ ppid' = [ppid EXCEPT ![c] = p] /\ fg' = [fg EXCEPT ![c] = ChildFg(p, asked)]
      /\ state' = [state EXCEPT ![c] = "READY",
                                ![p] = IF Waits(p, asked) THEN "BLOCKED" ELSE @]
  BY <1>1 DEF AddProcess, cpu
<1>3. state[p] = "READY" /\ p # IdlePid /\ state[c] = "none" /\ p # c /\ p < c
  <2>1. state[p] = "READY" /\ p # IdlePid
    BY CallerRuns DEF AddProcess
  <2>2. state[c] = "none" /\ (p >= c => state[p] = "none")
    BY <1>0, <1>1, <1>2 DEF IInv, Fresh
  <2>3. p \in Nat
    BY DEF PID
  <2>. QED  BY <1>0, <1>1, <2>1, <2>2, <2>3
<1>4. ParentsFirst'
  BY <1>0, <1>1, <1>2, <1>3 DEF AwaitInv, ParentsFirst, PID
<1>5. \A q \in PID, d \in PID \ {c} : Awaits(q, d)' <=> Awaits(q, d)
  BY <1>0, <1>2, <1>3 DEF Awaits
<1>6. \A q \in PID : ~ Awaits(q, c)
  BY <1>3 DEF Awaits
<1>7. CASE Waits(p, asked)
  <2>1. state'[p] = "BLOCKED" /\ state'[c] = "READY" /\ \A q \in PID \ {p, c} : state'[q] = state[q]
    BY <1>0, <1>2, <1>3, <1>7
  <2>2. Awaits(p, c)'
    BY <1>0, <1>2, <1>7, <2>1 DEF Awaits, Waits
  <2>3. c >= newPIDVal
    BY <1>0, <1>1
  <2>. QED  BY <1>0, <1>2, <1>3, <1>4, <1>5, <1>6, <2>1, <2>2, <2>3, ParentBlocks
<1>8. CASE ~ Waits(p, asked)
  <2>1. state'[c] = "READY" /\ \A q \in PID \ {c} : state'[q] = state[q]
    BY <1>0, <1>2, <1>3, <1>8
  <2>2. fg'[c] # 1
    BY <1>0, <1>2, <1>8 DEF Waits
  <2>3. \A q, d \in PID : Awaits(q, d)' <=> Awaits(q, d)
    BY <1>5, <1>6, <2>2 DEF Awaits
  <2>4. \A d \in PID : ~ Awaits(c, d)
    BY <1>0, <1>1 DEF AwaitInv, ParentsFirst, Awaits
  <2>5. ASSUME BlockedParentHasChild PROVE BlockedParentHasChild'
    <3>1. ASSUME NEW q \in PID, state'[q] = "BLOCKED" PROVE \E d \in PID : Awaits(q, d)'
      <4>1. state[q] = "BLOCKED"
        BY <2>1, <3>1
      <4>. QED  BY <4>1, <2>3, <2>5 DEF BlockedParentHasChild
    <3>. QED  BY <3>1 DEF BlockedParentHasChild
  <2>6. OneAwaited'
    BY <2>3 DEF AwaitInv, OneAwaited
  <2>7. AwaitingStops'
    <3>1. ASSUME NEW q \in PID \ {IdlePid}, NEW d \in PID, Awaits(q, d)' PROVE state'[q] # "READY"
      <4>1. Awaits(q, d) /\ q # c
        BY <2>3, <2>4, <3>1
      <4>. QED  BY <4>1, <2>1 DEF AwaitInv, AwaitingStops
    <3>. QED  BY <3>1 DEF AwaitingStops
  <2>. QED  BY <1>4, <2>3, <2>5, <2>6, <2>7 DEF AwaitInv
<1>. QED  BY <1>7, <1>8

\* waitForPID puts the child in the foreground.
LEMMA WaitForPIDAwaits ==
  ASSUME IInv, AwaitInv, NEW p \in PID, NEW pid \in PID, WaitForPID(p, pid), "waitAny" \notin Calls
  PROVE  /\ AwaitInv'
         /\ \A q, d \in PID : Awaits(q, d)' => Awaits(q, d) \/ q = p
         /\ BlockedParentHasChild => BlockedParentHasChild'
<1>0. state \in [PID -> State] /\ ppid \in [PID -> PID] /\ fg \in [PID -> {0, 1}]
  BY DEF IInv, TypeOK
<1>1. /\ state[p] = "READY" /\ p # IdlePid /\ p = currentProcess /\ ppid[pid] = p /\ Exists(pid)
      /\ fg' = [fg EXCEPT ![pid] = 1] /\ SetNewState(p, "BLOCKED")
      /\ UNCHANGED <<newPIDVal, ppid, currentProcess>>
  BY CallerRuns DEF WaitForPID, Calling, cpu
<1>2. state' = [state EXCEPT ![p] = "BLOCKED"]
  BY <1>1 DEF SetNewState, Settable, Exists
<1>3. state[pid] # "none"
  <2>1. pid # IdlePid => state[pid] # "none"
    BY <1>1 DEF IInv, InOnePlace
  <2>. QED  BY <2>1 DEF IInv, IdleIsReady
<1>4. \A q \in PID : (Awaits(q, pid) => q = p) /\ (Awaits(q, pid)' => q = p)
  BY <1>1 DEF Awaits
<1>5. \A q \in PID, d \in PID \ {pid} : Awaits(q, d)' <=> Awaits(q, d)
  BY <1>0, <1>1, <1>2 DEF Awaits
<1>6. Awaits(p, pid)'
  BY <1>0, <1>1, <1>2, <1>3 DEF Awaits
<1>7. ParentsFirst'
  BY <1>1 DEF AwaitInv, ParentsFirst
<1>8. /\ state'[p] = "BLOCKED" /\ \A q \in PID \ {p, pid} : state'[q] = state[q]
      /\ pid # p => state'[pid] = state[pid]
  BY <1>0, <1>2
<1>. QED  BY <1>1, <1>4, <1>5, <1>6, <1>7, <1>8, ParentBlocks

\* A process that is freed was waited for by its parent, which goes on, or by nobody.
LEMMA FreeCurrentWakes ==
  ASSUME IInv, AwaitInv, FreeCurrent
  PROVE  LET c == currentProcess IN
         /\ c \in PID /\ state[c] = "KILLED" /\ state'[c] = "none"
         /\ \A q \in PID \ {c} : state'[q] = IF Awaits(q, c) /\ state[q] = "BLOCKED" THEN "READY"
                                             ELSE state[q]
         /\ \A q, d \in PID : Awaits(q, d)' <=> Awaits(q, d) /\ d # c
         /\ newPIDVal' = newPIDVal /\ ParentsFirst'
<1>. DEFINE c == currentProcess
<1>0. state \in [PID -> State] /\ ppid \in [PID -> PID] /\ fg \in [PID -> {0, 1}]
      /\ newPIDVal \in 2 .. MaxPid + 1
  BY DEF IInv, TypeOK
<1>1. /\ c \in PID /\ state[c] = "KILLED" /\ newPIDVal' = newPIDVal
      /\ ppid' = [ppid EXCEPT ![c] = 0] /\ fg' = [fg EXCEPT ![c] = 0]
      /\ state' = [state EXCEPT ![c] = "none", ![ppid[c]] = IF WakesParent(c) THEN "READY" ELSE @]
  BY Pids DEF FreeCurrent, FreePCB, PutAway, NotQueued, IInv, TypeOK
<1>2. ASSUME NEW q \in PID, Awaits(q, c), state[q] = "BLOCKED" PROVE WakesParent(c) /\ q = ppid[c]
  <2>1. q # IdlePid
    BY <1>2 DEF IInv, IdleIsReady
  <2>. QED  BY <1>2, <2>1 DEF WakesParent, Awaits, IInv, InOnePlace
<1>3. WakesParent(c) => Awaits(ppid[c], c) /\ state[ppid[c]] = "BLOCKED" /\ ppid[c] # c
  BY <1>1 DEF WakesParent, Awaits
<1>4. state'[c] = "none"
  BY <1>0, <1>1, <1>3
<1>5. \A q \in PID \ {c} : state'[q] = IF Awaits(q, c) /\ state[q] = "BLOCKED" THEN "READY"
                                       ELSE state[q]
  BY <1>0, <1>1, <1>2, <1>3
<1>6. \A d \in PID \ {c} : state'[d] = "none" <=> state[d] = "none"
  BY <1>5
<1>7. \A q, d \in PID : Awaits(q, d)' <=> Awaits(q, d) /\ d # c
  BY <1>0, <1>1, <1>4, <1>6 DEF Awaits
<1>8. ParentsFirst'
  BY <1>0, <1>1 DEF AwaitInv, ParentsFirst
<1>. QED  BY <1>1, <1>4, <1>5, <1>7, <1>8

\* Nobody else was awaited by the parent that goes on.
LEMMA FreeCurrentAwaits ==
  ASSUME IInv, AwaitInv, FreeCurrent
  PROVE  AwaitInv' /\ (BlockedParentHasChild => BlockedParentHasChild')
<1>. DEFINE c == currentProcess
<1>1. /\ c \in PID /\ state[c] = "KILLED" /\ state'[c] = "none"
      /\ \A q \in PID \ {c} : state'[q] = IF Awaits(q, c) /\ state[q] = "BLOCKED" THEN "READY"
                                          ELSE state[q]
      /\ \A q, d \in PID : Awaits(q, d)' <=> Awaits(q, d) /\ d # c
      /\ ParentsFirst'
  BY FreeCurrentWakes
<1>2. OneAwaited'
  BY <1>1 DEF AwaitInv, OneAwaited
<1>3. AwaitingStops'
  BY <1>1 DEF AwaitInv, OneAwaited, AwaitingStops
<1>4. ASSUME BlockedParentHasChild PROVE BlockedParentHasChild'
  <2>1. ASSUME NEW q \in PID, state'[q] = "BLOCKED" PROVE \E d \in PID : Awaits(q, d)'
    <3>1. q # c /\ state[q] = "BLOCKED" /\ ~ Awaits(q, c)
      BY <1>1, <2>1
    <3>2. PICK d \in PID : Awaits(q, d)
      BY <1>4, <3>1 DEF BlockedParentHasChild
    <3>. QED  BY <1>1, <3>1, <3>2
  <2>. QED  BY <2>1 DEF BlockedParentHasChild
<1>. QED  BY <1>1, <1>2, <1>3, <1>4 DEF AwaitInv

\* A killed process, queued or not, that the search frees wakes nobody.
LEMMA ReapHeadAwaits ==
  ASSUME IInv, AwaitInv, ReapHead
  PROVE  AwaitInv' /\ \A q, d \in PID : Awaits(q, d)' => Awaits(q, d)
<1>. DEFINE h == Head(queue)
<1>0. state \in [PID -> State] /\ ppid \in [PID -> PID] /\ fg \in [PID -> {0, 1}]
      /\ newPIDVal \in 2 .. MaxPid + 1
  BY DEF IInv, TypeOK
<1>1. h \in PID /\ newPIDVal' = newPIDVal /\ ppid' = [ppid EXCEPT ![h] = 0]
      /\ fg' = [fg EXCEPT ![h] = 0] /\ state' = [state EXCEPT ![h] = "none"]
  BY SearchFindsHead DEF ReapHead, FreePCB, Searching
<1>2. \A q, d \in PID : Awaits(q, d)' => Awaits(q, d)
  BY <1>0, <1>1 DEF Awaits
<1>3. ParentsFirst'
  BY <1>0, <1>1 DEF AwaitInv, ParentsFirst
<1>4. \A q \in PID : state'[q] = "READY" => state[q] = "READY"
  BY <1>0, <1>1
<1>. QED  BY <1>2, <1>3, <1>4, FewerAwaited

\* The other calls wake nobody, and make nobody wait for a child.
LEMMA CallAwaits ==
  ASSUME IInv, AwaitInv, "waitAny" \notin Calls, NEW p \in PID, SystemCall(p)
  PROVE  AwaitInv' /\ \A q, d \in PID : Awaits(q, d)' => Awaits(q, d) \/ (q = currentProcess /\ mode = "user")
<1>0. p = currentProcess /\ mode = "user"
  BY CallerRuns DEF SystemCall, AddProcess, AddProcessFails, Kill, Fault, Block, Nice, Yield,
     WaitForPID, Exit, Calling
<1>1. ASSUME NEW asked \in {0, 1}, AddProcess(p, asked)
      PROVE  AwaitInv' /\ \A q, d \in PID : Awaits(q, d)' => Awaits(q, d) \/ q = p
  BY <1>1, AddProcessAwaits
<1>2. ASSUME NEW pid \in PID, WaitForPID(p, pid)
      PROVE  AwaitInv' /\ \A q, d \in PID : Awaits(q, d)' => Awaits(q, d) \/ q = p
  BY <1>2, WaitForPIDAwaits
<1>3. ASSUME UNCHANGED <<ppid, fg>>, newPIDVal' \in {newPIDVal, newPIDVal + 1},
             state' = state \/ \E q \in PID, s \in {"KILLED", "BLOCKED"} :
                state[q] # "none" /\ state' = [state EXCEPT ![q] = s]
      PROVE  AwaitInv' /\ \A q, d \in PID : Awaits(q, d)' => Awaits(q, d)
  <2>1. newPIDVal' >= newPIDVal /\ newPIDVal' \in Nat
    BY <1>3 DEF IInv, TypeOK
  <2>2. \A q \in PID : /\ state[q] = "none" => state'[q] = "none"
                       /\ state'[q] = "READY" => state[q] = "READY"
    BY <1>3 DEF IInv, TypeOK
  <2>. QED  BY <1>3, <2>1, <2>2, NobodyWakes
<1>4. ASSUME NEW pid \in PID, Kill(p, pid) \/ Block(p, pid) \/ Fault(p) \/ Exit(p)
             \/ AddProcessFails(p) \/ Yield(p) \/ \E prio \in -1 .. PRIO_CAP + 1 : Nice(p, pid, prio)
      PROVE  AwaitInv' /\ \A q, d \in PID : Awaits(q, d)' => Awaits(q, d)
  <2>1. UNCHANGED <<ppid, fg>> /\ newPIDVal' \in {newPIDVal, newPIDVal + 1}
    BY <1>4 DEF Kill, Block, Fault, Exit, KillProcess, AddProcessFails, Yield, Nice, pcb
  <2>2. CASE Kill(p, pid)
    <3>1. state' = state \/ (Exists(pid) /\ state' = [state EXCEPT ![pid] = "KILLED"] /\ pid # IdlePid)
      BY <2>2 DEF Kill, KillProcess, SetNewState, Settable, Killable, Shell, IdlePid
    <3>. QED  BY <1>3, <2>1, <3>1 DEF IInv, InOnePlace
  <2>3. CASE Block(p, pid)
    <3>1. state' = state \/ (Exists(pid) /\ state' = [state EXCEPT ![pid] = "BLOCKED"])
      BY <2>3 DEF Block, SetNewState, Settable
    <3>2. Exists(pid) => state[pid] # "none"
      BY DEF IInv, InOnePlace, IdleIsReady
    <3>. QED  BY <1>3, <2>1, <3>1, <3>2
  <2>4. CASE Fault(p) \/ Exit(p)
    <3>1. state[p] = "READY"
      BY <2>4, CallerRuns DEF Fault, Exit
    <3>2. state' = state \/ state' = [state EXCEPT ![p] = "KILLED"]
      BY <2>4 DEF Fault, KillProcess, SetNewState, Exit, IInv, TypeOK
    <3>. QED  BY <1>3, <2>1, <3>1, <3>2
  <2>5. CASE AddProcessFails(p) \/ Yield(p) \/ \E prio \in -1 .. PRIO_CAP + 1 : Nice(p, pid, prio)
    <3>1. state' = state
      BY <2>5 DEF AddProcessFails, Yield, Nice
    <3>. QED  BY <1>3, <2>1, <3>1
  <2>. QED  BY <1>4, <2>2, <2>3, <2>4, <2>5
<1>. QED  BY <1>0, <1>1, <1>2, <1>4 DEF SystemCall

\* A timer tick, ctrl-C, and the scheduler.
LEMMA OtherStepAwaits ==
  ASSUME IInv, AwaitInv, "unblock" \notin Calls, Interrupt \/ scheduler \/ Wild
  PROVE  AwaitInv' /\ \A q, d \in PID : Awaits(q, d)' => Awaits(q, d)
<1>1. CASE CtrlC
  <2>1. currentProcess \in PID /\ state[currentProcess] = "READY"
    BY <1>1 DEF CtrlC, FgTarget, IInv, TypeOK
  <2>2. /\ state' \in {state, [state EXCEPT ![currentProcess] = "KILLED"]}
        /\ UNCHANGED <<newPIDVal, ppid, fg, currentProcess>>
    BY <1>1 DEF CtrlC, KillProcess, SetNewState, pcb, cpu
  <2>3. \A q \in PID : /\ state[q] = "none" => state'[q] = "none"
                       /\ state'[q] = "READY" => state[q] = "READY"
    BY <2>1, <2>2 DEF IInv, TypeOK
  <2>4. newPIDVal' >= newPIDVal /\ newPIDVal' \in Nat
    BY <2>2 DEF IInv, TypeOK
  <2>. QED  BY <2>2, <2>3, <2>4, NobodyWakes
<1>2. ASSUME NEW pid \in PID, Unblock(pid) PROVE FALSE
  BY <1>2 DEF Unblock
<1>3. CASE TimerTick \/ KeepRunning \/ RotateHead \/ Wild \/ LeaveIdle \/ Requeue \/ RunHead \/ RunIdle
  <2>1. UNCHANGED <<newPIDVal, state, ppid, fg>>
    BY <1>3 DEF TimerTick, KeepRunning, RotateHead, Wild, vars, pcb, cpu, LeaveIdle, Requeue,
       RunHead, RunIdle, PutAway
  <2>2. newPIDVal' >= newPIDVal /\ newPIDVal' \in Nat
    BY <2>1 DEF IInv, TypeOK
  <2>. QED  BY <2>1, <2>2, NobodyWakes
<1>4. CASE FreeCurrent
  BY <1>4, FreeCurrentAwaits, FreeCurrentWakes
<1>5. CASE ReapHead
  BY <1>5, ReapHeadAwaits
<1>. QED  BY <1>1, <1>2, <1>3, <1>4, <1>5 DEF Interrupt, scheduler, schedulerLoop

\* Unless programs unblock others, or wait for processes that are not their children,
\* nobody goes on while it awaits a child.
LEMMA StepAwaits ==
  ASSUME IInv, AwaitInv, "waitAny" \notin Calls, "unblock" \notin Calls, Next
  PROVE  /\ AwaitInv'
         /\ \A q, d \in PID :
               Awaits(q, d)' => Awaits(q, d) \/ (q = currentProcess /\ mode = "user")
BY CallAwaits, OtherStepAwaits DEF Next

-----------------------------------------------------------------------------
(***************************************************************************)
(* When nobody meddles, whoever is blocked awaits a child.                 *)
(***************************************************************************)
\* A step that leaves parents and foreground alone, and blocks and frees nobody.
LEMMA NobodyBlocks ==
  ASSUME BlockedParentHasChild, UNCHANGED <<ppid, fg>>,
         \A q \in PID : /\ state'[q] = "BLOCKED" => state[q] = "BLOCKED"
                        /\ state'[q] = "none" => state[q] = "none"
  PROVE  BlockedParentHasChild'
<1>1. \A q, d \in PID : Awaits(q, d) => Awaits(q, d)'
  BY DEF Awaits
<1>. QED  BY <1>1 DEF BlockedParentHasChild

\* The calls: at most the running process dies.
LEMMA CallKeepsWInv ==
  ASSUME IInv, WInv, Calls \cap Meddling = {}, NEW p \in PID, SystemCall(p)
  PROVE  BlockedParentHasChild' /\ DieOnCpu'
<1>. USE DEF Meddling
<1>0. state \in [PID -> State]
  BY DEF IInv, TypeOK
<1>1. p = currentProcess /\ state[p] = "READY" /\ currentProcess' = currentProcess
  BY CallerRuns DEF SystemCall, AddProcess, AddProcessFails, Kill, Fault, Block, Nice, Yield,
     WaitForPID, Exit, Calling, KillProcess, cpu
<1>2. ASSUME NEW asked \in {0, 1}, AddProcess(p, asked) PROVE BlockedParentHasChild' /\ DieOnCpu'
  <2>1. \A q \in PID : state'[q] = "KILLED" => state[q] = "KILLED"
    BY <1>0, <1>2 DEF AddProcess
  <2>. QED  BY <1>1, <1>2, <2>1, AddProcessAwaits DEF WInv, DieOnCpu
<1>3. ASSUME NEW pid \in PID, WaitForPID(p, pid) PROVE BlockedParentHasChild' /\ DieOnCpu'
  <2>1. \A q \in PID : state'[q] = "KILLED" => state[q] = "KILLED"
    BY <1>0, <1>3 DEF WaitForPID, SetNewState
  <2>. QED  BY <1>1, <1>3, <2>1, WaitForPIDAwaits DEF WInv, DieOnCpu
<1>4. ASSUME NEW pid \in PID, Kill(p, pid) \/ Block(p, pid) PROVE FALSE
  BY <1>4 DEF Kill, Block, Calling
<1>5. CASE Fault(p) \/ Exit(p) \/ AddProcessFails(p) \/ Yield(p)
            \/ \E pid \in PID, prio \in -1 .. PRIO_CAP + 1 : Nice(p, pid, prio)
  <2>1. state' \in {state, [state EXCEPT ![p] = "KILLED"]} /\ UNCHANGED <<ppid, fg>>
    BY <1>5 DEF Fault, KillProcess, SetNewState, Exit, IInv, TypeOK, AddProcessFails, Yield, Nice,
       pcb
  <2>2. \A q \in PID : /\ state'[q] = "BLOCKED" => state[q] = "BLOCKED"
                       /\ state'[q] = "none" => state[q] = "none"
                       /\ state'[q] = "KILLED" => state[q] = "KILLED" \/ q = p
    BY <1>0, <2>1
  <2>. QED  BY <1>1, <2>1, <2>2, NobodyBlocks DEF WInv, DieOnCpu
<1>. QED  BY <1>2, <1>3, <1>4, <1>5 DEF SystemCall

\* A timer tick, ctrl-C, and the scheduler.
LEMMA OtherStepKeepsWInv ==
  ASSUME IInv, WInv, Calls \cap Meddling = {}, Interrupt \/ scheduler \/ Wild
  PROVE  BlockedParentHasChild' /\ DieOnCpu'
<1>0. state \in [PID -> State]
  BY DEF IInv, TypeOK
<1>1. CASE CtrlC
  <2>1. /\ state' \in {state, [state EXCEPT ![currentProcess] = "KILLED"]}
        /\ UNCHANGED <<ppid, fg, currentProcess>>
    BY <1>1 DEF CtrlC, KillProcess, SetNewState, pcb, cpu
  <2>2. \A q \in PID : /\ state'[q] = "BLOCKED" => state[q] = "BLOCKED"
                       /\ state'[q] = "none" => state[q] = "none"
                       /\ state'[q] = "KILLED" => state[q] = "KILLED" \/ q = currentProcess
    BY <1>0, <1>1, <2>1 DEF CtrlC, FgTarget, IInv, TypeOK
  <2>. QED  BY <2>1, <2>2, NobodyBlocks DEF WInv, DieOnCpu
<1>2. ASSUME NEW pid \in PID, Unblock(pid) PROVE FALSE
  BY <1>2 DEF Unblock, Meddling
<1>3. ASSUME UNCHANGED <<state, ppid, fg>>,
             currentProcess' = currentProcess \/ \A p \in PID : state[p] # "KILLED"
      PROVE  BlockedParentHasChild' /\ DieOnCpu'
  BY <1>3, NobodyBlocks DEF WInv, DieOnCpu
<1>4. CASE TimerTick \/ KeepRunning \/ RotateHead \/ Wild
  BY <1>3, <1>4 DEF TimerTick, KeepRunning, RotateHead, Wild, vars, pcb, cpu
<1>5. CASE LeaveIdle \/ Requeue \/ RunHead \/ RunIdle
  <2>1. UNCHANGED <<state, ppid, fg>>
    BY <1>5 DEF LeaveIdle, Requeue, RunHead, RunIdle, PutAway, pcb
  <2>2. currentProcess \in PID => state[currentProcess] # "KILLED"
    BY <1>5, Pids DEF LeaveIdle, Requeue, RunHead, RunIdle, NotQueued, IInv, IdleIsReady,
       SearchHoldsNobody, Searching
  <2>. QED  BY <1>3, <2>1, <2>2 DEF WInv, DieOnCpu
<1>6. CASE FreeCurrent
  <2>1. DieOnCpu'
    BY <1>6, FreeCurrentWakes DEF WInv, DieOnCpu
  <2>. QED  BY <1>6, <2>1, FreeCurrentAwaits DEF WInv
<1>7. CASE ReapHead
  <2>1. state[Head(queue)] = "KILLED" /\ Head(queue) \in PID /\ currentProcess = NoProc
    BY <1>7, SearchFindsHead DEF ReapHead, Searching
  <2>. QED  BY <2>1, Pids DEF WInv, DieOnCpu
<1>. QED  BY <1>1, <1>2, <1>4, <1>5, <1>6, <1>7 DEF Interrupt, scheduler, schedulerLoop

\* At the start nobody is blocked.
LEMMA InitWInv == Init => WInv
<1>. SUFFICES ASSUME Init PROVE WInv
  OBVIOUS
<1>1. \A p \in PID : state[p] \in {"READY", "none"} /\ ppid[p] = 0 /\ newPIDVal = 2
  BY DEF Init
<1>2. \A p \in PID, c \in PID : Awaits(p, c) => p = IdlePid
  BY <1>1 DEF Awaits, IdlePid
<1>. QED  BY <1>1, <1>2 DEF WInv, AwaitInv, BlockedParentHasChild, OneAwaited, AwaitingStops,
          DieOnCpu, ParentsFirst

\* Every step keeps the invariant.
LEMMA StepWInv ==
  ASSUME Calls \cap Meddling = {}
  PROVE  IInv /\ WInv /\ [Next]_vars => WInv'
<1>1. IInv /\ WInv /\ Next => WInv'
  BY CallKeepsWInv, OtherStepKeepsWInv, StepAwaits DEF Next, WInv, Meddling
<1>2. WInv /\ UNCHANGED vars => WInv'
  BY DEF vars, pcb, cpu, WInv, AwaitInv, BlockedParentHasChild, OneAwaited, AwaitingStops, DieOnCpu,
     ParentsFirst, Awaits
<1>. QED  BY <1>1, <1>2

\* A blocked process goes on when the one child that it awaits is freed.
LEMMA StepWakes ==
  ASSUME Calls \cap Meddling = {}, IInv, WInv, [Next]_vars,
         NEW p \in PID, state[p] = "BLOCKED", state'[p] = "READY"
  PROVE  \E c \in PID : /\ {d \in PID : Awaits(p, d)} = {c}
                        /\ state[c] = "KILLED" /\ state'[c] = "none"
<1>. USE DEF Meddling
<1>0. state \in [PID -> State]
  BY DEF IInv, TypeOK
<1>1. CASE FreeCurrent
  <2>. DEFINE c == currentProcess
  <2>1. c \in PID /\ state[c] = "KILLED" /\ state'[c] = "none" /\ Awaits(p, c)
    BY <1>1, FreeCurrentWakes DEF WInv
  <2>2. p # IdlePid
    BY DEF IInv, IdleIsReady
  <2>3. \A d \in PID : Awaits(p, d) => d = c
    BY <2>1, <2>2 DEF WInv, AwaitInv, OneAwaited
  <2>. QED  BY <2>1, <2>3
<1>2. ASSUME ~ FreeCurrent PROVE FALSE
  <2>1. ASSUME UNCHANGED state PROVE FALSE
    BY <2>1
  <2>2. ASSUME NEW q \in PID, state[q] = "READY", NEW asked \in {0, 1}, AddProcess(q, asked) PROVE FALSE
    <3>1. newPIDVal \in PID /\ state[newPIDVal] = "none"
      BY <2>2 DEF AddProcess, IInv, Fresh, TypeOK
    <3>. QED  BY <1>0, <2>2, <3>1 DEF AddProcess
  <2>3. ASSUME NEW q \in PID, KillProcess(q) PROVE FALSE
    BY <1>0, <2>3 DEF KillProcess, SetNewState
  <2>4. ASSUME NEW q \in PID, NEW pid \in PID, WaitForPID(q, pid) PROVE FALSE
    BY <1>0, <2>4 DEF WaitForPID, SetNewState
  <2>5. ASSUME NEW q \in PID, Exit(q) PROVE FALSE
    BY <1>0, <2>5 DEF Exit
  <2>6. ASSUME NEW q \in PID, SystemCall(q) PROVE FALSE
    <3>1. ASSUME NEW asked \in {0, 1}, AddProcess(q, asked) PROVE FALSE
      <4>1. state[q] = "READY"
        BY <3>1, CallerRuns DEF AddProcess
      <4>. QED  BY <3>1, <4>1, <2>2
    <3>2. ASSUME NEW pid \in PID, Kill(q, pid) \/ Block(q, pid) PROVE FALSE
      BY <3>2 DEF Kill, Block, Calling
    <3>3. Fault(q) => FALSE
      BY <2>3 DEF Fault
    <3>4. AddProcessFails(q) \/ Yield(q)
            \/ (\E pid \in PID, prio \in -1 .. PRIO_CAP + 1 : Nice(q, pid, prio)) => FALSE
      BY <2>1 DEF AddProcessFails, Yield, Nice
    <3>. QED  BY <2>6, <2>4, <2>5, <3>1, <3>2, <3>3, <3>4 DEF SystemCall
  <2>7. Interrupt => FALSE
    <3>1. CtrlC => FALSE
      <4>1. CtrlC => currentProcess \in PID
        BY DEF CtrlC, FgTarget, IInv, TypeOK
      <4>. QED  BY <4>1, <2>3 DEF CtrlC
    <3>2. ASSUME NEW pid \in PID, Unblock(pid) PROVE FALSE
      BY <3>2 DEF Unblock
    <3>. QED  BY <3>1, <3>2, <2>1 DEF Interrupt, TimerTick
  <2>8. ReapHead => FALSE
    BY <1>0 DEF ReapHead
  <2>. QED  BY <1>2, <2>1, <2>6, <2>7, <2>8 DEF Next, scheduler, schedulerLoop, KeepRunning,
            LeaveIdle, Requeue, RunHead, RotateHead, RunIdle, PutAway, Wild, vars
<1>. QED  BY <1>1, <1>2

\* A process blocked by a foreground createProcess or by wait has the child it waits
\* for, whatever else is created, dies, faults or is killed by ctrl-C meanwhile.
THEOREM BlockedWaitsForItsChild ==
  ASSUME Calls \cap Meddling = {}
  PROVE  Spec => []BlockedParentHasChild
<1>1. IInv /\ WInv /\ [Next]_vars => IInv' /\ WInv'
  BY StepIInv, StepWInv
<1>2. Init => IInv /\ WInv
  BY InitIInv, InitWInv
<1>3. WInv => BlockedParentHasChild
  BY DEF WInv
<1>. QED  BY <1>1, <1>2, <1>3, PTL DEF Spec

\* It goes on in the step that frees that child, which was the only one it awaited.
THEOREM WokenByItsChild ==
  ASSUME Calls \cap Meddling = {}
  PROVE  Spec => WokenByAwaitedChild
<1>1. IInv /\ WInv /\ [Next]_vars => IInv' /\ WInv'
  BY StepIInv, StepWInv
<1>2. Init => IInv /\ WInv
  BY InitIInv, InitWInv
<1>3. IInv /\ WInv /\ [Next]_vars
        => [\A p \in PID : state[p] = "BLOCKED" /\ state'[p] = "READY"
              => \E c \in PID : /\ {d \in PID : Awaits(p, d)} = {c}
                                /\ state[c] = "KILLED" /\ state'[c] = "none"]_vars
  BY StepWakes
<1>. QED  BY <1>1, <1>2, <1>3, PTL DEF Spec, WokenByAwaitedChild

-----------------------------------------------------------------------------
(***************************************************************************)
(* The linked list.  What the pointers say, about any list L and any       *)
(* sequence q:                                                             *)
(***************************************************************************)
Node == PID \cup {NULL, Junk}
ListType == [first : Node, last : Node, size : Nat, next : [PID -> Node]]

Holds(L, q) ==
  /\ L \in ListType
  /\ L.size = Len(q)
  /\ Len(q) > 0 => L.first = q[1] /\ L.last = q[Len(q)]
  /\ \A i \in 1 .. Len(q) - 1 : L.next[q[i]] = q[i + 1]

Ends(L, q) == Len(q) > 0 /\ L.next[q[Len(q)]] = NULL

(***************************************************************************)
(* The inductive invariant.  The Overseer and the shell cannot die, so     *)
(* that from the shell's creation on one of them is always in the list: it *)
(* is never empty again, and never again is a node queued on an empty one. *)
(***************************************************************************)
Protected ==
  /\ state[Overseer] \in {"READY", "BLOCKED"}
  /\ newPIDVal > Shell => state[Shell] \in {"READY", "BLOCKED"}
AtBoot == newPIDVal = Shell + 1 /\ currentProcess = Overseer

LInv ==
  /\ Holds(list, queue)
  /\ Protected
  /\ newPIDVal > Shell /\ ~AtBoot => Ends(list, queue)

-----------------------------------------------------------------------------
(***************************************************************************)
(* The operations on the pointers.                                         *)
(***************************************************************************)
\* Queueing links the node behind the last one, with a NULL if there was one.
LEMMA ProcessQueueHolds ==
  ASSUME NEW q \in Seq(PID), NEW p \in PID, NEW L, Holds(L, q),
         Distinct(q), p \notin Range(q)
  PROVE  /\ Holds(processQueue(L, p), Append(q, p))
         /\ Len(q) > 0 => Ends(processQueue(L, p), Append(q, p))
         /\ Len(q) = 0 => processQueue(L, p).next = L.next
<1>. DEFINE n == Len(q)  M == processQueue(L, p)  r == Append(q, p)
<1>1. /\ n \in Nat /\ Len(r) = n + 1 /\ r[n + 1] = p
      /\ \A i \in 1 .. n : r[i] = q[i] /\ q[i] \in PID /\ q[i] # p
  BY DEF Range
<1>2. CASE n = 0
  <2>1. M = [first |-> p, last |-> p, size |-> 1, next |-> L.next]
    BY <1>2 DEF processQueue, queueIsEmpty, Holds, Alone
  <2>2. M.first = p /\ M.last = p /\ M.size = 1 /\ M.next = L.next /\ M \in ListType
    BY <2>1 DEF Holds, ListType, Node
  <2>. QED  BY <1>1, <1>2, <2>2 DEF Holds
<1>3. CASE n > 0
  <2>1. L.last = q[n] /\ L.size = n /\ L \in ListType
    BY <1>3 DEF Holds
  <2>2. M = [first |-> L.first, last |-> p, size |-> n + 1,
             next |-> [L.next EXCEPT ![q[n]] = p, ![p] = NULL]]
    BY <1>1, <1>3, <2>1 DEF processQueue, queueIsEmpty, Behind
  <2>3. /\ M.first = L.first /\ M.last = p /\ M.size = n + 1
        /\ M.next = [L.next EXCEPT ![q[n]] = p, ![p] = NULL]
        /\ M \in ListType
    BY <2>1, <2>2, <1>1 DEF ListType, Node
  <2>4. q[n] \in PID /\ q[n] # p /\ L.next \in [PID -> Node]
    BY <1>1, <1>3, <2>1 DEF ListType
  <2>5. M.next[p] = NULL /\ M.next[q[n]] = p
        /\ \A x \in PID \ {p, q[n]} : M.next[x] = L.next[x]
    BY <2>3, <2>4
  <2>6. ASSUME NEW i \in 1 .. n - 1 PROVE M.next[q[i]] = q[i + 1]
    <3>1. i \in DOMAIN q /\ n \in DOMAIN q /\ i # n
      BY <1>1
    <3>2. q[i] # q[n] /\ q[i] # p /\ q[i] \in PID
      BY <1>1, <3>1 DEF Distinct
    <3>. QED  BY <3>2, <2>5 DEF Holds
  <2>7. \A i \in 1 .. n : M.next[r[i]] = r[i + 1]
    <3>. SUFFICES ASSUME NEW i \in 1 .. n PROVE M.next[r[i]] = r[i + 1]
      OBVIOUS
    <3>1. CASE i = n
      BY <3>1, <1>1, <2>5
    <3>2. CASE i # n
      <4>1. i \in 1 .. n - 1 /\ i + 1 \in 1 .. n
        BY <3>2, <1>1
      <4>. QED  BY <4>1, <2>6, <1>1
    <3>. QED  BY <3>1, <3>2
  <2>8. M.first = r[1]
    BY <1>1, <1>3, <2>3 DEF Holds
  <2>9. Holds(M, r)
    <3>1. M.size = Len(r) /\ M.last = r[n + 1] /\ Len(r) - 1 = n
      BY <1>1, <2>3
    <3>. QED  BY <1>1, <3>1, <2>3, <2>7, <2>8 DEF Holds
  <2>10. M.next[r[Len(r)]] = NULL /\ Len(r) > 0
    BY <1>1, <2>5
  <2>. QED  BY <1>1, <1>3, <2>9, <2>10 DEF Ends
<1>. QED  BY <1>1, <1>2, <1>3

\* Dequeueing moves first to the second node, and touches no link.
LEMMA ProcessDequeueHolds ==
  ASSUME NEW q \in Seq(PID), q # <<>>, NEW L, Holds(L, q)
  PROVE  /\ Holds(processDequeue(L), Tail(q))
         /\ processDequeue(L).next = L.next
         /\ L.first = Head(q)
         /\ Len(Tail(q)) > 0 /\ Ends(L, q) => Ends(processDequeue(L), Tail(q))
<1>. DEFINE n == Len(q)  M == processDequeue(L)
<1>1. /\ n \in Nat /\ n > 0 /\ Len(Tail(q)) = n - 1 /\ Head(q) = q[1]
      /\ \A i \in 1 .. n - 1 : Tail(q)[i] = q[i + 1]
      /\ \A i \in 1 .. n : q[i] \in PID
  OBVIOUS
<1>2. L.first = q[1] /\ L.last = q[n] /\ L.size = n /\ L \in ListType
      /\ \A i \in 1 .. n - 1 : L.next[q[i]] = q[i + 1]
  BY <1>1 DEF Holds
<1>3. M = [first |-> L.next[q[1]], last |-> L.last, size |-> n - 1, next |-> L.next]
  BY <1>1, <1>2 DEF processDequeue, queueIsEmpty, ListType
<1>4. M.first = L.next[q[1]] /\ M.last = L.last /\ M.size = n - 1 /\ M.next = L.next
      /\ M \in ListType
  <2>1. L.next[q[1]] \in Node
    BY <1>1, <1>2 DEF ListType
  <2>. QED  BY <1>1, <1>2, <1>3, <2>1 DEF ListType
<1>5. n - 1 > 0 => M.first = Tail(q)[1] /\ M.last = Tail(q)[n - 1]
  BY <1>1, <1>2, <1>4
<1>6. \A i \in 1 .. (n - 1) - 1 : M.next[Tail(q)[i]] = Tail(q)[i + 1]
  <2>. SUFFICES ASSUME NEW i \in 1 .. (n - 1) - 1 PROVE M.next[Tail(q)[i]] = Tail(q)[i + 1]
    OBVIOUS
  <2>1. i \in 1 .. n - 1 /\ i + 1 \in 1 .. n - 1
    BY <1>1
  <2>. QED  BY <2>1, <1>1, <1>2, <1>4
<1>7. n - 1 > 0 => Tail(q)[n - 1] = q[n]
  BY <1>1
<1>8. n - 1 > 0 /\ Ends(L, q) => Ends(M, Tail(q))
  BY <1>1, <1>4, <1>7 DEF Ends
<1>. QED  BY <1>1, <1>2, <1>4, <1>5, <1>6, <1>8 DEF Holds

\* A node that is freed is not in the list.
LEMMA FreedHolds ==
  ASSUME NEW q \in Seq(PID), NEW L, Holds(L, q),
         \A i \in 1 .. Len(q) : state'[q[i]] # "none"
  PROVE  /\ Holds(freed(L), q)
         /\ Ends(L, q) => Ends(freed(L), q)
<1>. DEFINE M == freed(L)
<1>1. Len(q) \in Nat /\ \A i \in 1 .. Len(q) : q[i] \in PID
  OBVIOUS
<1>2. M.first = L.first /\ M.last = L.last /\ M.size = L.size /\ M \in ListType
      /\ \A p \in PID : state'[p] # "none" => M.next[p] = L.next[p]
  BY DEF freed, Holds, ListType, Node
<1>. QED  BY <1>1, <1>2 DEF Holds, Ends

-----------------------------------------------------------------------------
(***************************************************************************)
(* The Overseer and the shell live.                                        *)
(***************************************************************************)
\* Who the first process can be that creates another one.
LEMMA FirstCaller ==
  ASSUME IInv, NEW p \in PID, NEW call, Calling(p, call), newPIDVal = Shell
  PROVE  p = Overseer
<1>1. state[p] = "READY" /\ p # IdlePid
  BY CallerRuns
<1>2. \A q \in PID : q >= Shell => state[q] = "none"
  BY DEF IInv, Fresh
<1>. QED  BY <1>1, <1>2 DEF PID, IdlePid, Overseer, Shell

\* No step kills the Overseer or the shell.
LEMMA ProtectedStep == IInv /\ Protected /\ Next => Protected'
<1>. SUFFICES ASSUME IInv, Protected, Next PROVE Protected'
  OBVIOUS
<1>. USE Pids DEF cpu, pcb
<1>. DEFINE Lives == \A p \in {Overseer, Shell} :
                state[p] \in {"READY", "BLOCKED"} => state'[p] \in {"READY", "BLOCKED"}
<1>0. state \in [PID -> State] /\ newPIDVal \in 2 .. MaxPid + 1
  BY DEF IInv, TypeOK
<1>1. ASSUME Lives, newPIDVal' = newPIDVal PROVE Protected'
  BY <1>1 DEF Protected
<1>2. ASSUME NEW pid \in PID, NEW s \in {"READY", "BLOCKED"}, SetNewState(pid, s) PROVE Lives
  BY <1>2, <1>0 DEF SetNewState, Settable
<1>3. ASSUME NEW pid \in PID, KillProcess(pid) PROVE Protected'
  <2>1. CASE Killable(pid)
    <3>1. pid # Overseer /\ pid # Shell
      BY <2>1 DEF Killable, Overseer, Shell
    <3>2. Lives
      BY <2>1, <3>1, <1>3, <1>0 DEF KillProcess, SetNewState
    <3>. QED  BY <3>2, <1>1, <1>3 DEF KillProcess
  <2>2. CASE ~ Killable(pid)
    BY <2>2, <1>1, <1>3 DEF KillProcess
  <2>. QED  BY <2>1, <2>2
<1>4. ASSUME NEW p \in PID, NEW asked \in {0, 1}, AddProcess(p, asked) PROVE Protected'
  <2>1. newPIDVal = Shell \/ newPIDVal > Shell
    BY <1>0 DEF Shell
  <2>2. newPIDVal # Overseer /\ newPIDVal' = newPIDVal + 1 /\ newPIDVal \in PID
    BY <1>4, <1>0 DEF AddProcess, Overseer
  <2>3. \A r \in PID : state'[r] = IF r = p /\ Waits(p, asked) THEN "BLOCKED"
                                   ELSE IF r = newPIDVal THEN "READY" ELSE state[r]
    BY <1>4, <1>0, <2>2 DEF AddProcess
  <2>. QED  BY <2>1, <2>2, <2>3, <1>0 DEF Protected, Shell, Overseer
<1>5. ASSUME NEW p \in PID, AddProcessFails(p) PROVE Protected'
  <2>1. newPIDVal # Shell
    <3>1. newPIDVal = Shell => p = Overseer
      BY <1>5, FirstCaller DEF AddProcessFails
    <3>. QED  BY <3>1, <1>5 DEF AddProcessFails, Calling
  <2>. QED  BY <2>1, <1>5, <1>0 DEF AddProcessFails, Protected, Shell
<1>6. ASSUME NEW p \in PID, NEW pid \in PID, Block(p, pid) \/ WaitForPID(p, pid) PROVE Protected'
  BY <1>6, <1>1, <1>2 DEF Block, WaitForPID
<1>7. ASSUME NEW pid \in PID, Unblock(pid) PROVE Protected'
  BY <1>7, <1>1, <1>2 DEF Unblock
<1>8. ASSUME NEW p \in PID, Exit(p) PROVE Protected'
  <2>1. p # Shell
    BY <1>8 DEF Exit, Calling, Shell, Overseer
  <2>2. Lives
    BY <1>8, <2>1, <1>0 DEF Exit, Killable, Overseer, Shell
  <2>. QED  BY <2>2, <1>1, <1>8 DEF Exit
<1>9. ASSUME UNCHANGED <<state, newPIDVal>> PROVE Protected'
  BY <1>9, <1>1
<1>10. CASE FreeCurrent
  <2>1. state[currentProcess] = "KILLED" /\ newPIDVal' = newPIDVal
    BY <1>10 DEF FreeCurrent, PutAway
  <2>2. currentProcess \in PID
    BY <1>10, Pids DEF FreeCurrent, NotQueued, IInv, TypeOK
  <2>3. \A r \in PID : state'[r] \in {state[r], "READY"} \/ r = currentProcess
    BY <1>10, <1>0, <2>2 DEF FreeCurrent
  <2>. QED  BY <2>1, <2>3, <1>1
<1>11. CASE ReapHead
  BY <1>11, <1>1, <1>0 DEF ReapHead, Searching
<1>12. ASSUME NEW p \in PID, SystemCall(p) PROVE Protected'
  <2>1. Kill(p, p) \/ Fault(p) \/ (\E pid \in PID : Kill(p, pid)) => Protected'
    BY <1>3 DEF Kill, Fault
  <2>. QED  BY <1>12, <1>4, <1>5, <1>6, <1>8, <1>9, <2>1 DEF SystemCall, Nice, Yield
<1>13. CASE Interrupt
  <2>1. CtrlC => currentProcess \in PID
    BY DEF CtrlC, FgTarget, IInv, TypeOK
  <2>. QED  BY <1>13, <2>1, <1>3, <1>7, <1>9 DEF Interrupt, CtrlC, TimerTick
<1>14. CASE scheduler
  BY <1>14, <1>9, <1>10, <1>11 DEF scheduler, schedulerLoop, KeepRunning, LeaveIdle, Requeue,
     PutAway, RunHead, RotateHead, RunIdle
<1>15. CASE Wild
  BY <1>15, <1>9 DEF Wild, vars
<1>. QED  BY <1>12, <1>13, <1>14, <1>15 DEF Next

\* Two processes live and one at most has the CPU: the list is not empty.
LEMMA ListNotEmpty ==
  ASSUME IInv, Protected, newPIDVal > Shell
  PROVE  Len(queue) \in Nat /\ Len(queue) > 0
<1>1. Exists(Overseer) /\ Exists(Shell)
  BY Pids DEF IInv, InOnePlace, Protected, Overseer, Shell, IdlePid
<1>2. Queued # {}
  BY <1>1 DEF Exists, Overseer, Shell
<1>3. queue \in Seq(PID)
  BY DEF IInv, TypeOK
<1>. QED  BY <1>2, <1>3 DEF Queued, Range

\* The same, after a step.
LEMMA ListNotEmptyNext ==
  ASSUME IInv', Protected', newPIDVal' > Shell
  PROVE  Len(queue') \in Nat /\ Len(queue') > 0
<1>1. Exists(Overseer)' /\ Exists(Shell)'
  BY Pids DEF IInv, InOnePlace, Protected, Overseer, Shell, IdlePid
<1>2. Queued' # {}
  BY <1>1 DEF Exists, Overseer, Shell
<1>3. queue' \in Seq(PID)
  BY DEF IInv, TypeOK
<1>. QED  BY <1>2, <1>3 DEF Queued, Range

\* A queued process has not been freed.
LEMMA QueuedLive ==
  ASSUME IInv'
  PROVE  queue' \in Seq(PID) /\ \A i \in 1 .. Len(queue') : state'[queue'[i]] # "none"
<1>1. queue' \in Seq(PID)
  BY DEF IInv, TypeOK
<1>2. ASSUME NEW i \in 1 .. Len(queue') PROVE state'[queue'[i]] # "none"
  <2>1. PICK p \in PID : p = queue'[i] /\ p \in Queued'
    BY <1>1, <1>2 DEF Queued, Range
  <2>2. p # IdlePid /\ Exists(p)'
    BY <2>1 DEF IInv, InOnePlace, Exists
  <2>. QED  BY <2>1, <2>2 DEF IInv, InOnePlace
<1>. QED  BY <1>1, <1>2

\* A step that leaves the queue alone neither creates the shell nor takes the CPU
\* from the Overseer.
LEMMA BootStep ==
  ASSUME IInv, Protected, Next, UNCHANGED queue
  PROVE  /\ newPIDVal' # newPIDVal => newPIDVal > Shell /\ currentProcess # Overseer
         /\ currentProcess = Overseer => currentProcess' = Overseer
<1>. USE Pids DEF cpu, pcb
<1>. DEFINE Goal == /\ newPIDVal' # newPIDVal => newPIDVal > Shell /\ currentProcess # Overseer
                    /\ currentProcess = Overseer => currentProcess' = Overseer
<1>0. newPIDVal \in 2 .. MaxPid + 1 /\ queue \in Seq(PID) /\ currentProcess \in PID \cup {NoProc}
  BY DEF IInv, TypeOK
<1>1. UNCHANGED <<newPIDVal, currentProcess>> => Goal
  OBVIOUS
<1>2. ASSUME NEW x \in PID PROVE queue' # Append(queue, x)
  BY <1>0
<1>3. ASSUME NEW p \in PID, NEW asked \in {0, 1}, AddProcess(p, asked) PROVE Goal
  BY <1>3, <1>2 DEF AddProcess, ProcessQueue
<1>4. ASSUME NEW p \in PID, AddProcessFails(p) PROVE Goal
  <2>1. p = currentProcess /\ p # Overseer
    BY <1>4 DEF AddProcessFails, Calling
  <2>2. newPIDVal # Shell
    BY <1>4, <2>1, FirstCaller DEF AddProcessFails
  <2>. QED  BY <2>1, <2>2, <1>0, <1>4 DEF AddProcessFails, Shell
<1>5. ASSUME NEW pid \in PID, KillProcess(pid) PROVE Goal
  BY <1>5, <1>1 DEF KillProcess
<1>6. ASSUME NEW p \in PID, NEW pid \in PID, NEW prio \in -1 .. PRIO_CAP + 1,
             Block(p, pid) \/ WaitForPID(p, pid) \/ Nice(p, pid, prio) \/ Yield(p) \/ Exit(p)
      PROVE Goal
  BY <1>6, <1>1 DEF Block, WaitForPID, Nice, Yield, Exit
<1>7. ASSUME NEW p \in PID, SystemCall(p) PROVE Goal
  <2>1. Fault(p) \/ (\E pid \in PID : Kill(p, pid)) => Goal
    BY <1>5 DEF Kill, Fault
  <2>2. 0 \in PID /\ 0 \in -1 .. PRIO_CAP + 1
    BY Pids, PriorityAssumption DEF IdlePid
  <2>. QED  BY <1>7, <1>3, <1>4, <1>6, <2>1, <2>2 DEF SystemCall
<1>8. CASE Interrupt
  <2>1. CtrlC => Goal
    BY <1>1 DEF CtrlC, KillProcess
  <2>. QED  BY <1>8, <1>1, <2>1 DEF Interrupt, TimerTick, Unblock
<1>9. CASE KeepRunning \/ Wild
  BY <1>9, <1>1 DEF KeepRunning, Wild, vars
<1>10. CASE LeaveIdle
  BY <1>10 DEF LeaveIdle, PutAway, NotQueued, Overseer, IdlePid, NoProc
<1>11. CASE Requeue
  BY <1>11, <1>0, <1>2 DEF Requeue, NotQueued, ProcessQueue
<1>12. CASE FreeCurrent
  BY <1>12 DEF FreeCurrent, PutAway, Protected
<1>13. CASE schedulerLoop
  <2>1. mode = "dispatch" /\ newPIDVal' = newPIDVal
    BY <1>13 DEF schedulerLoop, RunHead, RotateHead, ReapHead, RunIdle, Searching
  <2>. QED  BY <2>1 DEF IInv, SearchHoldsNobody, Overseer, NoProc
<1>. QED  BY <1>7, <1>8, <1>9, <1>10, <1>11, <1>12, <1>13 DEF Next, scheduler

-----------------------------------------------------------------------------
(***************************************************************************)
(* The invariant.                                                          *)
(***************************************************************************)
\* initScheduler and main leave a list with the Overseer alone.
LEMMA InitLInv == ListInit => LInv
<1>. SUFFICES ASSUME ListInit PROVE LInv
  OBVIOUS
<1>. USE Pids
<1>1. newPIDVal = 2 /\ state[Overseer] = "READY" /\ queue = <<Overseer>>
  BY DEF ListInit, Init
<1>2. EmptyList \in ListType /\ EmptyList.size = 0
  BY DEF EmptyList, ListType, Node
<1>3. LET L == processQueue(EmptyList, IdlePid) IN L \in ListType /\ L.size = 1 /\ L.first = IdlePid
  BY <1>2 DEF processQueue, queueIsEmpty, Alone, ListType, Node
<1>4. LET L == processDequeue(processQueue(EmptyList, IdlePid)) IN L \in ListType /\ L.size = 0
  BY <1>3 DEF processDequeue, queueIsEmpty, ListType, Node
<1>5. list \in ListType /\ list.size = 1 /\ list.first = Overseer /\ list.last = Overseer
  BY <1>4 DEF ListInit, processQueue, queueIsEmpty, Alone, ListType, Node
<1>6. Holds(list, queue)
  BY <1>1, <1>5 DEF Holds
<1>. QED  BY <1>1, <1>6 DEF LInv, Protected, Shell

\* Every step of the list keeps it the queue.
LEMMA StepLInv == IInv /\ LInv /\ [ListNext]_listVars => LInv'
<1>. SUFFICES ASSUME IInv, LInv, [ListNext]_listVars PROVE LInv'
  OBVIOUS
<1>. USE Pids
<1>0. CASE UNCHANGED listVars
  BY <1>0 DEF listVars, vars, cpu, pcb, LInv, Holds, Ends, Protected, AtBoot
<1>1. CASE ListNext
  <2>1. Next
    BY <1>1 DEF ListNext, Adds, Next, SystemCall, scheduler, schedulerLoop
  <2>2. IInv' /\ Protected'
    BY <2>1, StepIInv, ProtectedStep DEF LInv
  <2>3. /\ queue \in Seq(PID) /\ Distinct(queue) /\ Holds(list, queue) /\ Protected
        /\ newPIDVal \in 2 .. MaxPid + 1 /\ currentProcess \in PID \cup {NoProc}
    BY DEF IInv, TypeOK, InOnePlace, Distinct, LInv
  <2>4. newPIDVal > Shell => Len(queue) > 0
    BY <2>3, ListNotEmpty
  <2>5. CASE Adds /\ list' = processQueue(list, newPIDVal)
    <3>1. PICK p \in PID, asked \in {0, 1} : AddProcess(p, asked)
      BY <2>5 DEF Adds
    <3>2. /\ newPIDVal \in PID /\ queue' = Append(queue, newPIDVal)
          /\ newPIDVal' = newPIDVal + 1 /\ currentProcess' = currentProcess /\ p = currentProcess
      BY <3>1 DEF AddProcess, ProcessQueue, Calling, cpu
    <3>3. newPIDVal \notin Range(queue)
      <4>1. state[newPIDVal] = "none" /\ newPIDVal # IdlePid
        BY <2>3, <3>2 DEF IInv, Fresh, IdlePid
      <4>. QED  BY <4>1, <3>2 DEF IInv, InOnePlace, Exists, Queued
    <3>4. Holds(list', queue') /\ (Len(queue) > 0 => Ends(list', queue'))
      BY <2>5, <2>3, <3>2, <3>3, ProcessQueueHolds
    <3>5. newPIDVal' > Shell /\ ~ AtBoot' => Len(queue) > 0
      <4>1. CASE newPIDVal = Shell
        <5>1. p = Overseer
          BY <4>1, <3>1, FirstCaller DEF AddProcess
        <5>. QED  BY <5>1, <4>1, <3>2 DEF AtBoot
      <4>. QED  BY <4>1, <2>3, <2>4 DEF Shell
    <3>. QED  BY <3>4, <3>5, <2>2 DEF LInv
  <2>6. CASE Requeue /\ list' = processQueue(list, currentProcess)
    <3>1. /\ currentProcess \in PID /\ queue' = Append(queue, currentProcess)
          /\ newPIDVal' = newPIDVal
      BY <2>6, <2>3 DEF Requeue, NotQueued, ProcessQueue, PutAway
    <3>2. currentProcess \notin Range(queue)
      BY DEF IInv, InOnePlace, Queued
    <3>3. Holds(list', queue') /\ (Len(queue) > 0 => Ends(list', queue'))
      BY <2>6, <2>3, <3>1, <3>2, ProcessQueueHolds
    <3>. QED  BY <3>1, <3>3, <2>2, <2>4 DEF LInv
  <2>7. ASSUME mode = "dispatch", SomeReady, newPIDVal' = newPIDVal
        PROVE  /\ queue # <<>> /\ ~ AtBoot
               /\ Head(queue) \in PID /\ Tail(queue) \in Seq(PID)
               /\ Head(queue) \notin Range(Tail(queue)) /\ Distinct(Tail(queue))
               /\ newPIDVal' > Shell => Ends(list, queue)
    <3>1. queue # <<>> /\ currentProcess = NoProc
      BY <2>7, SearchFindsHead
    <3>2. ~ AtBoot
      BY <3>1 DEF AtBoot, NoProc, Overseer
    <3>. QED  BY <3>1, <3>2, <2>3, <2>7, RangeTail DEF LInv
  <2>8. CASE RunHead /\ list' = processDequeue(list)
    <3>1. queue' = Tail(queue) /\ mode = "dispatch" /\ SomeReady /\ newPIDVal' = newPIDVal
      BY <2>8 DEF RunHead, Searching
    <3>2. Holds(list', queue') /\ (Len(queue') > 0 /\ Ends(list, queue) => Ends(list', queue'))
      BY <2>3, <2>7, <2>8, <3>1, ProcessDequeueHolds
    <3>3. newPIDVal' > Shell => Len(queue') > 0
      BY <2>2, ListNotEmptyNext
    <3>. QED  BY <3>1, <3>2, <3>3, <2>2, <2>7 DEF LInv
  <2>9. CASE RotateHead /\ list' = processQueue(processDequeue(list), list.first)
    <3>. DEFINE L == processDequeue(list)  h == Head(queue)  q == Tail(queue)
    <3>1. queue' = Append(q, h) /\ mode = "dispatch" /\ SomeReady /\ newPIDVal' = newPIDVal
      BY <2>9 DEF RotateHead, Searching
    <3>2. /\ Holds(L, q) /\ L.next = list.next /\ list.first = h
      BY <2>3, <2>7, <3>1, ProcessDequeueHolds
    <3>3. /\ Holds(list', queue')
          /\ Len(q) > 0 => Ends(list', queue')
          /\ Len(q) = 0 => list'.next = L.next
      <4>. HIDE DEF L, q, h
      <4>1. list' = processQueue(L, h)
        BY <2>9, <3>2 DEF L
      <4>2. q \in Seq(PID) /\ h \in PID /\ Distinct(q) /\ h \notin Range(q)
        BY <2>7, <3>1 DEF q, h
      <4>. QED  BY <4>1, <4>2, <3>1, <3>2, ProcessQueueHolds
    <3>4. Len(q) = 0 /\ Ends(list, queue) => Ends(list', queue')
      <4>1. ASSUME Len(q) = 0, Ends(list, queue) PROVE Ends(list', queue')
        <5>1. queue # <<>> /\ Len(queue) = 1 /\ queue[1] = h
          BY <4>1, <2>3, <2>7, <3>1
        <5>2. Len(queue') = 1 /\ queue'[1] = h
          <6>1. q \in Seq(PID) /\ h \in PID
            BY <2>7, <3>1
          <6>. HIDE DEF q, h
          <6>. QED  BY <4>1, <6>1, <3>1
        <5>. QED  BY <4>1, <5>1, <5>2, <3>2, <3>3 DEF Ends
      <4>. QED  BY <4>1
    <3>5. Len(q) \in Nat
      BY <2>7, <3>1
    <3>6. newPIDVal' > Shell => Ends(list, queue)
      BY <3>1, <2>7
    <3>7. newPIDVal' > Shell => Ends(list', queue')
      <4>. HIDE DEF q
      <4>. QED  BY <3>3, <3>4, <3>5, <3>6
    <3>. QED  BY <3>3, <3>7, <2>2 DEF LInv
  <2>10. CASE ReapHead /\ list' = freed(processDequeue(list))
    <3>. DEFINE L == processDequeue(list)
    <3>1. queue' = Tail(queue) /\ mode = "dispatch" /\ SomeReady /\ newPIDVal' = newPIDVal
      BY <2>10 DEF ReapHead, Searching
    <3>2. Holds(L, queue') /\ (Len(queue') > 0 /\ Ends(list, queue) => Ends(L, queue'))
      BY <2>3, <2>7, <3>1, ProcessDequeueHolds
    <3>3. Holds(list', queue') /\ (Ends(L, queue') => Ends(list', queue'))
      <4>. HIDE DEF L
      <4>1. list' = freed(L)
        BY <2>10 DEF L
      <4>. QED  BY <4>1, <2>2, <3>2, QueuedLive, FreedHolds
    <3>4. newPIDVal' > Shell => Len(queue') > 0
      BY <2>2, ListNotEmptyNext
    <3>. QED  BY <3>1, <3>2, <3>3, <3>4, <2>2, <2>7 DEF LInv
  <2>11. CASE Next /\ UNCHANGED queue /\ list' = freed(list)
    <3>1. Holds(list', queue') /\ (Ends(list, queue) => Ends(list', queue'))
      <4>1. queue' = queue /\ \A i \in 1 .. Len(queue) : state'[queue[i]] # "none"
        BY <2>2, <2>11, QueuedLive
      <4>. QED  BY <4>1, <2>3, <2>11, FreedHolds
    <3>2. newPIDVal' > Shell /\ ~ AtBoot' => newPIDVal > Shell /\ ~ AtBoot
      BY <2>3, <2>11, BootStep DEF AtBoot
    <3>. QED  BY <3>1, <3>2, <2>2 DEF LInv
  <2>. QED  BY <1>1, <2>5, <2>6, <2>8, <2>9, <2>10, <2>11 DEF ListNext
<1>. QED  BY <1>0, <1>1

\* A step of the list is a step of the scheduler.
LEMMA ListNextIsNext == [ListNext]_listVars => [Next]_vars
BY DEF ListNext, Adds, Next, SystemCall, scheduler, schedulerLoop, listVars

\* The pointers of the linked list are the queue of Scheduler, and the walks over
\* them end, for every number of processes: no node is lost or linked twice by
\* processQueue and processDequeue, and no stale next is met at the end.
THEOREM PointersAreTheQueue == ListSpec => []ListIsTheQueue
<1>1. ListInit => IInv /\ LInv
  BY InitIInv, InitLInv DEF ListInit
<1>2. IInv /\ LInv /\ [ListNext]_listVars => IInv' /\ LInv'
  BY StepLInv, StepIInv, ListNextIsNext
<1>3. LInv => ListIsTheQueue
  BY DEF LInv, ListIsTheQueue, Holds, Ends, AtBoot
<1>. QED  BY <1>1, <1>2, <1>3, PTL DEF ListSpec

-----------------------------------------------------------------------------
(***************************************************************************)
(* The round-robin line of SchedulerRefinement: first what is kept of a    *)
(* sequence, by induction on the sequence.                                 *)
(***************************************************************************)
\* g[i] is what is kept of the first i elements of q.
KeptUpTo(g, q, S) ==
  \A i \in 0 .. Len(q) :
    g[i] = IF i = 0 THEN <<>> ELSE IF q[i] \in S THEN Append(g[i - 1], q[i]) ELSE g[i - 1]

\* Kept is computed from the front of the sequence to its end.
LEMMA KeptIs ==
  ASSUME NEW A, NEW q \in Seq(A), NEW S
  PROVE  \E g \in [0 .. Len(q) -> Seq(A)] : Kept(q, S) = g[Len(q)] /\ KeptUpTo(g, q, S)
<1>. DEFINE f == [i \in 1 .. Len(q) |->
                    [s \in Seq(A) |-> IF q[i] \in S THEN Append(s, q[i]) ELSE s]]
<1>0. Len(q) \in Nat /\ \A i \in 1 .. Len(q) : q[i] \in A
  OBVIOUS
<1>1. PICK g : Iterates(g, f, <<>>, Len(q))
  BY <1>0, IterationExists
<1>. HIDE DEF f
<1>. DEFINE IsUpTo(h) == h = [i \in 0 .. Len(q) |->
                                IF i = 0 THEN <<>>
                                ELSE IF q[i] \in S THEN Append(h[i - 1], q[i]) ELSE h[i - 1]]
<1>2. \A n \in 0 .. Len(q) : g[n] \in Seq(A)
  <2>. DEFINE T == {n \in Nat : n \in 0 .. Len(q) => g[n] \in Seq(A)}
  <2>1. 0 \in T
    BY <1>1 DEF Iterates
  <2>2. ASSUME NEW n \in Nat, n \in T PROVE n + 1 \in T
    <3>. SUFFICES ASSUME n + 1 \in 0 .. Len(q) PROVE g[n + 1] \in Seq(A)
      OBVIOUS
    <3>1. n \in 0 .. Len(q) /\ n + 1 # 0 /\ n + 1 - 1 = n /\ n + 1 \in 1 .. Len(q) /\ g[n] \in Seq(A)
      BY <1>0, <2>2
    <3>2. g[n + 1] = f[n + 1][g[n]]
      BY <1>0, <1>1, <3>1, IteratesStep
    <3>. QED  BY <1>0, <3>1, <3>2 DEF f
  <2>3. Nat \subseteq T
    <3>. HIDE DEF T
    <3>. QED  BY <2>1, <2>2, NatSetInduction
  <2>. QED  BY <2>3, <1>0
<1>3. KeptUpTo(g, q, S)
  <2>. SUFFICES ASSUME NEW i \in 0 .. Len(q)
                PROVE  g[i] = IF i = 0 THEN <<>>
                              ELSE IF q[i] \in S THEN Append(g[i - 1], q[i]) ELSE g[i - 1]
    BY DEF KeptUpTo
  <2>1. CASE i = 0
    BY <1>1, <2>1 DEF Iterates
  <2>2. CASE i # 0
    <3>1. i \in 1 .. Len(q) /\ i - 1 \in 0 .. Len(q)
      BY <1>0, <2>2
    <3>2. g[i] = f[i][g[i - 1]] /\ g[i - 1] \in Seq(A)
      BY <1>1, <1>2, <2>2, <3>1 DEF Iterates
    <3>. QED  BY <2>2, <3>1, <3>2 DEF f
  <2>. QED  BY <2>1, <2>2
<1>4. g = [i \in 0 .. Len(q) |-> g[i]]
  BY <1>1 DEF Iterates
<1>5. IsUpTo(g)
  BY <1>3, <1>4 DEF KeptUpTo
<1>6. PICK h : IsUpTo(h) /\ Kept(q, S) = h[Len(q)]
  BY <1>5 DEF Kept
<1>7. KeptUpTo(h, q, S)
  BY <1>6 DEF KeptUpTo
<1>8. ASSUME NEW n \in Nat, n \in 0 .. Len(q) => h[n] = g[n]
      PROVE  n + 1 \in 0 .. Len(q) => h[n + 1] = g[n + 1]
  <2>. SUFFICES ASSUME n + 1 \in 0 .. Len(q) PROVE h[n + 1] = g[n + 1]
    OBVIOUS
  <2>1. n \in 0 .. Len(q) /\ n + 1 # 0 /\ n + 1 - 1 = n /\ h[n] = g[n]
    BY <1>0, <1>8
  <2>. QED  BY <1>3, <1>7, <2>1 DEF KeptUpTo
<1>9. \A n \in 0 .. Len(q) : h[n] = g[n]
  <2>. DEFINE T == {n \in Nat : n \in 0 .. Len(q) => h[n] = g[n]}
  <2>1. 0 \in T
    BY <1>3, <1>7, <1>0 DEF KeptUpTo
  <2>2. Nat \subseteq T
    <3>1. \A n \in Nat : n \in T => n + 1 \in T
      BY <1>8
    <3>. HIDE DEF T
    <3>. QED  BY <2>1, <3>1, NatSetInduction
  <2>. QED  BY <2>2, <1>0
<1>. QED  BY <1>0, <1>2, <1>3, <1>4, <1>6, <1>9

\* Nothing is kept of the empty sequence.
LEMMA KeptNone ==
  ASSUME NEW S
  PROVE  Kept(<<>>, S) = <<>>
<1>1. <<>> \in Seq({}) /\ Len(<<>>) = 0
  OBVIOUS
<1>2. PICK g \in [0 .. Len(<<>>) -> Seq({})] : Kept(<<>>, S) = g[Len(<<>>)] /\ KeptUpTo(g, <<>>, S)
  BY <1>1, KeptIs
<1>. QED  BY <1>1, <1>2 DEF KeptUpTo

\* What is kept is a sequence of the same elements.
LEMMA KeptIsSequence ==
  ASSUME NEW A, NEW q \in Seq(A), NEW S
  PROVE  Kept(q, S) \in Seq(A)
<1>1. PICK g \in [0 .. Len(q) -> Seq(A)] : Kept(q, S) = g[Len(q)] /\ KeptUpTo(g, q, S)
  BY KeptIs
<1>2. Len(q) \in 0 .. Len(q)
  OBVIOUS
<1>. QED  BY <1>1, <1>2

\* An element at the end is kept behind the others, if it is in the set, ...
LEMMA KeptAppend ==
  ASSUME NEW A, NEW q \in Seq(A), NEW S, NEW x \in A
  PROVE  Kept(Append(q, x), S) = IF x \in S THEN Append(Kept(q, S), x) ELSE Kept(q, S)
<1>. DEFINE r == Append(q, x)
<1>0. /\ r \in Seq(A) /\ Len(q) \in Nat /\ Len(r) = Len(q) + 1 /\ r[Len(q) + 1] = x
      /\ \A i \in 1 .. Len(q) : r[i] = q[i]
  OBVIOUS
<1>. HIDE DEF r
<1>1. PICK g \in [0 .. Len(q) -> Seq(A)] : Kept(q, S) = g[Len(q)] /\ KeptUpTo(g, q, S)
  BY KeptIs
<1>2. PICK h \in [0 .. Len(r) -> Seq(A)] : Kept(r, S) = h[Len(r)] /\ KeptUpTo(h, r, S)
  BY <1>0, KeptIs
<1>. DEFINE T == {n \in Nat : n \in 0 .. Len(q) => h[n] = g[n]}
<1>3. 0 \in T
  BY <1>0, <1>1, <1>2 DEF KeptUpTo
<1>4. ASSUME NEW n \in Nat, n \in T PROVE n + 1 \in T
  <2>. SUFFICES ASSUME n + 1 \in 0 .. Len(q) PROVE h[n + 1] = g[n + 1]
    OBVIOUS
  <2>1. /\ n \in 0 .. Len(q) /\ n + 1 # 0 /\ n + 1 - 1 = n /\ n + 1 \in 0 .. Len(r)
        /\ r[n + 1] = q[n + 1] /\ h[n] = g[n]
    BY <1>0, <1>4
  <2>. DEFINE k == n + 1
  <2>. HIDE DEF k
  <2>2. k \in 0 .. Len(q) /\ k # 0 /\ k - 1 = n /\ k \in 0 .. Len(r) /\ r[k] = q[k]
    BY <2>1 DEF k
  <2>3. h[k] = g[k]
    BY <1>1, <1>2, <2>1, <2>2 DEF KeptUpTo
  <2>. QED  BY <2>3 DEF k
<1>5. Nat \subseteq T
  <2>. HIDE DEF T
  <2>. QED  BY <1>3, <1>4, NatSetInduction
<1>6. h[Len(q)] = g[Len(q)]
  BY <1>0, <1>5
<1>7. /\ Len(r) \in 0 .. Len(r) /\ Len(r) # 0 /\ Len(r) - 1 = Len(q) /\ r[Len(r)] = x
      /\ Len(q) \in 0 .. Len(q)
  BY <1>0
<1>8. Kept(r, S) = IF x \in S THEN Append(h[Len(q)], x) ELSE h[Len(q)]
  BY <1>2, <1>7 DEF KeptUpTo
<1>. QED  BY <1>1, <1>6, <1>7, <1>8 DEF r

\* ... which the proofs below use in one case ...
LEMMA KeptAppendOne ==
  ASSUME NEW A, NEW q \in Seq(A), NEW S, NEW x \in A, x \in S
  PROVE  Kept(Append(q, x), S) = Append(Kept(q, S), x)
BY KeptAppend

\* ... or the other.
LEMMA KeptAppendNone ==
  ASSUME NEW A, NEW q \in Seq(A), NEW S, NEW x \in A, x \notin S
  PROVE  Kept(Append(q, x), S) = Kept(q, S)
BY KeptAppend

\* An element in front is kept in front.
LEMMA KeptCons ==
  ASSUME NEW A, NEW q \in Seq(A), NEW S, NEW x \in A
  PROVE  /\ x \in S => Kept(<<x>> \o q, S) = <<x>> \o Kept(q, S)
         /\ x \notin S => Kept(<<x>> \o q, S) = Kept(q, S)
<1>. DEFINE P(s) == Kept(<<x>> \o s, S) = (IF x \in S THEN <<x>> ELSE <<>>) \o Kept(s, S)
            T == {s \in Seq(A) : P(s)}
<1>1. <<>> \in T
  <2>1. /\ <<x>> \o <<>> = Append(<<>>, x) /\ <<>> \in Seq(A) /\ Append(<<>>, x) = <<x>> \o <<>>
        /\ <<>> \o <<>> = <<>>
    OBVIOUS
  <2>2. PICK e \in Seq(A) : e = <<>>
    BY <2>1
  <2>3. x \in S => Kept(Append(e, x), S) = Append(Kept(e, S), x)
    BY KeptAppendOne
  <2>4. x \notin S => Kept(Append(e, x), S) = Kept(e, S)
    BY KeptAppendNone
  <2>5. P(<<>>)
    BY <2>1, <2>2, <2>3, <2>4, KeptNone
  <2>. QED  BY <2>1, <2>5
<1>2. ASSUME NEW s \in Seq(A), NEW y \in A, s \in T PROVE Append(s, y) \in T
  <2>. DEFINE r == <<x>> \o s
              hd == IF x \in S THEN <<x>> ELSE <<>>
  <2>1. <<x>> \o Append(s, y) = Append(r, y) /\ r \in Seq(A) /\ Append(s, y) \in Seq(A) /\ hd \in Seq(A)
    OBVIOUS
  <2>2. Kept(r, S) = hd \o Kept(s, S)
    BY <1>2
  <2>. HIDE DEF r, hd
  <2>3. /\ Kept(s, S) \in Seq(A)
        /\ y \in S => Kept(Append(s, y), S) = Append(Kept(s, S), y)
        /\ y \notin S => Kept(Append(s, y), S) = Kept(s, S)
    <3>1. Kept(s, S) \in Seq(A)
      BY KeptIsSequence
    <3>2. y \in S => Kept(Append(s, y), S) = Append(Kept(s, S), y)
      BY <2>1, KeptAppendOne
    <3>3. y \notin S => Kept(Append(s, y), S) = Kept(s, S)
      BY <2>1, KeptAppendNone
    <3>. QED  BY <3>1, <3>2, <3>3
  <2>4. /\ y \in S => Kept(Append(r, y), S) = Append(Kept(r, S), y)
        /\ y \notin S => Kept(Append(r, y), S) = Kept(r, S)
    <3>2. y \in S => Kept(Append(r, y), S) = Append(Kept(r, S), y)
      BY <2>1, KeptAppendOne
    <3>3. y \notin S => Kept(Append(r, y), S) = Kept(r, S)
      BY <2>1, KeptAppendNone
    <3>. QED  BY <3>2, <3>3
  <2>5. Append(hd \o Kept(s, S), y) = hd \o Append(Kept(s, S), y)
    <3>. DEFINE k == Kept(s, S)
    <3>1. k \in Seq(A) /\ hd \in Seq(A)
      BY <2>1, <2>3
    <3>. HIDE DEF k
    <3>2. AppendsToBoth(hd, k, y)
      BY <3>1, AppendConcat
    <3>. QED  BY <3>2 DEF k, AppendsToBoth
  <2>6. Kept(Append(r, y), S) = hd \o Kept(Append(s, y), S)
    BY <2>2, <2>3, <2>4, <2>5
  <2>7. P(Append(s, y))
    BY <2>1, <2>6 DEF hd
  <2>. QED  BY <2>1, <2>7
<1>3. Seq(A) \subseteq T
  <2>. HIDE DEF T
  <2>. QED  BY <1>1, <1>2, SequenceInduction
<1>4. P(q) /\ Kept(q, S) \in Seq(A)
  BY <1>3, KeptIsSequence
<1>5. <<>> \o Kept(q, S) = Kept(q, S)
  BY <1>4
<1>. QED  BY <1>4, <1>5

\* What is kept are the elements of the sequence that are in the set.
LEMMA KeptRange ==
  ASSUME NEW A, NEW q \in Seq(A), NEW S
  PROVE  Kept(q, S) \in Seq(A) /\ Range(Kept(q, S)) = Range(q) \cap S
<1>. DEFINE P(s) == Kept(s, S) \in Seq(A) /\ Range(Kept(s, S)) = Range(s) \cap S
            T == {s \in Seq(A) : P(s)}
<1>1. <<>> \in T
  <2>1. <<>> \in Seq(A) /\ Range(<<>>) = {}
    BY DEF Range
  <2>2. P(<<>>)
    BY <2>1, KeptNone
  <2>. QED  BY <2>1, <2>2
<1>2. ASSUME NEW s \in Seq(A), NEW y \in A, s \in T PROVE Append(s, y) \in T
  <2>1. Kept(s, S) \in Seq(A) /\ Range(Kept(s, S)) = Range(s) \cap S
    BY <1>2
  <2>2. /\ y \in S => Kept(Append(s, y), S) = Append(Kept(s, S), y)
        /\ y \notin S => Kept(Append(s, y), S) = Kept(s, S)
    <3>2. y \in S => Kept(Append(s, y), S) = Append(Kept(s, S), y)
      BY KeptAppendOne
    <3>3. y \notin S => Kept(Append(s, y), S) = Kept(s, S)
      BY KeptAppendNone
    <3>. QED  BY <3>2, <3>3
  <2>3. /\ Range(Append(s, y)) = Range(s) \cup {y}
        /\ Range(Append(Kept(s, S), y)) = Range(Kept(s, S)) \cup {y}
    BY <2>1, RangeAppend
  <2>4. Append(s, y) \in Seq(A) /\ Append(Kept(s, S), y) \in Seq(A)
    BY <2>1
  <2>5. P(Append(s, y))
    BY <2>1, <2>2, <2>3, <2>4
  <2>. QED  BY <2>4, <2>5
<1>3. Seq(A) \subseteq T
  <2>. HIDE DEF T
  <2>. QED  BY <1>1, <1>2, SequenceInduction
<1>. QED  BY <1>3

\* The elements of the set that are not in the sequence do not matter.
LEMMA KeptSame ==
  ASSUME NEW A, NEW q \in Seq(A), NEW S, NEW R, \A x \in Range(q) : x \in S <=> x \in R
  PROVE  Kept(q, S) = Kept(q, R)
<1>. DEFINE P(s) == (\A x \in Range(s) : x \in S <=> x \in R) => Kept(s, S) = Kept(s, R)
            T == {s \in Seq(A) : P(s)}
<1>1. <<>> \in T
  BY KeptNone
<1>2. ASSUME NEW s \in Seq(A), NEW y \in A, s \in T PROVE Append(s, y) \in T
  <2>1. Range(Append(s, y)) = Range(s) \cup {y} /\ Append(s, y) \in Seq(A)
    BY RangeAppend
  <2>2. /\ y \in S => Kept(Append(s, y), S) = Append(Kept(s, S), y)
        /\ y \notin S => Kept(Append(s, y), S) = Kept(s, S)
    <3>2. y \in S => Kept(Append(s, y), S) = Append(Kept(s, S), y)
      BY KeptAppendOne
    <3>3. y \notin S => Kept(Append(s, y), S) = Kept(s, S)
      BY KeptAppendNone
    <3>. QED  BY <3>2, <3>3
  <2>3. /\ y \in R => Kept(Append(s, y), R) = Append(Kept(s, R), y)
        /\ y \notin R => Kept(Append(s, y), R) = Kept(s, R)
    <3>2. y \in R => Kept(Append(s, y), R) = Append(Kept(s, R), y)
      BY KeptAppendOne
    <3>3. y \notin R => Kept(Append(s, y), R) = Kept(s, R)
      BY KeptAppendNone
    <3>. QED  BY <3>2, <3>3
  <2>4. P(s)
    BY <1>2
  <2>5. P(Append(s, y))
    BY <2>1, <2>2, <2>3, <2>4
  <2>. QED  BY <2>1, <2>5
<1>3. Seq(A) \subseteq T
  <2>. HIDE DEF T
  <2>. QED  BY <1>1, <1>2, SequenceInduction
<1>. QED  BY <1>3

\* What is kept with p is what is kept without it, with p put somewhere.
Parts(A, q, S, p) ==
  \E a, b \in Seq(A) : /\ Kept(q, S \cup {p}) = a \o <<p>> \o b
                       /\ Kept(q, S \ {p}) = a \o b

\* What is kept with an element of the sequence, and without it.
LEMMA KeptSplits ==
  ASSUME NEW A, NEW q \in Seq(A), NEW S, NEW p \in Range(q), Distinct(q)
  PROVE  Parts(A, q, S, p)
<1>. DEFINE U == S \cup {p}
            V == S \ {p}
            P(s) == \E a, b \in Seq(A) : Kept(s, U) = a \o <<p>> \o b /\ Kept(s, V) = a \o b
            Q(s) == Distinct(s) /\ p \in Range(s) => P(s)
            T == {s \in Seq(A) : Q(s)}
<1>0. p \in U /\ p \notin V /\ (\A y : y # p => (y \in U <=> y \in S) /\ (y \in V <=> y \in S)) /\ p \in A
  BY DEF Range
<1>. HIDE DEF U, V
<1>1. <<>> \in T
  BY DEF Range
<1>2. ASSUME NEW s \in Seq(A), NEW y \in A, Q(s) PROVE Q(Append(s, y))
  <2>. HIDE DEF Q
  <2>0. Q(s)
    BY <1>2
  <2>. USE DEF Q
  <2>. SUFFICES ASSUME Distinct(Append(s, y)), p \in Range(Append(s, y)) PROVE P(Append(s, y))
    OBVIOUS
  <2>1. /\ y \in U => Kept(Append(s, y), U) = Append(Kept(s, U), y)
        /\ y \in V => Kept(Append(s, y), V) = Append(Kept(s, V), y)
        /\ y \notin U => Kept(Append(s, y), U) = Kept(s, U)
        /\ y \notin V => Kept(Append(s, y), V) = Kept(s, V)
    <3>1. y \in U => Kept(Append(s, y), U) = Append(Kept(s, U), y)
      BY KeptAppendOne
    <3>2. y \in V => Kept(Append(s, y), V) = Append(Kept(s, V), y)
      BY KeptAppendOne
    <3>3. y \notin U => Kept(Append(s, y), U) = Kept(s, U)
      BY KeptAppendNone
    <3>4. y \notin V => Kept(Append(s, y), V) = Kept(s, V)
      BY KeptAppendNone
    <3>. QED  BY <3>1, <3>2, <3>3, <3>4
  <2>2. Distinct(s) /\ y \notin Range(s)
    <3>1. /\ DOMAIN Append(s, y) = 1 .. Len(s) + 1 /\ DOMAIN s = 1 .. Len(s) /\ Len(s) \in Nat
          /\ Append(s, y)[Len(s) + 1] = y /\ \A i \in 1 .. Len(s) : Append(s, y)[i] = s[i]
      OBVIOUS
    <3>. QED  BY <3>1 DEF Distinct, Range
  <2>3. Range(Append(s, y)) = Range(s) \cup {y}
    BY RangeAppend
  <2>4. CASE y = p
    <3>. DEFINE a == Kept(s, V)
    <3>1. Kept(s, U) = a
      BY <1>0, <2>2, <2>4, KeptSame
    <3>2. a \in Seq(A)
      BY KeptIsSequence
    <3>3. Kept(Append(s, y), U) = Append(a, p) /\ Kept(Append(s, y), V) = a
      BY <1>0, <2>1, <2>4, <3>1
    <3>. HIDE DEF a
    <3>4. Append(a, p) = a \o <<p>> \o <<>> /\ a \o <<>> = a /\ <<>> \in Seq(A)
      BY <1>0, <3>2
    <3>. QED  BY <3>2, <3>3, <3>4
  <2>5. CASE y # p
    <3>1. PICK a, b \in Seq(A) : Kept(s, U) = a \o <<p>> \o b /\ Kept(s, V) = a \o b
      BY <2>0, <2>2, <2>3, <2>5
    <3>2. a \o <<p>> \in Seq(A) /\ Append(b, y) \in Seq(A)
      BY <1>0
    <3>3. AppendsToBoth(a, b, y) /\ AppendsToBoth(a \o <<p>>, b, y)
      BY <3>1, <3>2, AppendConcat
    <3>4. CASE y \in S
      BY <1>0, <2>1, <2>5, <3>1, <3>2, <3>3, <3>4 DEF AppendsToBoth
    <3>5. CASE y \notin S
      BY <1>0, <2>1, <2>5, <3>1, <3>5
    <3>. QED  BY <3>4, <3>5
  <2>. QED  BY <2>4, <2>5
<1>3. ASSUME NEW s \in Seq(A), NEW y \in A, s \in T PROVE Append(s, y) \in T
  <2>. HIDE DEF Q
  <2>1. Append(s, y) \in Seq(A) /\ Q(s)
    BY <1>3
  <2>. QED  BY <1>2, <2>1
<1>4. Seq(A) \subseteq T
  <2>. HIDE DEF T
  <2>. QED  BY <1>1, <1>3, SequenceInduction
<1>. QED  BY <1>4 DEF Parts, U, V

\* t is s with p taken out, or put in, somewhere.
TakenFrom(s, p, t) == \E i \in 1 .. Len(s) : s[i] = p /\ t = RR!RemoveAt(s, i)
PutInto(s, p, t) == \E i \in 1 .. Len(s) + 1 : t = RR!InsertAt(s, i, p)

\* Taking an element out of a sequence, and putting one in.
LEMMA TakenOut ==
  ASSUME NEW A, NEW a \in Seq(A), NEW b \in Seq(A), NEW p \in A
  PROVE  /\ TakenFrom(a \o <<p>> \o b, p, a \o b)
         /\ PutInto(a \o b, p, a \o <<p>> \o b)
<1>. DEFINE s == a \o <<p>> \o b
            i == Len(a) + 1
            t == a \o b
<1>1. Len(a) \in Nat /\ Len(b) \in Nat /\ i - 1 = Len(a) /\ Len(s) = Len(a) + 1 + Len(b) /\ Len(t) = Len(a) + Len(b)
  OBVIOUS
<1>2. i \in 1 .. Len(s) /\ s[i] = p /\ i \in 1 .. Len(t) + 1
  OBVIOUS
<1>3. SubSeq(s, 1, i - 1) = a /\ SubSeq(t, 1, i - 1) = a
  OBVIOUS
<1>4. SubSeq(s, i + 1, Len(s)) = b /\ SubSeq(t, i, Len(t)) = b
  OBVIOUS
<1>5. RR!RemoveAt(s, i) = t /\ RR!InsertAt(t, i, p) = s
  BY <1>3, <1>4 DEF RR!RemoveAt, RR!InsertAt
<1>. QED  BY <1>2, <1>5 DEF TakenFrom, PutInto

-----------------------------------------------------------------------------
(***************************************************************************)
(* The scheduler's steps, as steps of the line.                            *)
(***************************************************************************)
ReadySet == {p \in PID : state[p] = "READY"}

\* The line and its parts, before and after a step.
LEMMA LineIs ==
  /\ line = Kept(queue, ReadySet)
  /\ line' = Kept(queue', ReadySet')
  /\ ReadySet' = {p \in PID : state'[p] = "READY"}
  /\ parked = {p \in PID : state[p] = "BLOCKED"}
  /\ parked' = {p \in PID : state'[p] = "BLOCKED"}
BY DEF line, ReadySet, parked

\* A process of the queue that is no longer READY leaves the line, from where it is.
LEMMA LineWithout ==
  ASSUME NEW q \in Seq(PID), Distinct(q), NEW p \in Range(q), NEW S, NEW R,
         p \in S, p \notin R, \A x \in Range(q) : x # p => (x \in S <=> x \in R)
  PROVE  TakenFrom(Kept(q, S), p, Kept(q, R))
<1>0. Parts(PID, q, S, p)
  BY KeptSplits
<1>1. PICK a, b \in Seq(PID) : Kept(q, S \cup {p}) = a \o <<p>> \o b /\ Kept(q, S \ {p}) = a \o b
  BY <1>0 DEF Parts
<1>2. Kept(q, S \cup {p}) = Kept(q, S)
  BY KeptSame
<1>3. Kept(q, S \ {p}) = Kept(q, R)
  BY KeptSame
<1>4. p \in PID
  BY DEF Range
<1>5. TakenFrom(a \o <<p>> \o b, p, a \o b)
  BY <1>1, <1>4, TakenOut
<1>. QED  BY <1>1, <1>2, <1>3, <1>5

\* A process of the queue that becomes READY comes back somewhere in the line.
LEMMA LineWith ==
  ASSUME NEW q \in Seq(PID), Distinct(q), NEW p \in Range(q), NEW S, NEW R,
         p \notin S, p \in R, \A x \in Range(q) : x # p => (x \in S <=> x \in R)
  PROVE  PutInto(Kept(q, S), p, Kept(q, R))
<1>0. Parts(PID, q, S, p)
  BY KeptSplits
<1>1. PICK a, b \in Seq(PID) : Kept(q, S \cup {p}) = a \o <<p>> \o b /\ Kept(q, S \ {p}) = a \o b
  BY <1>0 DEF Parts
<1>2. Kept(q, S \cup {p}) = Kept(q, R)
  BY KeptSame
<1>3. Kept(q, S \ {p}) = Kept(q, S)
  BY KeptSame
<1>4. p \in PID
  BY DEF Range
<1>5. PutInto(a \o b, p, a \o <<p>> \o b)
  BY <1>1, <1>4, TakenOut
<1>. QED  BY <1>1, <1>2, <1>3, <1>5

\* The sequence operators of RoundRobin are those of Scheduler.
LEMMA SameRange == \A s : RR!Range(s) = Range(s)
BY DEF RR!Range, Range

\* setNewState is a step of the line, or none.
LEMMA SetNewStateMaps ==
  ASSUME IInv, NEW pid \in PID, NEW s \in {"READY", "BLOCKED", "KILLED"},
         SetNewState(pid, s), UNCHANGED <<queue, currentProcess>>,
         pid = IdlePid => s = "READY" \/ ~ Exists(IdlePid),
         pid = currentProcess => state[pid] # "BLOCKED"
  PROVE  [RR!Next]_RR!vars
<1>. USE LineIs
<1>0. /\ state \in [PID -> State] /\ queue \in Seq(PID) /\ Distinct(queue)
      /\ currentProcess \in PID \cup {NoProc} /\ NoProc \notin PID /\ state[IdlePid] = "READY"
  BY Pids DEF IInv, TypeOK, InOnePlace, Distinct, IdleIsReady
<1>1. CASE state' = state
  <2>1. line' = line /\ parked' = parked /\ running' = running
    BY <1>1 DEF running, line, parked
  <2>. QED  BY <2>1 DEF RR!vars
<1>2. CASE state' # state
  <2>1. Settable(pid) /\ state' = [state EXCEPT ![pid] = s]
    BY <1>2 DEF SetNewState
  <2>2. /\ Exists(pid) /\ state[pid] \in {"READY", "BLOCKED"} /\ state[pid] # s /\ pid # IdlePid
        /\ state'[pid] = s /\ \A x \in PID : x # pid => state'[x] = state[x]
    <3>1. state[pid] # s
      BY <1>0, <1>2, <2>1
    <3>2. Exists(pid) /\ state[pid] # "KILLED"
      BY <2>1 DEF Settable
    <3>3. pid # IdlePid
      BY <1>0, <3>1, <3>2
    <3>4. state[pid] # "none"
      BY <3>2, <3>3 DEF IInv, InOnePlace
    <3>. QED  BY <1>0, <2>1, <3>1, <3>2, <3>3, <3>4 DEF State
  <2>3. /\ ReadySet' = (IF s = "READY" THEN ReadySet \cup {pid} ELSE ReadySet \ {pid})
        /\ parked' = (IF s = "BLOCKED" THEN parked \cup {pid} ELSE parked \ {pid})
        /\ pid \in ReadySet <=> state[pid] = "READY"
        /\ pid \in parked <=> state[pid] = "BLOCKED"
    BY <2>2 DEF ReadySet
  <2>4. CASE pid = currentProcess
    <3>1. pid \notin Range(queue)
      BY <2>4 DEF IInv, InOnePlace, Queued
    <3>2. line' = line
      <4>1. \A x \in Range(queue) : x \in ReadySet <=> x \in ReadySet'
        BY <2>3, <3>1
      <4>2. Kept(queue, ReadySet) = Kept(queue, ReadySet')
        BY <1>0, <4>1, KeptSame
      <4>. QED  BY <4>2
    <3>3. state[pid] = "READY" /\ running = pid /\ running' = NoProc
      BY <1>0, <2>2, <2>4 DEF running
    <3>4. CASE s = "BLOCKED"
      <4>1. RR!Park(pid)
        BY <2>3, <3>2, <3>3, <3>4 DEF RR!Park
      <4>. QED  BY <2>2, <4>1 DEF RR!Next
    <3>5. CASE s = "KILLED"
      <4>1. RR!Die(pid)
        BY <2>3, <3>2, <3>3, <3>5 DEF RR!Die
      <4>. QED  BY <2>2, <4>1 DEF RR!Next
    <3>. QED  BY <2>2, <3>3, <3>4, <3>5
  <2>5. CASE pid # currentProcess
    <3>1. pid \in Range(queue)
      BY <2>2, <2>5 DEF Exists, Queued
    <3>2. running' = running
      BY <1>0, <2>2, <2>5 DEF running
    <3>3. CASE state[pid] = "READY"
      <4>1. TakenFrom(Kept(queue, ReadySet), pid, Kept(queue, ReadySet'))
        <5>1. /\ pid \in ReadySet /\ pid \notin ReadySet'
              /\ \A x \in Range(queue) : x # pid => (x \in ReadySet <=> x \in ReadySet')
          BY <2>2, <2>3, <3>3
        <5>. QED  BY <1>0, <3>1, <5>1, LineWithout
      <4>2. CASE s = "BLOCKED"
        <5>1. RR!ParkWaiting(pid)
          BY <2>3, <3>2, <4>1, <4>2 DEF RR!ParkWaiting, TakenFrom
        <5>. QED  BY <2>2, <5>1 DEF RR!Next
      <4>3. CASE s = "KILLED"
        <5>1. RR!DieWaiting(pid)
          BY <2>3, <3>2, <3>3, <4>1, <4>3 DEF RR!DieWaiting, TakenFrom
        <5>. QED  BY <2>2, <5>1 DEF RR!Next
      <4>. QED  BY <2>2, <3>3, <4>2, <4>3
    <3>4. CASE state[pid] = "BLOCKED"
      <4>1. CASE s = "READY"
        <5>1. PutInto(Kept(queue, ReadySet), pid, Kept(queue, ReadySet'))
          <6>1. /\ pid \notin ReadySet /\ pid \in ReadySet'
                /\ \A x \in Range(queue) : x # pid => (x \in ReadySet <=> x \in ReadySet')
            BY <2>2, <2>3, <3>4, <4>1
          <6>. QED  BY <1>0, <3>1, <6>1, LineWith
        <5>2. RR!Unpark(pid)
          BY <2>3, <3>2, <3>4, <4>1, <5>1 DEF RR!Unpark, PutInto
        <5>. QED  BY <2>2, <5>2 DEF RR!Next
      <4>2. CASE s = "KILLED"
        <5>1. line' = line
          <6>1. \A x \in Range(queue) : x \in ReadySet <=> x \in ReadySet'
            BY <2>3, <3>4, <4>2
          <6>2. Kept(queue, ReadySet) = Kept(queue, ReadySet')
            BY <1>0, <6>1, KeptSame
          <6>. QED  BY <6>2
        <5>2. RR!DieParked(pid)
          BY <2>3, <3>2, <3>4, <4>2, <5>1 DEF RR!DieParked
        <5>. QED  BY <2>2, <5>2 DEF RR!Next
      <4>. QED  BY <2>2, <3>4, <4>1, <4>2
    <3>. QED  BY <2>2, <3>3, <3>4
  <2>. QED  BY <2>4, <2>5
<1>. QED  BY <1>1, <1>2

\* A step that changes no state, queue or owner of the CPU is none of the line.
LEMMA SameLine ==
  ASSUME UNCHANGED <<state, queue, currentProcess>>
  PROVE  [RR!Next]_RR!vars
<1>1. line' = line /\ parked' = parked /\ running' = running
  BY LineIs DEF line, running, parked
<1>. QED  BY <1>1 DEF RR!vars

\* addProcess is Spawn.
LEMMA AddProcessMaps ==
  ASSUME IInv, NEW p \in PID, NEW asked \in {0, 1}, AddProcess(p, asked)
  PROVE  [RR!Next]_RR!vars
<1>. USE LineIs
<1>. DEFINE new == newPIDVal
            waits == Waits(p, asked)
<1>1. /\ mode = "user" /\ p = currentProcess /\ p # IdlePid /\ state[p] = "READY"
  BY CallerRuns DEF AddProcess
<1>2. /\ new \in PID
      /\ state' = [state EXCEPT ![new] = "READY", ![p] = IF waits THEN "BLOCKED" ELSE @]
      /\ queue' = Append(queue, new)
      /\ currentProcess' = currentProcess
  BY DEF AddProcess, ProcessQueue, cpu
<1>3. /\ state \in [PID -> State] /\ queue \in Seq(PID) /\ NoProc \notin PID /\ new \in 2 .. MaxPid + 1
  BY Pids DEF IInv, TypeOK
<1>4. state[new] = "none" /\ new # p /\ new # IdlePid
  BY <1>1, <1>2, <1>3 DEF IInv, Fresh, IdlePid
<1>5. p \notin Range(queue) /\ new \notin Range(queue)
  BY <1>1, <1>2, <1>4 DEF IInv, InOnePlace, Exists, Queued
<1>6. /\ state'[new] = "READY" /\ state'[p] = (IF waits THEN "BLOCKED" ELSE "READY")
      /\ \A q \in PID : q \notin {new, p} => state'[q] = state[q]
  BY <1>1, <1>2, <1>3, <1>4
<1>7. line' = Append(line, new)
  <2>1. new \in ReadySet'
    BY <1>2, <1>6
  <2>2. Kept(Append(queue, new), ReadySet') = Append(Kept(queue, ReadySet'), new)
    <3>. DEFINE R == ReadySet'
    <3>1. new \in R /\ new \in PID /\ queue \in Seq(PID)
      BY <1>2, <1>3, <2>1
    <3>. HIDE DEF new, R
    <3>2. Kept(Append(queue, new), R) = Append(Kept(queue, R), new)
      BY <3>1, KeptAppendOne
    <3>. QED  BY <3>2 DEF R
  <2>3. \A x \in Range(queue) : x \in ReadySet <=> x \in ReadySet'
    BY <1>3, <1>5, <1>6 DEF ReadySet, Range
  <2>4. Kept(queue, ReadySet) = Kept(queue, ReadySet')
    BY <1>3, <2>3, KeptSame
  <2>. QED  BY <1>2, <2>2, <2>4
<1>8. running = p /\ running' = (IF waits THEN NoProc ELSE p)
  BY <1>1, <1>2, <1>3, <1>6 DEF running
<1>9. parked' = IF waits THEN parked \cup {p} ELSE parked
  BY <1>1, <1>2, <1>4, <1>6
<1>10. new \notin RR!Waiting \cup parked \cup {p}
  <2>1. Range(Kept(queue, ReadySet)) = Range(queue) \cap ReadySet
    BY <1>3, KeptRange
  <2>. QED  BY <1>4, <1>5, <2>1, SameRange DEF RR!Waiting
<1>11. RR!Spawn(p, new, waits)
  BY <1>7, <1>8, <1>9, <1>10 DEF RR!Spawn
<1>12. waits \in BOOLEAN
  BY DEF Waits
<1>. HIDE DEF waits
<1>. QED  BY <1>1, <1>2, <1>4, <1>11, <1>12 DEF RR!Next

\* A program that returns dies, unless it is the Overseer.
LEMMA ExitMaps ==
  ASSUME IInv, NEW p \in PID, Exit(p)
  PROVE  [RR!Next]_RR!vars
<1>. USE LineIs
<1>1. /\ p = currentProcess /\ p # IdlePid /\ state[p] = "READY"
  BY CallerRuns DEF Exit
<1>2. /\ state' = [state EXCEPT ![p] = IF Killable(p) THEN "KILLED" ELSE @]
      /\ queue' = queue /\ currentProcess' = currentProcess
  BY DEF Exit, cpu
<1>3. state \in [PID -> State] /\ queue \in Seq(PID) /\ NoProc \notin PID
  BY Pids DEF IInv, TypeOK
<1>4. CASE ~ Killable(p)
  <2>1. state' = state
    BY <1>2, <1>3, <1>4
  <2>. QED  BY <1>2, <2>1, SameLine
<1>5. CASE Killable(p)
  <2>1. state'[p] = "KILLED" /\ \A x \in PID : x # p => state'[x] = state[x]
    BY <1>2, <1>3, <1>5
  <2>2. \A x \in Range(queue) : x \in ReadySet <=> x \in ReadySet'
    BY <1>1, <1>3, <2>1 DEF ReadySet, Range, IInv, InOnePlace, Queued
  <2>3. Kept(queue, ReadySet) = Kept(queue, ReadySet')
    BY <1>3, <2>2, KeptSame
  <2>4. line' = line /\ parked' = parked
    BY <1>1, <1>2, <2>1, <2>3
  <2>5. running = p /\ running' = NoProc
    BY <1>1, <1>2, <1>3, <2>1 DEF running
  <2>6. RR!Die(p)
    BY <2>4, <2>5 DEF RR!Die
  <2>. QED  BY <1>1, <2>6 DEF RR!Next
<1>. QED  BY <1>4, <1>5

\* haltFunc gives the CPU back.
LEMMA LeaveIdleMaps ==
  ASSUME IInv, LeaveIdle
  PROVE  [RR!Next]_RR!vars
<1>1. /\ currentProcess' = NoProc /\ currentProcess \in {NoProc, IdlePid} /\ UNCHANGED <<state, queue>>
  BY DEF LeaveIdle, PutAway, NotQueued
<1>2. line' = line /\ parked' = parked
  BY <1>1, LineIs DEF line, parked
<1>3. CASE currentProcess = NoProc
  BY <1>1, <1>3, SameLine
<1>4. CASE currentProcess = IdlePid
  <2>1. running = IdlePid /\ running' = NoProc
    BY <1>1, <1>4, Pids DEF running, IInv, IdleIsReady
  <2>2. RR!LeaveIdle
    BY <1>2, <2>1 DEF RR!LeaveIdle
  <2>. QED  BY <2>2 DEF RR!Next
<1>. QED  BY <1>1, <1>3, <1>4

\* Who had the CPU goes to the end of the line, if it is READY.
LEMMA RequeueMaps ==
  ASSUME IInv, Requeue
  PROVE  [RR!Next]_RR!vars
<1>. USE LineIs
<1>. DEFINE p == currentProcess
<1>1. /\ p \notin {NoProc, IdlePid} /\ currentProcess' = NoProc /\ state' = state
      /\ queue' = Append(queue, p)
  BY DEF Requeue, PutAway, NotQueued, ProcessQueue
<1>2. p \in PID /\ queue \in Seq(PID)
  BY <1>1 DEF IInv, TypeOK
<1>3. ReadySet' = ReadySet /\ parked' = parked /\ running' = NoProc
  BY <1>1 DEF running, ReadySet
<1>4. CASE state[p] = "READY"
  <2>1. p \in ReadySet /\ running = p
    BY <1>1, <1>2, <1>4 DEF ReadySet, running
  <2>2. Kept(Append(queue, p), ReadySet) = Append(Kept(queue, ReadySet), p)
    BY <1>2, <2>1, KeptAppendOne
  <2>3. line' = Append(line, p)
    BY <1>1, <1>3, <2>2
  <2>4. RR!Preempt(p)
    BY <1>3, <2>1, <2>3 DEF RR!Preempt
  <2>. QED  BY <1>1, <1>2, <2>4 DEF RR!Next
<1>5. CASE state[p] # "READY"
  <2>1. p \notin ReadySet /\ running = NoProc
    BY <1>5 DEF ReadySet, running
  <2>2. Kept(Append(queue, p), ReadySet) = Kept(queue, ReadySet)
    BY <1>2, <2>1, KeptAppendNone
  <2>3. line' = line
    BY <1>1, <1>3, <2>2
  <2>. QED  BY <1>3, <2>1, <2>3 DEF RR!vars
<1>. QED  BY <1>4, <1>5

\* The parent that a dead process wakes comes back into the line.
LEMMA FreeCurrentMaps ==
  ASSUME IInv, FreeCurrent
  PROVE  [RR!Next]_RR!vars
<1>. USE LineIs
<1>. DEFINE p == currentProcess
            pp == ppid[p]
<1>1. /\ p \notin {NoProc, IdlePid} /\ currentProcess' = NoProc /\ queue' = queue
      /\ state[p] = "KILLED"
      /\ state' = [state EXCEPT ![p] = "none", ![pp] = IF WakesParent(p) THEN "READY" ELSE @]
  BY DEF FreeCurrent, PutAway, NotQueued
<1>2. /\ p \in PID /\ pp \in PID /\ queue \in Seq(PID) /\ Distinct(queue) /\ state \in [PID -> State]
      /\ state[IdlePid] = "READY"
  BY <1>1 DEF IInv, TypeOK, InOnePlace, Distinct, IdleIsReady
<1>3. running = NoProc /\ running' = NoProc
  BY <1>1 DEF running
<1>4. p \notin Range(queue)
  BY DEF IInv, InOnePlace, Queued
<1>5. CASE WakesParent(p)
  <2>1. state[pp] = "BLOCKED" /\ Exists(pp)
    BY <1>5 DEF WakesParent
  <2>2. pp # p /\ pp # IdlePid /\ pp \in Range(queue)
    BY <1>1, <1>2, <2>1 DEF Exists, Queued
  <2>3. /\ state'[p] = "none" /\ state'[pp] = "READY"
        /\ \A x \in PID : x \notin {p, pp} => state'[x] = state[x]
    BY <1>1, <1>2, <1>5, <2>2
  <2>4. /\ pp \notin ReadySet /\ pp \in ReadySet'
        /\ \A x \in Range(queue) : x # pp => (x \in ReadySet <=> x \in ReadySet')
    BY <1>2, <1>4, <2>1, <2>3 DEF ReadySet, Range
  <2>5. PutInto(Kept(queue, ReadySet), pp, Kept(queue, ReadySet'))
    <3>. HIDE DEF pp
    <3>. QED  BY <1>2, <2>2, <2>4, LineWith
  <2>6. pp \in parked /\ parked' = parked \ {pp}
    BY <1>1, <1>2, <2>1, <2>3
  <2>7. RR!Unpark(pp)
    BY <1>1, <1>3, <2>5, <2>6 DEF RR!Unpark, PutInto
  <2>. QED  BY <1>2, <2>2, <2>7 DEF RR!Next
<1>6. CASE ~ WakesParent(p)
  <2>1. state'[p] = "none" /\ \A x \in PID : x # p => state'[x] = state[x]
    BY <1>1, <1>2, <1>6
  <2>2. \A x \in Range(queue) : x \in ReadySet <=> x \in ReadySet'
    BY <1>2, <1>4, <2>1 DEF ReadySet, Range
  <2>3. Kept(queue, ReadySet) = Kept(queue, ReadySet')
    BY <1>2, <2>2, KeptSame
  <2>4. line' = line /\ parked' = parked
    BY <1>1, <2>1, <2>3
  <2>. QED  BY <1>3, <2>4 DEF RR!vars
<1>. QED  BY <1>5, <1>6

\* What the search sees of the line when it looks at the head of the queue.
LEMMA HeadOfLine ==
  ASSUME NEW q \in Seq(PID), q # <<>>, NEW S
  PROVE  /\ Head(q) \in S => Kept(q, S) = <<Head(q)>> \o Kept(Tail(q), S)
         /\ Head(q) \notin S => Kept(q, S) = Kept(Tail(q), S)
<1>1. q = <<Head(q)>> \o Tail(q) /\ Head(q) \in PID /\ Tail(q) \in Seq(PID)
  OBVIOUS
<1>2. PICK h \in PID, t \in Seq(PID) : h = Head(q) /\ t = Tail(q) /\ q = <<h>> \o t
  BY <1>1
<1>3. /\ h \in S => Kept(<<h>> \o t, S) = <<h>> \o Kept(t, S)
      /\ h \notin S => Kept(<<h>> \o t, S) = Kept(t, S)
  BY KeptCons, Zenon
<1>. QED  BY <1>2, <1>3

\* The head of the line gets the CPU.
LEMMA RunHeadMaps ==
  ASSUME IInv, RunHead
  PROVE  [RR!Next]_RR!vars
<1>. USE LineIs
<1>. DEFINE h == Head(queue)
            t == Tail(queue)
<1>1. /\ mode = "dispatch" /\ SomeReady /\ state[h] = "READY" /\ state' = state
      /\ queue' = t /\ currentProcess' = h
  BY DEF RunHead, Searching, GiveCpu
<1>2. queue # <<>> /\ currentProcess = NoProc /\ h \in PID /\ t \in Seq(PID)
  BY <1>1, SearchFindsHead
<1>3. queue \in Seq(PID)
  BY DEF IInv, TypeOK
<1>4. h \in ReadySet /\ ReadySet' = ReadySet /\ parked' = parked
  BY <1>1, <1>2 DEF ReadySet
<1>5. line = <<h>> \o line'
  BY <1>1, <1>2, <1>3, <1>4, HeadOfLine
<1>6. line' \in Seq(PID)
  BY <1>1, <1>2, <1>4, KeptIsSequence
<1>7. line # <<>> /\ Head(line) = h /\ Tail(line) = line'
  <2>1. \A l \in Seq(PID), x \in PID : <<x>> \o l # <<>> /\ Head(<<x>> \o l) = x /\ Tail(<<x>> \o l) = l
    OBVIOUS
  <2>. QED  BY <1>2, <1>5, <1>6, <2>1, Zenon
<1>8. running = NoProc /\ running' = h
  BY <1>1, <1>2, Pids DEF running
<1>9. RR!Dispatch
  BY <1>4, <1>7, <1>8 DEF RR!Dispatch
<1>. QED  BY <1>9 DEF RR!Next

\* A blocked head goes round, and a killed one goes: the line does not see it.
LEMMA RotateHeadMaps ==
  ASSUME IInv, RotateHead \/ ReapHead
  PROVE  [RR!Next]_RR!vars
<1>. USE LineIs
<1>. DEFINE h == Head(queue)
            t == Tail(queue)
<1>1. mode = "dispatch" /\ SomeReady /\ state[h] \in {"BLOCKED", "KILLED"} /\ currentProcess' = currentProcess
  BY DEF RotateHead, ReapHead, Searching, cpu
<1>2. /\ queue # <<>> /\ currentProcess = NoProc /\ h \in PID \ {IdlePid} /\ t \in Seq(PID)
  BY <1>1, SearchFindsHead
<1>3. queue \in Seq(PID) /\ state \in [PID -> State]
  BY DEF IInv, TypeOK
<1>4. h \notin ReadySet
  BY <1>1 DEF ReadySet
<1>5. line = Kept(t, ReadySet)
  BY <1>2, <1>3, <1>4, HeadOfLine
<1>6. running' = running
  BY <1>1, <1>2 DEF running
<1>7. CASE RotateHead
  <2>1. queue' = Append(t, h) /\ state' = state
    BY <1>7 DEF RotateHead
  <2>2. ReadySet' = ReadySet /\ parked' = parked
    BY <2>1 DEF ReadySet
  <2>3. Kept(Append(t, h), ReadySet) = Kept(t, ReadySet)
    BY <1>2, <1>4, KeptAppendNone
  <2>4. line' = line
    BY <1>5, <2>1, <2>2, <2>3
  <2>. QED  BY <1>6, <2>2, <2>4 DEF RR!vars
<1>8. CASE ReapHead
  <2>1. queue' = t /\ state' = [state EXCEPT ![h] = "none"] /\ state[h] = "KILLED"
    BY <1>8 DEF ReapHead, Searching
  <2>2. state'[h] = "none" /\ \A x \in PID : x # h => state'[x] = state[x]
    BY <1>2, <1>3, <2>1
  <2>3. ReadySet' = ReadySet /\ parked' = parked
    BY <2>1, <2>2 DEF ReadySet
  <2>4. line' = line
    BY <1>5, <2>1, <2>3
  <2>. QED  BY <1>6, <2>3, <2>4 DEF RR!vars
<1>. QED  BY <1>7, <1>8

\* haltFunc gets the CPU when the line is empty.
LEMMA RunIdleMaps ==
  ASSUME IInv, RunIdle
  PROVE  [RR!Next]_RR!vars
<1>. USE LineIs
<1>1. /\ mode = "dispatch" /\ ~ SomeReady /\ state' = state /\ queue' = queue /\ currentProcess' = IdlePid
  BY DEF RunIdle, GiveCpu
<1>2. currentProcess = NoProc /\ queue \in Seq(PID) /\ state[IdlePid] = "READY" /\ readySize \in Nat
  BY <1>1 DEF IInv, TypeOK, SearchHoldsNobody, IdleIsReady
<1>3. line' = line /\ parked' = parked
  BY <1>1 DEF line, parked
<1>4. ReadyQueued = {}
  <2>1. ReadyQueued \in SUBSET PID /\ IdlePid \in PID
    BY QueuedPids, Pids DEF IInv
  <2>2. Cardinality(ReadyQueued) = 0
    BY <1>1, <1>2 DEF SomeReady, ReadyCount, IInv
  <2>. QED  BY <2>1, <2>2, CountChange
<1>5. Kept(queue, ReadySet) \in Seq(PID) /\ Range(Kept(queue, ReadySet)) = Range(queue) \cap ReadySet
  BY <1>2, KeptRange
<1>6. Range(queue) \cap ReadySet = {}
  BY <1>4 DEF ReadyQueued, Queued, ReadySet
<1>7. line = <<>>
  <2>. DEFINE l == Kept(queue, ReadySet)
  <2>1. l \in Seq(PID) /\ Range(l) = {}
    BY <1>5, <1>6
  <2>. HIDE DEF l
  <2>2. l = <<>>
    <3>1. Len(l) \in Nat /\ \A i \in 1 .. Len(l) : l[i] \in Range(l)
      BY <2>1 DEF Range
    <3>2. Len(l) = 0
      BY <2>1, <3>1
    <3>. QED  BY <2>1, <3>2
  <2>. QED  BY <2>2 DEF l
<1>8. running = NoProc /\ running' = IdlePid
  BY <1>1, <1>2, Pids DEF running
<1>9. RR!DispatchIdle
  BY <1>3, <1>7, <1>8 DEF RR!DispatchIdle
<1>. QED  BY <1>9 DEF RR!Next

\* Between the two calls of exit the process is not blocked: nothing can block it there.
ExitNotBlocked == mode = "exit" => currentProcess \in PID /\ state[currentProcess] # "BLOCKED"

\* Every step keeps that so.
LEMMA ExitNotBlockedStep ==
  ASSUME IInv, ExitNotBlocked, Next
  PROVE  ExitNotBlocked'
<1>. USE DEF ExitNotBlocked, cpu
<1>0. state \in [PID -> State] /\ currentProcess \in PID \cup {NoProc} /\ NoProc \notin PID
  BY Pids DEF IInv, TypeOK
<1>1. mode' # "exit" => ExitNotBlocked'
  OBVIOUS
<1>2. mode = "exit" /\ UNCHANGED <<state, currentProcess>> => ExitNotBlocked'
  OBVIOUS
<1>3. ASSUME NEW pid \in PID, NEW s \in {"READY", "KILLED"}, SetNewState(pid, s),
             mode' = "exit" => mode = "exit", currentProcess' = currentProcess
      PROVE  ExitNotBlocked'
  BY <1>0, <1>3 DEF SetNewState
<1>4. ASSUME NEW pid \in PID, KillProcess(pid) PROVE ExitNotBlocked'
  <2>1. CASE Killable(pid)
    BY <2>1, <1>3, <1>4 DEF KillProcess, TickIfSelf
  <2>2. CASE ~ Killable(pid)
    BY <2>2, <1>4 DEF KillProcess
  <2>. QED  BY <2>1, <2>2
<1>5. ASSUME NEW p \in PID, SystemCall(p) PROVE ExitNotBlocked'
  <2>1. Exit(p) => ExitNotBlocked'
    BY CallerRuns, <1>0 DEF Exit
  <2>2. Fault(p) \/ (\E pid \in PID : Kill(p, pid)) => ExitNotBlocked'
    BY <1>4 DEF Kill, Fault
  <2>. QED  BY <1>1, <1>5, <2>1, <2>2 DEF SystemCall, AddProcess, AddProcessFails, Block, Nice, Yield,
               WaitForPID, TickIfSelf, Calling
<1>6. CASE Interrupt
  <2>1. CtrlC => ExitNotBlocked'
    BY <1>0, <1>4 DEF CtrlC, FgTarget
  <2>2. (\E pid \in PID : Unblock(pid)) => ExitNotBlocked'
    BY <1>3 DEF Unblock
  <2>. QED  BY <1>6, <1>1, <2>1, <2>2 DEF Interrupt, TimerTick
<1>7. CASE scheduler
  BY <1>7, <1>1 DEF scheduler, schedulerLoop, KeepRunning, LeaveIdle, Requeue, FreeCurrent, PutAway,
     RunHead, RotateHead, ReapHead, RunIdle, GiveCpu, Resume, Searching
<1>8. CASE Wild
  BY <1>8, <1>1 DEF Wild, vars
<1>. QED  BY <1>5, <1>6, <1>7, <1>8 DEF Next

\* killProcess and its callers.
LEMMA KillProcessMaps ==
  ASSUME IInv, NEW pid \in PID, KillProcess(pid), pid = currentProcess => state[pid] # "BLOCKED"
  PROVE  [RR!Next]_RR!vars
<1>1. CASE Killable(pid)
  <2>1. SetNewState(pid, "KILLED") /\ UNCHANGED <<queue, currentProcess>> /\ pid # IdlePid
    BY <1>1 DEF KillProcess, Killable, IdlePid, Shell, cpu
  <2>. QED  BY <2>1, SetNewStateMaps
<1>2. CASE ~ Killable(pid)
  <2>1. UNCHANGED <<state, queue, currentProcess>>
    BY <1>2 DEF KillProcess, cpu
  <2>. QED  BY <2>1, SameLine
<1>. QED  BY <1>1, <1>2

\* Every call of a program is a step of the line, or none.
LEMMA CallMaps ==
  ASSUME IInv, NEW p \in PID, SystemCall(p)
  PROVE  [RR!Next]_RR!vars
<1>1. ASSUME NEW call, Calling(p, call) PROVE p = currentProcess /\ state[p] = "READY" /\ ~ Exists(IdlePid) /\ p # IdlePid
  BY <1>1, CallerRuns
<1>2. ASSUME NEW asked \in {0, 1}, AddProcess(p, asked) PROVE [RR!Next]_RR!vars
  BY <1>2, AddProcessMaps
<1>3. ASSUME NEW pid \in PID, Kill(p, pid) PROVE [RR!Next]_RR!vars
  BY <1>1, <1>3, KillProcessMaps DEF Kill
<1>4. CASE Fault(p)
  BY <1>1, <1>4, KillProcessMaps DEF Fault
<1>5. ASSUME NEW pid \in PID, Block(p, pid) PROVE [RR!Next]_RR!vars
  <2>1. /\ SetNewState(pid, "BLOCKED") /\ UNCHANGED <<queue, currentProcess>> /\ Calling(p, "block")
    BY <1>5 DEF Block, cpu
  <2>2. ~ Exists(IdlePid) /\ (pid = currentProcess => state[pid] # "BLOCKED")
    BY <1>1, <2>1
  <2>. QED  BY <2>1, <2>2, SetNewStateMaps
<1>6. ASSUME NEW pid \in PID, WaitForPID(p, pid) PROVE [RR!Next]_RR!vars
  <2>1. /\ SetNewState(p, "BLOCKED") /\ UNCHANGED <<queue, currentProcess>>
        /\ Calling(p, "wait") \/ Calling(p, "waitAny")
    BY <1>6 DEF WaitForPID, cpu
  <2>2. ~ Exists(IdlePid) /\ (p = currentProcess => state[p] # "BLOCKED")
    BY <1>1, <2>1
  <2>. QED  BY <2>1, <2>2, SetNewStateMaps
<1>7. CASE Exit(p)
  BY <1>7, ExitMaps
<1>8. ASSUME AddProcessFails(p) \/ Yield(p) \/ \E pid \in PID, prio \in -1 .. PRIO_CAP + 1 : Nice(p, pid, prio)
      PROVE  [RR!Next]_RR!vars
  <2>1. UNCHANGED <<state, queue, currentProcess>>
    BY <1>8 DEF AddProcessFails, Yield, Nice, cpu
  <2>. QED  BY <2>1, SameLine
<1>. QED  BY <1>2, <1>3, <1>4, <1>5, <1>6, <1>7, <1>8 DEF SystemCall

\* So is every interrupt.
LEMMA InterruptMaps ==
  ASSUME IInv, ExitNotBlocked, Interrupt
  PROVE  [RR!Next]_RR!vars
<1>1. CASE TimerTick
  <2>1. UNCHANGED <<state, queue, currentProcess>>
    BY <1>1 DEF TimerTick, cpu
  <2>. QED  BY <2>1, SameLine
<1>2. CASE CtrlC
  <2>1. currentProcess \in PID /\ state[currentProcess] = "READY" /\ KillProcess(currentProcess)
    BY <1>2 DEF CtrlC, FgTarget, IInv, TypeOK
  <2>. QED  BY <2>1, KillProcessMaps
<1>3. ASSUME NEW pid \in PID, Unblock(pid) PROVE [RR!Next]_RR!vars
  <2>1. SetNewState(pid, "READY") /\ UNCHANGED <<queue, currentProcess>> /\ mode \in {"user", "exit"}
    BY <1>3 DEF Unblock, cpu
  <2>2. pid = currentProcess => state[pid] # "BLOCKED"
    BY <2>1, Pids DEF IInv, OnlyReadyRuns, ExitNotBlocked
  <2>. QED  BY <2>1, <2>2, SetNewStateMaps
<1>. QED  BY <1>1, <1>2, <1>3 DEF Interrupt

\* And every step of scheduler.
LEMMA SchedulerMaps ==
  ASSUME IInv, scheduler
  PROVE  [RR!Next]_RR!vars
<1>1. CASE KeepRunning
  <2>1. UNCHANGED <<state, queue, currentProcess>>
    BY <1>1 DEF KeepRunning
  <2>. QED  BY <2>1, SameLine
<1>. QED  BY <1>1, LeaveIdleMaps, RequeueMaps, FreeCurrentMaps, RunHeadMaps, RotateHeadMaps, RunIdleMaps
          DEF scheduler, schedulerLoop

\* The line of the state that main leaves holds the Overseer.
LEMMA InitMaps == Init => RR!Init
<1>. SUFFICES ASSUME Init PROVE RR!Init
  OBVIOUS
<1>1. /\ queue = <<Overseer>> /\ currentProcess = NoProc /\ Overseer \in PID \ {IdlePid}
      /\ state = [p \in PID |-> IF p \in {IdlePid, Overseer} THEN "READY" ELSE "none"]
  BY Pids DEF Init, Overseer, IdlePid
<1>2. Overseer \in ReadySet /\ parked = {} /\ running = NoProc
  BY <1>1 DEF ReadySet, parked, running
<1>3. Append(<<>>, Overseer) = <<Overseer>> /\ <<>> \in Seq(PID)
  OBVIOUS
<1>4. Kept(Append(<<>>, Overseer), ReadySet) = Append(Kept(<<>>, ReadySet), Overseer)
  <2>1. PICK e \in Seq(PID) : e = <<>>
    BY <1>3
  <2>2. Kept(Append(e, Overseer), ReadySet) = Append(Kept(e, ReadySet), Overseer)
    <3>. DEFINE R == ReadySet
                o == Overseer
    <3>1. o \in R /\ o \in PID /\ e \in Seq(PID)
      BY <1>1, <1>2
    <3>. HIDE DEF o, R
    <3>2. Kept(Append(e, o), R) = Append(Kept(e, R), o)
      BY <3>1, KeptAppendOne
    <3>. QED  BY <3>2 DEF o, R
  <2>. QED  BY <2>1, <2>2
<1>5. line = <<Overseer>>
  BY <1>1, <1>3, <1>4, KeptNone, LineIs
<1>. QED  BY <1>1, <1>2, <1>5 DEF RR!Init

\* The scheduler implements the round-robin line, for every number of processes and
\* every set of calls: whatever is blocked, killed, woken or created, every step is one
\* of the line or changes nothing of it.
THEOREM SchedulerIsRoundRobin == Spec => ImplementsRoundRobin
<1>1. Init => IInv /\ ExitNotBlocked
  BY InitIInv DEF Init, ExitNotBlocked
<1>2. IInv /\ ExitNotBlocked /\ [Next]_vars => IInv' /\ ExitNotBlocked'
  <2>1. IInv /\ [Next]_vars => IInv'
    BY StepIInv
  <2>2. UNCHANGED vars /\ ExitNotBlocked => ExitNotBlocked'
    BY DEF vars, cpu, ExitNotBlocked
  <2>. QED  BY <2>1, <2>2, ExitNotBlockedStep
<1>3. IInv /\ ExitNotBlocked /\ [Next]_vars => [RR!Next]_RR!vars
  <2>. SUFFICES ASSUME IInv, ExitNotBlocked, [Next]_vars PROVE [RR!Next]_RR!vars
    OBVIOUS
  <2>1. CASE Wild \/ UNCHANGED vars
    <3>1. UNCHANGED <<state, queue, currentProcess>>
      BY <2>1 DEF Wild, vars, cpu
    <3>. QED  BY <3>1, SameLine
  <2>. QED  BY <2>1, CallMaps, InterruptMaps, SchedulerMaps DEF Next
<1>. QED  BY <1>1, <1>2, <1>3, InitMaps, PTL DEF Spec, ImplementsRoundRobin, RR!Spec

-----------------------------------------------------------------------------
(***************************************************************************)
(* The semaphores, for every number of processes and of semaphores.        *)
(* Processes are created, scheduled and killed at any moment; programs     *)
(* wait on the semaphores they opened, and nobody but a post and the death *)
(* of a child wakes another process.                                       *)
(***************************************************************************)

NobodyMeddles == Calls \cap {"block", "unblock", "waitAny"} = {}
Disciplined == NobodyMeddles /\ "sWaitAny" \notin SemCalls

(***************************************************************************)
(* The inductive invariant.  That live waiters are listed is not inductive *)
(* by itself: a process must not wait for a semaphore and for a child at   *)
(* once (the child would wake it), a new process must not find its pid in  *)
(* a line, and the semaphore must not be freed under its line: that is     *)
(* what counting its listeners is for.                                     *)
(***************************************************************************)
Line(s) == sem[s].blockedPIDs

\* Those that keep a semaphore from being freed.  A process that died in the line
\* is one of them, and its opening is never undone.
Holders(s) == {p \in PID : s \in opened[p] \/ Listed(p, s)}

OpenedExist == \A p \in PID, s \in SemId : s \in opened[p] => s \in Open
WaitersOpened == \A p \in PID :
  waitsFor[p] # NoSem => waitsFor[p] \in opened[p] /\ state[p] # "none"
WaitersStop == \A p \in PID :
  p = currentProcess /\ waitsFor[p] # NoSem => mode = "tick" /\ state[p] = "BLOCKED"
LinesAreSets == \A s \in Open :
  Distinct(Line(s)) /\ \A p \in PID : Listed(p, s) => p < newPIDVal
HoldersListen == \A s \in Open :
  /\ sem[s].listeners \in 1 .. MAX_BLOCKED_PIDS
  /\ Cardinality(Holders(s)) <= sem[s].listeners
OneReason ==
  /\ waitsFor[IdlePid] = NoSem
  /\ \A p, c \in PID : Awaits(p, c) => waitsFor[p] = NoSem

\* What only the semaphores' own variables, and pids, say.
Structure == SemTypeOK /\ OpenedExist /\ HoldersListen /\ NoTokenWhileWaiting

SInv == /\ Structure
        /\ LinesAreSets
        /\ WaitersOpened
        /\ WaitersStop
        /\ OneReason
        /\ WaitersAreListed
        /\ NoTokenForged

-----------------------------------------------------------------------------
(***************************************************************************)
(* Records.                                                                *)
(***************************************************************************)
\* A process takes its place in a line.
LEMMA EnlistedDoes ==
  ASSUME NEW r \in Semaphore, NEW p \in PID
  PROVE  LET t == [r EXCEPT !.blockedPIDs = Enlisted(@, p)] IN
         /\ t \in Semaphore /\ t.value = r.value /\ t.listeners = r.listeners
         /\ t.blockedPIDs = Append(r.blockedPIDs, p)
<1>1. Append(r.blockedPIDs, p) \in Seq(PID)
  BY DEF Semaphore
<1>. QED  BY <1>1 DEF Semaphore, Enlisted

\* A post.
LEMMA PostedDoes ==
  ASSUME NEW r \in Semaphore, r.value < MAX_VALUE
  PROVE  /\ Posted(r) \in Semaphore /\ Posted(r).listeners = r.listeners
         /\ r.blockedPIDs = <<>> => /\ Posted(r).value = r.value + 1
                                    /\ Posted(r).blockedPIDs = <<>>
         /\ r.blockedPIDs # <<>> => /\ Posted(r).value = r.value
                                    /\ Posted(r).blockedPIDs = Tail(r.blockedPIDs)
<1>1. CASE r.blockedPIDs = <<>>
  <2>1. Posted(r) = [r EXCEPT !.value = r.value + 1] /\ r.value + 1 \in 0 .. MAX_VALUE
    BY <1>1, SemAssumption DEF Posted, Semaphore
  <2>. QED  BY <1>1, <2>1 DEF Semaphore
<1>2. CASE r.blockedPIDs # <<>>
  <2>1. Posted(r) = [r EXCEPT !.blockedPIDs = Tail(r.blockedPIDs)]
        /\ Tail(r.blockedPIDs) \in Seq(PID)
    BY <1>2 DEF Posted, Semaphore
  <2>. QED  BY <1>2, <2>1 DEF Semaphore
<1>. QED  BY <1>1, <1>2

\* What a semaphore looks like to the process that has opened it.
LEMMA FoundDoes ==
  ASSUME SemTypeOK, NEW s \in SemId, NEW v \in InitValues
  PROVE  LET r == Found(s, v)
             t == [r EXCEPT !.listeners = @ + 1] IN
         /\ r \in Semaphore
         /\ t \in Semaphore /\ t.value = r.value /\ t.blockedPIDs = r.blockedPIDs
         /\ t.listeners = r.listeners + 1
         /\ s \in Open => r = sem[s]
         /\ s \notin Open => r.value = v /\ r.listeners = 0 /\ r.blockedPIDs = <<>>
<1>1. Found(s, v) \in Semaphore
  <2>1. CASE sem[s] = NoSem
    BY <2>1, SemAssumption DEF Found, Semaphore
  <2>2. CASE sem[s] # NoSem
    BY <2>2 DEF Found, SemTypeOK
  <2>. QED  BY <2>1, <2>2
<1>2. s \notin Open => Found(s, v) = [value |-> v, listeners |-> 0, blockedPIDs |-> <<>>]
  BY DEF Found, Open
<1>3. s \in Open => Found(s, v) = sem[s]
  BY DEF Found, Open
<1>. QED  BY <1>1, <1>2, <1>3 DEF Semaphore

\* Members of a line.
LEMMA LineMembers ==
  ASSUME SemTypeOK, NEW s \in Open
  PROVE  /\ s \in SemId /\ sem[s] \in Semaphore /\ Line(s) \in Seq(PID)
         /\ Range(Line(s)) \subseteq PID
         /\ \A p : Listed(p, s) <=> p \in Range(Line(s))
<1>1. s \in SemId /\ sem[s] \in Semaphore
  BY DEF Open, SemTypeOK
<1>2. Line(s) \in Seq(PID)
  BY <1>1 DEF Line, Semaphore
<1>. QED  BY <1>1, <1>2 DEF Line, Listed, Range

\* A set of pids is finite.
LEMMA PidsAreFinite ==
  ASSUME NEW T \in SUBSET PID
  PROVE  IsFiniteSet(T) /\ Cardinality(T) \in Nat
<1>1. IsFiniteSet(PID)
  BY MaxPidAssumption, FS_Interval DEF PID
<1>2. IsFiniteSet(T)
  BY <1>1, FS_Subset
<1>. QED  BY <1>2, FS_CardinalityType

\* A line without repetitions is as long as the set of its members.
LEMMA LineLength ==
  ASSUME NEW q \in Seq(PID), Distinct(q), NEW H \in SUBSET PID, Range(q) \subseteq H
  PROVE  Len(q) <= Cardinality(H)
<1>1. IsFiniteSet(H) /\ Cardinality(H) \in Nat
  BY PidsAreFinite
<1>2. IsFiniteSet(1 .. Len(q)) /\ Cardinality(1 .. Len(q)) = Len(q)
  <2>1. PICK n \in Nat : n = Len(q)
    OBVIOUS
  <2>2. IsFiniteSet(1 .. n) /\ Cardinality(1 .. n) = IF 1 > n THEN 0 ELSE n - 1 + 1
    BY FS_Interval
  <2>. QED  BY <2>1, <2>2
<1>3. q \in [1 .. Len(q) -> H]
  BY DEF Range
<1>4. ASSUME Cardinality(H) < Len(q) PROVE FALSE
  <2>1. PICK i, j \in 1 .. Len(q) : i # j /\ q[i] = q[j]
    BY <1>1, <1>2, <1>3, <1>4, FS_PigeonHole
  <2>. QED  BY <2>1, <1>3 DEF Distinct
<1>. QED  BY <1>1, <1>4

\* A smaller set of pids is no larger.
LEMMA FewerPids ==
  ASSUME NEW T \in SUBSET PID, NEW S \in SUBSET T
  PROVE  Cardinality(S) <= Cardinality(T) /\ Cardinality(S) \in Nat /\ Cardinality(T) \in Nat
<1>1. IsFiniteSet(T) /\ IsFiniteSet(S)
  BY PidsAreFinite
<1>. QED  BY <1>1, FS_Subset, FS_CardinalityType

-----------------------------------------------------------------------------
(***************************************************************************)
(* The caller of a semaphore runs: it waits for nothing.                   *)
(***************************************************************************)
LEMMA CallerIsFree ==
  ASSUME IInv, SInv, NEW p \in PID, NEW call, SemCalling(p, call)
  PROVE  /\ p = currentProcess /\ mode = "user" /\ p # IdlePid /\ state[p] = "READY"
         /\ p < newPIDVal /\ waitsFor[p] = NoSem
         /\ \A s \in SemId : ~ Listed(p, s)
         /\ ~ Exists(IdlePid)
<1>1. p = currentProcess /\ mode = "user" /\ p # IdlePid /\ p # NoProc
  BY DEF SemCalling
<1>2. state[p] = "READY"
  BY <1>1 DEF IInv, OnlyReadyRuns
<1>3. p < newPIDVal
  BY <1>2 DEF IInv, Fresh, TypeOK, PID
<1>4. waitsFor[p] = NoSem
  BY <1>1 DEF SInv, WaitersStop
<1>5. \A s \in SemId : ~ Listed(p, s)
  BY <1>2 DEF SInv, WaitersAreListed, Alive
<1>. QED  BY <1>1, <1>2, <1>3, <1>4, <1>5 DEF IInv, InOnePlace, Exists

\* Who uses a semaphore that is not sWaitAny's.
LEMMA WaitersUseWhatTheyOpened ==
  ASSUME Disciplined, NEW p \in PID, NEW s \in SemId, Uses(p, s, "sWait", "sWaitAny")
  PROVE  SemCalling(p, "sWait") /\ s \in opened[p]
BY DEF Disciplined, Uses, SemCalling

-----------------------------------------------------------------------------
(***************************************************************************)
(* The calls that neither wake nor stop anybody.                           *)
(***************************************************************************)
\* Nothing happens.
LEMMA SemStutter == SInv /\ UNCHANGED allVars => SInv'
<1>. SUFFICES ASSUME SInv, UNCHANGED allVars PROVE SInv'
  OBVIOUS
<1>. USE DEF allVars, semVars, vars, pcb, cpu
<1>1. Structure'
  BY DEF SInv, Structure, SemTypeOK, OpenedExist, HoldersListen, NoTokenWhileWaiting, Open, Listed,
     Holders
<1>2. LinesAreSets' /\ WaitersOpened' /\ WaitersStop' /\ OneReason'
  BY DEF SInv, LinesAreSets, WaitersOpened, WaitersStop, OneReason, Open, Listed, Line, Awaits
<1>3. WaitersAreListed' /\ NoTokenForged'
  BY DEF SInv, WaitersAreListed, NoTokenForged, Open, Listed, Alive, Chosen
<1>. QED  BY <1>1, <1>2, <1>3 DEF SInv

\* The lines and the process table are as they were.
LEMMA QuietCall ==
  ASSUME SInv, UNCHANGED <<vars, waitsFor>>, Structure', NoTokenForged',
         \A q \in PID, t \in SemId : Listed(q, t)' <=> Listed(q, t),
         \A t \in Open' : Distinct(Line(t)'),
         \A q \in PID : waitsFor[q] # NoSem => waitsFor[q] \in opened'[q]
  PROVE  SInv'
<1>. USE DEF vars, pcb, cpu
<1>1. LinesAreSets'
  <2>1. ASSUME NEW t \in Open', NEW q \in PID, Listed(q, t)' PROVE q < newPIDVal
    <3>1. t \in SemId /\ Listed(q, t)
      BY <2>1 DEF Open
    <3>2. t \in Open
      BY <3>1 DEF Listed
    <3>. QED  BY <3>1, <3>2 DEF SInv, LinesAreSets
  <2>. QED  BY <2>1 DEF LinesAreSets
<1>2. WaitersOpened' /\ WaitersStop' /\ OneReason'
  BY DEF SInv, WaitersOpened, WaitersStop, OneReason, Awaits
<1>3. WaitersAreListed'
  BY DEF SInv, WaitersAreListed, Alive
<1>. QED  BY <1>1, <1>2, <1>3 DEF SInv

\* sOpen: the new listener was not one of those that hold the semaphore.
LEMMA SOpenKeepsSInv ==
  ASSUME IInv, SInv, NEW p \in PID, NEW s \in SemId, NEW v \in InitValues, SOpen(p, s, v)
  PROVE  SInv'
<1>. DEFINE r == Found(s, v)
            t == [r EXCEPT !.listeners = @ + 1]
<1>1. CASE Full(r)
  BY <1>1, SemStutter DEF SOpen, allVars, semVars
<1>2. CASE ~ Full(r)
  <2>0. SemTypeOK
    BY DEF SInv, Structure
  <2>1. /\ sem' = [sem EXCEPT ![s] = t] /\ opened' = [opened EXCEPT ![p] = @ \cup {s}]
        /\ tokens' = IF sem[s] = NoSem THEN [tokens EXCEPT ![s] = v] ELSE tokens
        /\ UNCHANGED <<vars, waitsFor>> /\ s \notin opened[p]
    BY <1>2 DEF SOpen
  <2>2. /\ r \in Semaphore /\ t \in Semaphore /\ t.value = r.value /\ t.blockedPIDs = r.blockedPIDs
        /\ t.listeners = r.listeners + 1
        /\ s \in Open => r = sem[s]
        /\ s \notin Open => r.value = v /\ r.listeners = 0 /\ r.blockedPIDs = <<>>
    BY <2>0, FoundDoes
  <2>. HIDE DEF r, t
  <2>3. sem'[s] = t /\ sem'[s] # NoSem /\ \A u \in SemId \ {s} : sem'[u] = sem[u]
    BY <2>0, <2>1, <2>2, SemAssumption DEF SemTypeOK
  <2>4. Open' = Open \cup {s}
    BY <2>3 DEF Open
  <2>5. \A q \in PID, u \in SemId : Listed(q, u)' <=> Listed(q, u)
    <3>1. ASSUME NEW q \in PID, NEW u \in SemId, u # s PROVE Listed(q, u)' <=> Listed(q, u)
      BY <3>1, <2>3, <2>4 DEF Listed
    <3>2. ASSUME NEW q \in PID PROVE Listed(q, s)' <=> Listed(q, s)
      <4>1. CASE s \in Open
        BY <4>1, <2>2, <2>3, <2>4 DEF Listed
      <4>2. CASE s \notin Open
        BY <4>2, <2>2, <2>3 DEF Listed, Range
      <4>. QED  BY <4>1, <4>2
    <3>. QED  BY <3>1, <3>2
  <2>6. SemTypeOK'
    <3>1. v \in Nat
      BY SemAssumption
    <3>. QED  BY <2>0, <2>1, <2>2, <3>1 DEF SemTypeOK
  <2>7. OpenedExist'
    BY <2>0, <2>1, <2>4 DEF SInv, Structure, OpenedExist, SemTypeOK
  <2>8. \A u \in SemId \ {s} : Holders(u)' = Holders(u)
    BY <2>0, <2>1, <2>5 DEF Holders, SemTypeOK
  <2>9. Holders(s)' = Holders(s) \cup {p}
    <3>1. \A q \in PID : s \in opened'[q] <=> s \in opened[q] \/ q = p
      BY <2>0, <2>1 DEF SemTypeOK
    <3>. QED  BY <3>1, <2>5 DEF Holders
  <2>10. HoldersListen'
    <3>1. ASSUME NEW u \in Open', u # s
          PROVE  /\ sem'[u].listeners \in 1 .. MAX_BLOCKED_PIDS
                 /\ Cardinality(Holders(u)') <= sem'[u].listeners
      BY <3>1, <2>3, <2>4, <2>8 DEF SInv, Structure, HoldersListen, Open
    <3>2. t.listeners \in 1 .. MAX_BLOCKED_PIDS
      BY <1>2, <2>2, SemAssumption DEF Full, Semaphore
    <3>3. Cardinality(Holders(s)') <= t.listeners
      <4>1. Holders(s) \subseteq PID
        BY DEF Holders
      <4>2. Cardinality(Holders(s)) <= r.listeners /\ Cardinality(Holders(s)) \in Nat
        <5>1. CASE s \in Open
          BY <5>1, <4>1, <2>2, PidsAreFinite DEF SInv, Structure, HoldersListen
        <5>2. CASE s \notin Open
          <6>1. Holders(s) = {}
            BY <5>2 DEF Holders, SInv, Structure, OpenedExist, Listed
          <6>. QED  BY <6>1, <5>2, <2>2, FS_EmptySet
        <5>. QED  BY <5>1, <5>2
      <4>3. r.listeners \in Nat
        BY <2>2 DEF Semaphore
      <4>4. Cardinality(Holders(s) \cup {p}) <= Cardinality(Holders(s)) + 1
        <5>1. Cardinality(Holders(s) \cup {p})
                = Cardinality(Holders(s)) + (IF p \in Holders(s) THEN 0 ELSE 1)
          BY <4>1, CountChange
        <5>. QED  BY <5>1, <4>2
      <4>5. Cardinality(Holders(s)') = Cardinality(Holders(s) \cup {p})
        BY <2>9
      <4>6. Cardinality(Holders(s) \cup {p}) \in Nat
        BY <4>1, PidsAreFinite
      <4>. QED  BY <4>2, <4>3, <4>4, <4>5, <4>6, <2>2
    <3>. QED  BY <2>3, <3>1, <3>2, <3>3 DEF HoldersListen
  <2>11. NoTokenWhileWaiting'
    <3>1. ASSUME NEW u \in Open', u # s PROVE sem'[u].value > 0 => sem'[u].blockedPIDs = <<>>
      BY <3>1, <2>3, <2>4 DEF SInv, Structure, NoTokenWhileWaiting, Open
    <3>2. t.value > 0 => t.blockedPIDs = <<>>
      BY <2>2 DEF SInv, Structure, NoTokenWhileWaiting
    <3>. QED  BY <2>3, <3>1, <3>2 DEF NoTokenWhileWaiting
  <2>12. NoTokenForged'
    <3>1. \A u \in SemId : Chosen(u)' = Chosen(u)
      BY <2>1 DEF Chosen, vars
    <3>2. ASSUME NEW u \in SemId, u # s
          PROVE  tokens'[u] >= (IF u \in Open' THEN sem'[u].value ELSE 0) + Cardinality(Chosen(u)')
      <4>1. tokens'[u] = tokens[u] /\ sem'[u] = sem[u] /\ (u \in Open' <=> u \in Open)
        BY <3>2, <2>0, <2>1, <2>3, <2>4 DEF SemTypeOK
      <4>. QED  BY <4>1, <3>1 DEF SInv, NoTokenForged
    <3>3. tokens'[s] >= t.value + Cardinality(Chosen(s)')
      <4>1. CASE s \in Open
        <5>1. tokens'[s] = tokens[s]
          BY <4>1, <2>1 DEF Open
        <5>. QED  BY <4>1, <5>1, <2>2, <3>1 DEF SInv, NoTokenForged
      <4>2. CASE s \notin Open
        <5>1. tokens'[s] = v
          BY <4>2, <2>0, <2>1 DEF Open, SemTypeOK
        <5>2. Chosen(s) = {}
          BY <4>2, SemAssumption DEF Chosen, SInv, WaitersOpened, Structure, OpenedExist
        <5>3. v \in Nat
          BY SemAssumption
        <5>4. Cardinality(Chosen(s)') = 0
          BY <3>1, <5>2, FS_EmptySet
        <5>. QED  BY <4>2, <5>1, <5>3, <5>4, <2>2
      <4>. QED  BY <4>1, <4>2
    <3>. QED  BY <2>3, <2>4, <3>2, <3>3 DEF NoTokenForged
  <2>13. \A u \in Open' : Distinct(Line(u)')
    <3>1. ASSUME NEW u \in Open', u # s PROVE Distinct(Line(u)')
      <4>1. u \in Open /\ Line(u)' = Line(u)
        BY <3>1, <2>3, <2>4 DEF Line, Open
      <4>. QED  BY <4>1 DEF SInv, LinesAreSets
    <3>2. Distinct(t.blockedPIDs)
      <4>1. CASE s \in Open
        BY <4>1, <2>2 DEF SInv, LinesAreSets, Line
      <4>2. CASE s \notin Open
        BY <4>2, <2>2 DEF Distinct
      <4>. QED  BY <4>1, <4>2
    <3>. QED  BY <2>3, <3>1, <3>2 DEF Line
  <2>14. \A q \in PID : waitsFor[q] # NoSem => waitsFor[q] \in opened'[q]
    BY <2>0, <2>1 DEF SInv, WaitersOpened, SemTypeOK
  <2>. QED  BY <2>1, <2>5, <2>6, <2>7, <2>10, <2>11, <2>12, <2>13, <2>14, QuietCall DEF Structure
<1>. QED  BY <1>1, <1>2

\* sWait that finds a token takes it.
LEMMA SWaitPassesKeepsSInv ==
  ASSUME IInv, SInv, NEW p \in PID, NEW s \in SemId, SWaitPasses(p, s)
  PROVE  SInv'
<1>0. SemTypeOK
  BY DEF SInv, Structure
<1>1. /\ sem' = [sem EXCEPT ![s].value = @ - 1] /\ tokens' = [tokens EXCEPT ![s] = @ - 1]
      /\ UNCHANGED <<vars, waitsFor, opened>> /\ s \in Open /\ sem[s].value > 0
  BY DEF SWaitPasses, Open
<1>2. /\ sem'[s] \in Semaphore /\ sem'[s].value = sem[s].value - 1
      /\ sem'[s].listeners = sem[s].listeners /\ sem'[s].blockedPIDs = sem[s].blockedPIDs
      /\ \A u \in SemId \ {s} : sem'[u] = sem[u]
  <2>. DEFINE t == [sem[s] EXCEPT !.value = sem[s].value - 1]
  <2>1. sem[s] \in Semaphore
    BY <1>0, <1>1 DEF SemTypeOK, Open
  <2>2. t \in Semaphore /\ t.value = sem[s].value - 1 /\ t.listeners = sem[s].listeners
        /\ t.blockedPIDs = sem[s].blockedPIDs
    BY <1>1, <2>1, SemAssumption DEF Semaphore
  <2>3. sem' = [sem EXCEPT ![s] = t]
    BY <1>1
  <2>. QED  BY <1>0, <2>2, <2>3 DEF SemTypeOK
<1>3. Open' = Open
  BY <1>1, <1>2, SemAssumption DEF Open
<1>4. \A u \in Open : /\ sem'[u].blockedPIDs = sem[u].blockedPIDs
                      /\ sem'[u].listeners = sem[u].listeners
  BY <1>2 DEF Open
<1>5. \A q \in PID, u \in SemId : Listed(q, u)' <=> Listed(q, u)
  BY <1>3, <1>4 DEF Listed
<1>6. \A u \in SemId : Holders(u)' = Holders(u) /\ Chosen(u)' = Chosen(u)
  BY <1>1, <1>5 DEF Holders, Chosen, vars
<1>7. OpenedExist' /\ HoldersListen'
  BY <1>1, <1>3, <1>4, <1>6 DEF SInv, Structure, OpenedExist, HoldersListen, Open
<1>8. NoTokenWhileWaiting'
  BY <1>1, <1>2, <1>3 DEF SInv, Structure, NoTokenWhileWaiting, Open
<1>9. NoTokenForged' /\ tokens' \in [SemId -> Nat]
  <2>1. tokens'[s] = tokens[s] - 1 /\ \A u \in SemId \ {s} : tokens'[u] = tokens[u]
    BY <1>0, <1>1 DEF SemTypeOK
  <2>2. \A u \in SemId : Cardinality(Chosen(u)) \in Nat
    BY PidsAreFinite DEF Chosen
  <2>3. sem[s].value \in Nat
    BY <1>0, <1>1, SemAssumption DEF SemTypeOK, Semaphore, Open
  <2>4. tokens[s] >= sem[s].value + Cardinality(Chosen(s)) /\ tokens[s] \in Nat
    BY <1>0, <1>1 DEF SInv, NoTokenForged, SemTypeOK
  <2>5. tokens'[s] >= sem'[s].value + Cardinality(Chosen(s)) /\ tokens'[s] \in Nat
    BY <1>1, <1>2, <2>1, <2>2, <2>3, <2>4
  <2>6. ASSUME NEW u \in SemId
        PROVE  tokens'[u] >= (IF u \in Open' THEN sem'[u].value ELSE 0) + Cardinality(Chosen(u)')
    BY <1>1, <1>2, <1>3, <1>6, <2>1, <2>5 DEF SInv, NoTokenForged
  <2>. QED  BY <1>0, <1>1, <2>5, <2>6 DEF NoTokenForged, SemTypeOK
<1>10. SemTypeOK'
  BY <1>0, <1>1, <1>2, <1>9 DEF SemTypeOK
<1>11. \A u \in Open' : Distinct(Line(u)')
  BY <1>3, <1>4 DEF SInv, LinesAreSets, Line
<1>12. \A q \in PID : waitsFor[q] # NoSem => waitsFor[q] \in opened'[q]
  BY <1>1 DEF SInv, WaitersOpened
<1>. QED  BY <1>1, <1>5, <1>7, <1>8, <1>9, <1>10, <1>11, <1>12, QuietCall DEF Structure

\* The last listener is the last holder.
LEMMA LastHolder ==
  ASSUME SInv, NEW p \in PID, NEW s \in SemId, s \in opened[p], sem[s].listeners = 1
  PROVE  Holders(s) = {p}
<1>1. s \in Open
  BY DEF SInv, Structure, OpenedExist
<1>2. Cardinality(Holders(s)) <= 1 /\ Holders(s) \subseteq PID /\ p \in Holders(s)
  BY <1>1 DEF SInv, Structure, HoldersListen, Holders
<1>3. IsFiniteSet(Holders(s)) /\ Cardinality(Holders(s)) \in Nat
  BY <1>2, PidsAreFinite
<1>4. Cardinality(Holders(s)) # 0
  BY <1>2, <1>3, FS_EmptySet
<1>5. Cardinality(Holders(s)) = 1
  BY <1>2, <1>3, <1>4
<1>6. PICK x : Holders(s) = {x}
  BY <1>3, <1>5, FS_Singleton
<1>. QED  BY <1>2, <1>6

\* sClose takes away one holder, and the semaphore with the last.
LEMMA SCloseKeepsSInv ==
  ASSUME IInv, SInv, NEW p \in PID, NEW s \in SemId, SClose(p, s)
  PROVE  SInv'
<1>0. SemTypeOK
  BY DEF SInv, Structure
<1>1. /\ opened' = [opened EXCEPT ![p] = @ \ {s}]
      /\ UNCHANGED <<vars, waitsFor>> /\ s \in opened[p] /\ SemCalling(p, "sClose")
  BY DEF SClose
<1>a. ASSUME sem[s].listeners = 1
      PROVE  sem' = [sem EXCEPT ![s] = NoSem] /\ tokens' = [tokens EXCEPT ![s] = 0]
  BY <1>a DEF SClose, LastListener
<1>b. ASSUME sem[s].listeners # 1
      PROVE  /\ sem' = [sem EXCEPT ![s] = [sem[s] EXCEPT !.listeners = sem[s].listeners - 1]]
             /\ tokens' = tokens
  BY <1>b DEF SClose, LastListener
<1>2. s \in Open /\ sem[s] \in Semaphore
  BY <1>0, <1>1 DEF SInv, Structure, OpenedExist, SemTypeOK, Open
<1>3. waitsFor[p] = NoSem /\ ~ Listed(p, s)
  BY <1>1, CallerIsFree
<1>4. \A q \in PID, u \in SemId : u \in opened'[q] <=> u \in opened[q] /\ ~ (q = p /\ u = s)
  BY <1>0, <1>1 DEF SemTypeOK
<1>5. \A q \in PID : waitsFor[q] # NoSem => waitsFor[q] \in opened'[q]
  BY <1>0, <1>3, <1>4 DEF SInv, WaitersOpened, SemTypeOK
<1>6. \A u \in SemId \ {s} : sem'[u] = sem[u] /\ tokens'[u] = tokens[u]
  BY <1>0, <1>a, <1>b DEF SemTypeOK
<1>7. \A u \in SemId : Chosen(u)' = Chosen(u)
  BY <1>1 DEF Chosen, vars
<1>8. opened' \in [PID -> SUBSET SemId]
  BY <1>0, <1>1 DEF SemTypeOK
<1>9. CASE sem[s].listeners = 1
  <2>1. sem'[s] = NoSem /\ tokens'[s] = 0
    BY <1>0, <1>a, <1>9 DEF SemTypeOK
  <2>2. Open' = Open \ {s}
    BY <2>1, <1>6 DEF Open
  <2>3. Holders(s) = {p}
    BY <1>1, <1>9, LastHolder
  <2>4. \A q \in PID, u \in SemId : Listed(q, u)' <=> Listed(q, u)
    BY <1>3, <1>6, <2>2, <2>3 DEF Listed, Holders
  <2>5. OpenedExist'
    BY <1>4, <2>2, <2>3 DEF SInv, Structure, OpenedExist, Holders
  <2>6. \A u \in Open' : Holders(u)' = Holders(u)
    BY <1>4, <2>2, <2>4 DEF Holders, Open
  <2>7. HoldersListen' /\ NoTokenWhileWaiting' /\ \A u \in Open' : Distinct(Line(u)')
    BY <1>6, <2>2, <2>6 DEF SInv, Structure, HoldersListen, NoTokenWhileWaiting, LinesAreSets, Line,
       Open
  <2>8. SemTypeOK'
    BY <1>0, <1>1, <1>a, <1>8, <1>9 DEF SemTypeOK
  <2>9. NoTokenForged'
    <3>1. Chosen(s) = {}
      <4>1. ASSUME NEW q \in PID, waitsFor[q] = s PROVE FALSE
        <5>1. s # NoSem
          BY SemAssumption
        <5>2. s \in opened'[q]
          BY <1>5, <4>1, <5>1
        <5>. QED  BY <1>4, <2>3, <5>2 DEF Holders
      <4>. QED  BY <4>1 DEF Chosen
    <3>2. Cardinality(Chosen(s)') = 0
      BY <1>7, <3>1, FS_EmptySet
    <3>3. ASSUME NEW u \in SemId, u # s
          PROVE  tokens'[u] >= (IF u \in Open' THEN sem'[u].value ELSE 0) + Cardinality(Chosen(u)')
      BY <1>6, <1>7, <2>2, <3>3 DEF SInv, NoTokenForged
    <3>. QED  BY <2>1, <2>2, <3>2, <3>3 DEF NoTokenForged
  <2>. QED  BY <1>1, <1>5, <2>4, <2>5, <2>7, <2>8, <2>9, QuietCall DEF Structure
<1>10. CASE sem[s].listeners # 1
  <2>1. sem[s].listeners \in 1 .. MAX_BLOCKED_PIDS
    BY <1>2 DEF SInv, Structure, HoldersListen
  <2>2. /\ sem'[s] \in Semaphore /\ sem'[s].listeners = sem[s].listeners - 1
        /\ sem'[s].value = sem[s].value /\ sem'[s].blockedPIDs = sem[s].blockedPIDs
    BY <1>0, <1>b, <1>2, <1>10, <2>1 DEF SemTypeOK, Semaphore
  <2>3. Open' = Open /\ tokens' = tokens
    BY <1>0, <1>b, <1>2, <1>6, <1>10, <2>2, SemAssumption DEF Open, SemTypeOK
  <2>4. \A u \in Open : sem'[u].value = sem[u].value /\ sem'[u].blockedPIDs = sem[u].blockedPIDs
    BY <1>6, <2>2 DEF Open
  <2>5. \A q \in PID, u \in SemId : Listed(q, u)' <=> Listed(q, u)
    BY <2>3, <2>4 DEF Listed
  <2>6. OpenedExist'
    BY <1>4, <2>3 DEF SInv, Structure, OpenedExist
  <2>7. \A u \in SemId \ {s} : Holders(u)' = Holders(u)
    BY <1>4, <2>5 DEF Holders
  <2>8. Holders(s)' = Holders(s) \ {p} /\ p \in Holders(s) /\ Holders(s) \subseteq PID
    BY <1>1, <1>3, <1>4, <2>5 DEF Holders
  <2>9. HoldersListen'
    <3>1. ASSUME NEW u \in Open', u # s
          PROVE  /\ sem'[u].listeners \in 1 .. MAX_BLOCKED_PIDS
                 /\ Cardinality(Holders(u)') <= sem'[u].listeners
      BY <1>6, <2>3, <2>7, <3>1 DEF SInv, Structure, HoldersListen, Open
    <3>2. sem'[s].listeners \in 1 .. MAX_BLOCKED_PIDS
      BY <1>10, <2>1, <2>2, SemAssumption
    <3>3. Cardinality(Holders(s)') <= sem'[s].listeners
      <4>1. Cardinality(Holders(s) \ {p})
              = Cardinality(Holders(s)) - (IF p \in Holders(s) THEN 1 ELSE 0)
        BY <2>8, CountChange
      <4>2. Cardinality(Holders(s)) \in Nat /\ Cardinality(Holders(s)) <= sem[s].listeners
        BY <1>2, <2>8, PidsAreFinite DEF SInv, Structure, HoldersListen
      <4>3. Cardinality(Holders(s)') = Cardinality(Holders(s)) - 1
        BY <2>8, <4>1
      <4>. QED  BY <2>1, <2>2, <4>2, <4>3
    <3>. QED  BY <3>1, <3>2, <3>3 DEF HoldersListen
  <2>10. NoTokenWhileWaiting' /\ \A u \in Open' : Distinct(Line(u)')
    BY <2>3, <2>4 DEF SInv, Structure, NoTokenWhileWaiting, LinesAreSets, Line
  <2>11. NoTokenForged'
    BY <1>7, <2>3, <2>4 DEF SInv, NoTokenForged
  <2>12. SemTypeOK'
    BY <1>0, <1>1, <1>b, <1>2, <1>8, <1>10, <2>2, <2>3 DEF SemTypeOK
  <2>. QED  BY <1>1, <1>5, <2>5, <2>6, <2>9, <2>10, <2>11, <2>12, QuietCall DEF Structure
<1>. QED  BY <1>9, <1>10

\* These three calls keep the invariant of the process table.
LEMMA FramedCall ==
  ASSUME IInv, AwaitInv, UNCHANGED vars
  PROVE  IInv' /\ AwaitInv'
<1>1. IInv'
  BY StepIInv
<1>2. AwaitInv'
  BY DEF AwaitInv, OneAwaited, AwaitingStops, ParentsFirst, Awaits, vars, pcb, cpu
<1>. QED  BY <1>1, <1>2

-----------------------------------------------------------------------------
(***************************************************************************)
(* sWait that finds none, and sPost.                                       *)
(***************************************************************************)
\* The sleeper runs when it goes to sleep: nobody can have posted, or closed the
\* semaphore, between its look at the value and its place in the line.
LEMMA SWaitBlocksKeepsSInv ==
  ASSUME IInv, AwaitInv, SInv, Disciplined, NEW p \in PID, NEW s \in SemId, SWaitBlocks(p, s)
  PROVE  IInv' /\ AwaitInv' /\ SInv'
<1>0. SemTypeOK /\ state \in [PID -> State]
  BY DEF SInv, Structure, IInv, TypeOK
<1>1. SemCalling(p, "sWait") /\ s \in opened[p] /\ s \in Open /\ sem[s].value = 0
  BY WaitersUseWhatTheyOpened DEF SWaitBlocks, Open
<1>2. /\ sem' = [sem EXCEPT ![s].blockedPIDs = Enlisted(@, p)] /\ waitsFor' = [waitsFor EXCEPT ![p] = s]
      /\ SetNewState(p, "BLOCKED") /\ TickIfSelf(p)
      /\ UNCHANGED <<opened, tokens, newPIDVal, ppid, fg, priority, queue, cpu, returned>>
  BY DEF SWaitBlocks, pcb
<1>3. /\ p = currentProcess /\ mode = "user" /\ p # IdlePid /\ state[p] = "READY"
      /\ p < newPIDVal /\ waitsFor[p] = NoSem
      /\ \A t \in SemId : ~ Listed(p, t)
      /\ ~ Exists(IdlePid)
  BY <1>1, CallerIsFree
<1>4. mode' = "tick" /\ state' = [state EXCEPT ![p] = "BLOCKED"]
  BY <1>2, <1>3 DEF TickIfSelf, SetNewState, Settable, Exists
<1>5. IInv'
  <2>1. fg' \in [PID -> {0, 1}]
    BY <1>2 DEF IInv, TypeOK
  <2>. QED  BY <1>2, <1>3, <1>4, <2>1, SetNewStateKeepsIInv
<1>6. AwaitInv' /\ \A q, d \in PID : Awaits(q, d)' => Awaits(q, d)
  <2>1. \A q \in PID : /\ state[q] = "none" => state'[q] = "none"
                       /\ state'[q] = "READY" => state[q] = "READY"
    BY <1>0, <1>3, <1>4
  <2>2. newPIDVal' >= newPIDVal /\ newPIDVal' \in Nat
    BY <1>2 DEF IInv, TypeOK
  <2>. QED  BY <1>2, <2>1, <2>2, NobodyWakes
<1>7. /\ sem'[s] \in Semaphore /\ sem'[s].value = 0 /\ sem'[s].listeners = sem[s].listeners
      /\ sem'[s].blockedPIDs = Append(sem[s].blockedPIDs, p)
      /\ \A u \in SemId \ {s} : sem'[u] = sem[u]
  <2>1. sem[s] \in Semaphore
    BY <1>0, <1>1 DEF SemTypeOK, Open
  <2>2. sem' = [sem EXCEPT ![s] = [sem[s] EXCEPT !.blockedPIDs = Enlisted(@, p)]]
    BY <1>2
  <2>. QED  BY <1>0, <1>1, <2>1, <2>2, EnlistedDoes DEF SemTypeOK
<1>8. Open' = Open
  BY <1>1, <1>7, SemAssumption DEF Open
<1>9. Line(s) \in Seq(PID) /\ Range(Line(s)) \subseteq PID /\ p \notin Range(Line(s)) /\ Distinct(Line(s))
  BY <1>0, <1>1, <1>3, LineMembers DEF SInv, LinesAreSets, Open
<1>10. Distinct(Line(s)') /\ Range(Line(s)') = Range(Line(s)) \cup {p}
  BY <1>7, <1>9, RangeAppend, DistinctAppend DEF Line
<1>11. \A q \in PID, u \in SemId : Listed(q, u)' <=> Listed(q, u) \/ (q = p /\ u = s)
  <2>1. ASSUME NEW q \in PID, NEW u \in SemId, u # s PROVE Listed(q, u)' <=> Listed(q, u)
    BY <1>7, <1>8, <2>1 DEF Listed
  <2>2. ASSUME NEW q \in PID PROVE Listed(q, s)' <=> Listed(q, s) \/ q = p
    BY <1>1, <1>8, <1>10 DEF Listed, Line
  <2>. QED  BY <2>1, <2>2
<1>12. \A q \in PID : waitsFor'[q] = (IF q = p THEN s ELSE waitsFor[q])
  BY <1>0, <1>2 DEF SemTypeOK
<1>13. Structure'
  <2>1. SemTypeOK'
    BY <1>0, <1>2, <1>7 DEF SemTypeOK
  <2>2. \A u \in SemId : Holders(u)' = Holders(u)
    BY <1>1, <1>2, <1>11 DEF Holders
  <2>3. OpenedExist' /\ HoldersListen'
    BY <1>1, <1>2, <1>7, <1>8, <2>2 DEF SInv, Structure, OpenedExist, HoldersListen, Open
  <2>4. NoTokenWhileWaiting'
    BY <1>7, <1>8 DEF SInv, Structure, NoTokenWhileWaiting, Open
  <2>. QED  BY <2>1, <2>3, <2>4 DEF Structure
<1>14. LinesAreSets'
  <2>1. ASSUME NEW u \in Open, u # s PROVE Line(u)' = Line(u)
    BY <1>7, <2>1 DEF Line, Open
  <2>2. ASSUME NEW u \in Open, NEW q \in PID, Listed(q, u)' PROVE q < newPIDVal'
    BY <1>2, <1>3, <1>11, <2>2 DEF SInv, LinesAreSets, Open
  <2>. QED  BY <1>8, <1>10, <2>1, <2>2 DEF SInv, LinesAreSets
<1>15. WaitersOpened' /\ WaitersStop'
  BY <1>0, <1>1, <1>2, <1>3, <1>4, <1>12 DEF SInv, WaitersOpened, WaitersStop, cpu
<1>16. OneReason'
  <2>1. \A d \in PID : ~ Awaits(p, d)
    BY <1>3 DEF AwaitInv, AwaitingStops
  <2>2. waitsFor'[IdlePid] = NoSem
    BY <1>3, <1>12, Pids DEF SInv, OneReason
  <2>3. ASSUME NEW q \in PID, NEW d \in PID, Awaits(q, d)' PROVE waitsFor'[q] = NoSem
    <3>1. Awaits(q, d) /\ q # p
      BY <1>6, <2>1, <2>3
    <3>. QED  BY <3>1, <1>12 DEF SInv, OneReason
  <2>. QED  BY <2>2, <2>3 DEF OneReason
<1>17. WaitersAreListed'
  BY <1>0, <1>3, <1>4, <1>11, <1>12 DEF SInv, WaitersAreListed, Alive
<1>18. NoTokenForged'
  <2>1. \A u \in SemId : Chosen(u)' = Chosen(u)
    BY <1>0, <1>3, <1>4, <1>12, SemAssumption DEF Chosen
  <2>. QED  BY <1>1, <1>2, <1>7, <1>8, <2>1 DEF SInv, NoTokenForged, Open
<1>. QED  BY <1>5, <1>6, <1>13, <1>14, <1>15, <1>16, <1>17, <1>18 DEF SInv

\* sPost on a semaphore nobody waits for.
LEMMA SPostKeptKeepsSInv ==
  ASSUME IInv, AwaitInv, SInv, NEW p \in PID, NEW s \in SemId, SPost(p, s), Line(s) = <<>>
  PROVE  IInv' /\ AwaitInv' /\ SInv'
<1>0. SemTypeOK
  BY DEF SInv, Structure
<1>1. /\ s \in Open /\ sem[s] \in Semaphore /\ sem[s].value < MAX_VALUE
      /\ sem' = [sem EXCEPT ![s] = Posted(sem[s])]
      /\ tokens' = [tokens EXCEPT ![s] = @ + 1]
      /\ UNCHANGED <<vars, waitsFor, opened>>
  BY <1>0 DEF SPost, Open, SemTypeOK, Line, vars
<1>2. /\ sem'[s] \in Semaphore /\ sem'[s].value = sem[s].value + 1
      /\ sem'[s].listeners = sem[s].listeners /\ sem'[s].blockedPIDs = sem[s].blockedPIDs
      /\ \A u \in SemId \ {s} : sem'[u] = sem[u]
  BY <1>0, <1>1, PostedDoes DEF SemTypeOK, Line
<1>3. Open' = Open
  BY <1>1, <1>2, SemAssumption DEF Open
<1>4. \A u \in Open : /\ sem'[u].blockedPIDs = sem[u].blockedPIDs
                      /\ sem'[u].listeners = sem[u].listeners
  BY <1>2 DEF Open
<1>5. \A q \in PID, u \in SemId : Listed(q, u)' <=> Listed(q, u)
  BY <1>3, <1>4 DEF Listed
<1>6. \A u \in SemId : Holders(u)' = Holders(u) /\ Chosen(u)' = Chosen(u)
  BY <1>1, <1>5 DEF Holders, Chosen, vars
<1>7. OpenedExist' /\ HoldersListen'
  BY <1>1, <1>3, <1>4, <1>6 DEF SInv, Structure, OpenedExist, HoldersListen, Open
<1>8. NoTokenWhileWaiting'
  <2>1. sem'[s].blockedPIDs = <<>>
    BY <1>2 DEF Line
  <2>. QED  BY <1>2, <1>3, <2>1 DEF SInv, Structure, NoTokenWhileWaiting, Open
<1>9. tokens'[s] = tokens[s] + 1 /\ tokens[s] \in Nat /\ \A u \in SemId \ {s} : tokens'[u] = tokens[u]
  BY <1>0, <1>1 DEF SemTypeOK
<1>10. NoTokenForged'
  <2>1. tokens[s] >= sem[s].value + Cardinality(Chosen(s))
    BY <1>1 DEF SInv, NoTokenForged
  <2>2. Cardinality(Chosen(s)) \in Nat /\ sem[s].value \in Nat
    BY <1>1, PidsAreFinite, SemAssumption DEF Chosen, Semaphore
  <2>3. tokens'[s] >= sem'[s].value + Cardinality(Chosen(s))
    BY <1>2, <1>9, <2>1, <2>2
  <2>4. ASSUME NEW u \in SemId
        PROVE  tokens'[u] >= (IF u \in Open' THEN sem'[u].value ELSE 0) + Cardinality(Chosen(u)')
    BY <1>1, <1>2, <1>3, <1>6, <1>9, <2>3 DEF SInv, NoTokenForged
  <2>. QED  BY <2>4 DEF NoTokenForged
<1>11. SemTypeOK'
  BY <1>0, <1>1, <1>2, <1>9 DEF SemTypeOK
<1>12. \A u \in Open' : Distinct(Line(u)')
  BY <1>3, <1>4 DEF SInv, LinesAreSets, Line
<1>13. \A q \in PID : waitsFor[q] # NoSem => waitsFor[q] \in opened'[q]
  BY <1>1 DEF SInv, WaitersOpened
<1>. QED  BY <1>1, <1>5, <1>7, <1>8, <1>10, <1>11, <1>12, <1>13, QuietCall, FramedCall DEF Structure

\* sPost to the longest waiter.  If it is dead the token is lost; if it is alive it
\* is blocked in this sWait, and wakes.
LEMMA SPostGivenKeepsSInv ==
  ASSUME IInv, AwaitInv, SInv, NEW p \in PID, NEW s \in SemId, SPost(p, s), Line(s) # <<>>
  PROVE  IInv' /\ AwaitInv' /\ SInv'
<1>. DEFINE h == Head(Line(s))
<1>0. SemTypeOK /\ state \in [PID -> State]
  BY DEF SInv, Structure, IInv, TypeOK
<1>1. /\ s \in Open /\ sem[s] \in Semaphore /\ sem[s].value < MAX_VALUE
      /\ sem' = [sem EXCEPT ![s] = Posted(sem[s])]
      /\ tokens' = [tokens EXCEPT ![s] = @ + 1]
      /\ SetNewState(h, "READY") /\ mode = "user" /\ p = currentProcess
      /\ UNCHANGED <<waitsFor, opened, newPIDVal, ppid, fg, priority, queue, cpu, mode, returned>>
  BY <1>0 DEF SPost, Open, SemTypeOK, Line, pcb, Uses, SemCalling
<1>2. /\ Line(s) \in Seq(PID) /\ Distinct(Line(s)) /\ h \in PID /\ Listed(h, s)
      /\ Range(Tail(Line(s))) = Range(Line(s)) \ {h} /\ Distinct(Tail(Line(s)))
  <2>1. Line(s) \in Seq(PID) /\ Distinct(Line(s)) /\ \A q : Listed(q, s) <=> q \in Range(Line(s))
    BY <1>0, <1>1, LineMembers DEF SInv, LinesAreSets
  <2>. QED  BY <2>1, RangeTail
<1>3. /\ sem'[s] \in Semaphore /\ sem'[s].value = sem[s].value
      /\ sem'[s].listeners = sem[s].listeners /\ sem'[s].blockedPIDs = Tail(Line(s))
      /\ \A u \in SemId \ {s} : sem'[u] = sem[u]
  BY <1>0, <1>1, PostedDoes DEF SemTypeOK, Line
<1>. HIDE DEF h
<1>4. /\ Alive(h) => state[h] = "BLOCKED" /\ waitsFor[h] = s /\ h # IdlePid
      /\ ~ Alive(h) => state[h] \in {"KILLED", "none"}
  BY <1>0, <1>2, Pids DEF SInv, WaitersAreListed, IInv, IdleIsReady, Alive, State
<1>5. state' = [state EXCEPT ![h] = IF Alive(h) THEN "READY" ELSE @]
  <2>1. CASE Alive(h)
    <3>1. Settable(h)
      BY <1>2, <1>4, <2>1 DEF IInv, InOnePlace, Settable
    <3>. QED  BY <1>1, <2>1, <3>1 DEF SetNewState
  <2>2. CASE ~ Alive(h)
    <3>1. ~ Settable(h)
      BY <1>2, <1>4, <2>2, Pids DEF IInv, InOnePlace, Settable, IdleIsReady
    <3>2. state' = state
      BY <1>1, <3>1 DEF SetNewState
    <3>. QED  BY <1>0, <2>2, <3>2
  <2>. QED  BY <2>1, <2>2
<1>6. IInv'
  <2>1. fg' \in [PID -> {0, 1}]
    BY <1>1 DEF IInv, TypeOK
  <2>. QED  BY <1>1, <1>2, <2>1, SetNewStateKeepsIInv
<1>7. \A q, d \in PID : Awaits(q, d)' <=> Awaits(q, d)
  BY <1>0, <1>1, <1>2, <1>4, <1>5 DEF Awaits, Alive
<1>8. AwaitInv'
  <2>1. ParentsFirst'
    BY <1>1 DEF AwaitInv, ParentsFirst
  <2>2. ASSUME NEW q \in PID \ {IdlePid}, state'[q] = "READY"
        PROVE  state[q] = "READY" \/ \A d \in PID : ~ Awaits(q, d)'
    <3>1. state[q] = "READY" \/ (q = h /\ Alive(h))
      BY <1>0, <1>5, <2>2
    <3>2. waitsFor[h] = s /\ s # NoSem => \A d \in PID : ~ Awaits(h, d)
      BY <1>2 DEF SInv, OneReason
    <3>. QED  BY <1>1, <1>4, <1>7, <3>1, <3>2, SemAssumption DEF Open
  <2>. QED  BY <1>7, <2>1, <2>2, FewerAwaited
<1>9. Open' = Open
  BY <1>1, <1>3, SemAssumption DEF Open
<1>10. \A q \in PID, u \in SemId : Listed(q, u)' <=> Listed(q, u) /\ ~ (q = h /\ u = s)
  <2>1. ASSUME NEW q \in PID, NEW u \in SemId, u # s PROVE Listed(q, u)' <=> Listed(q, u)
    BY <1>3, <1>9, <2>1 DEF Listed
  <2>2. ASSUME NEW q \in PID PROVE Listed(q, s)' <=> Listed(q, s) /\ q # h
    BY <1>1, <1>2, <1>3, <1>9 DEF Listed, Line
  <2>. QED  BY <2>1, <2>2
<1>11. tokens'[s] = tokens[s] + 1 /\ tokens[s] \in Nat /\ \A u \in SemId \ {s} : tokens'[u] = tokens[u]
  BY <1>0, <1>1 DEF SemTypeOK
<1>12. Structure'
  <2>1. SemTypeOK'
    BY <1>0, <1>1, <1>3, <1>11 DEF SemTypeOK
  <2>2. \A u \in SemId : Holders(u)' \subseteq Holders(u) /\ Holders(u) \subseteq PID
    BY <1>1, <1>10 DEF Holders
  <2>3. \A u \in SemId : Cardinality(Holders(u)') <= Cardinality(Holders(u))
                         /\ Cardinality(Holders(u)) \in Nat /\ Cardinality(Holders(u)') \in Nat
    BY <2>2, FewerPids
  <2>4. OpenedExist'
    BY <1>1, <1>9 DEF SInv, Structure, OpenedExist
  <2>5. \A u \in Open : sem'[u].listeners = sem[u].listeners
    BY <1>3 DEF Open
  <2>6. HoldersListen'
    BY <1>9, <2>3, <2>5, SemAssumption DEF SInv, Structure, HoldersListen, Open
  <2>7. sem[s].value = 0
    BY <1>1, SemAssumption DEF SInv, Structure, NoTokenWhileWaiting, Line, Semaphore
  <2>8. NoTokenWhileWaiting'
    BY <1>3, <1>9, <2>7 DEF SInv, Structure, NoTokenWhileWaiting, Open
  <2>. QED  BY <2>1, <2>4, <2>6, <2>8 DEF Structure
<1>13. LinesAreSets'
  <2>1. ASSUME NEW u \in Open, u # s PROVE Line(u)' = Line(u)
    BY <1>3, <2>1 DEF Line, Open
  <2>2. Distinct(Line(s)')
    BY <1>2, <1>3 DEF Line
  <2>3. ASSUME NEW u \in Open, NEW q \in PID, Listed(q, u)' PROVE q < newPIDVal'
    BY <1>1, <1>10, <2>3 DEF SInv, LinesAreSets, Open
  <2>. QED  BY <1>9, <2>1, <2>2, <2>3 DEF SInv, LinesAreSets
<1>14. WaitersOpened' /\ OneReason'
  BY <1>0, <1>1, <1>5, <1>7 DEF SInv, WaitersOpened, OneReason
<1>15. WaitersStop'
  BY <1>1 DEF SInv, WaitersStop, cpu
<1>16. WaitersAreListed'
  <2>1. ASSUME NEW q \in PID, NEW u \in SemId, Alive(q)'
        PROVE  Listed(q, u)' <=> state'[q] = "BLOCKED" /\ waitsFor'[q] = u
    <3>1. CASE q # h
      BY <1>0, <1>1, <1>5, <1>10, <2>1, <3>1 DEF SInv, WaitersAreListed, Alive
    <3>2. CASE q = h
      <4>1. Alive(h) /\ state'[h] = "READY"
        BY <1>0, <1>2, <1>4, <1>5, <2>1, <3>2 DEF Alive
      <4>2. Listed(h, u) => u = s
        BY <1>2, <1>4, <4>1 DEF SInv, WaitersAreListed
      <4>. QED  BY <1>10, <3>2, <4>1, <4>2
    <3>. QED  BY <3>1, <3>2
  <2>. QED  BY <2>1 DEF WaitersAreListed
<1>17. NoTokenForged'
  <2>1. \A u \in SemId \ {s} : Chosen(u)' = Chosen(u)
    BY <1>0, <1>1, <1>2, <1>4, <1>5 DEF Chosen
  <2>2. Chosen(s)' \subseteq Chosen(s) \cup {h}
    BY <1>0, <1>1, <1>2, <1>5 DEF Chosen
  <2>3. Chosen(s) \subseteq PID /\ Cardinality(Chosen(s)) \in Nat
    BY PidsAreFinite DEF Chosen
  <2>4. Cardinality(Chosen(s) \cup {h}) = Cardinality(Chosen(s)) + (IF h \in Chosen(s) THEN 0 ELSE 1)
    BY <1>2, <2>3, CountChange
  <2>5. Chosen(s) \cup {h} \subseteq PID
    BY <1>2, <2>3
  <2>6. Cardinality(Chosen(s)') <= Cardinality(Chosen(s) \cup {h}) /\ Cardinality(Chosen(s)') \in Nat
    BY <2>2, <2>5, FewerPids
  <2>7. Cardinality(Chosen(s)') <= Cardinality(Chosen(s)) + 1
    BY <2>3, <2>4, <2>6
  <2>8. sem[s].value \in Nat /\ tokens[s] >= sem[s].value + Cardinality(Chosen(s))
    BY <1>1, SemAssumption DEF SInv, NoTokenForged, Semaphore
  <2>9. tokens'[s] >= sem'[s].value + Cardinality(Chosen(s)')
    BY <1>3, <1>11, <2>3, <2>6, <2>7, <2>8
  <2>10. ASSUME NEW u \in SemId
         PROVE  tokens'[u] >= (IF u \in Open' THEN sem'[u].value ELSE 0) + Cardinality(Chosen(u)')
    BY <1>1, <1>3, <1>9, <1>11, <2>1, <2>9 DEF SInv, NoTokenForged
  <2>. QED  BY <2>10 DEF NoTokenForged
<1>. QED  BY <1>6, <1>8, <1>12, <1>13, <1>14, <1>15, <1>16, <1>17 DEF SInv

-----------------------------------------------------------------------------
(***************************************************************************)
(* The steps of the process table, as the semaphores see them: only those  *)
(* who await a child are woken, only the running process stops, and the    *)
(* CPU goes to a READY process.                                            *)
(***************************************************************************)
Orderly(p) ==
  /\ state[p] = "BLOCKED" /\ state'[p] = "READY" => \E c \in PID : Awaits(p, c)
  /\ state[p] = "READY" /\ state'[p] = "BLOCKED" => p = currentProcess /\ mode = "user"
  /\ state[p] = "none" => state'[p] \in {"none", "READY"}
  /\ currentProcess' = p /\ p # IdlePid
       => state[p] = "READY" \/ (p = currentProcess /\ mode # "tick")

\* A system call.
LEMMA CallIsOrderly ==
  ASSUME IInv, AwaitInv, NobodyMeddles, NEW c \in PID, SystemCall(c), NEW p \in PID
  PROVE  Orderly(p) /\ newPIDVal' >= newPIDVal
<1>0. state \in [PID -> State] /\ newPIDVal \in Nat
  BY DEF IInv, TypeOK
<1>1. c = currentProcess /\ state[c] = "READY" /\ mode = "user" /\ currentProcess' = currentProcess
      /\ newPIDVal' \in {newPIDVal, newPIDVal + 1}
  BY CallerRuns DEF SystemCall, AddProcess, AddProcessFails, Kill, Fault, Block, Nice, Yield,
     WaitForPID, Exit, Calling, KillProcess, cpu
<1>2. ASSUME NEW asked \in {0, 1}, AddProcess(c, asked) PROVE Orderly(p)
  <2>1. newPIDVal \in PID /\ state[newPIDVal] = "none"
    BY <1>2 DEF AddProcess, IInv, Fresh, TypeOK
  <2>2. state' = [state EXCEPT ![newPIDVal] = "READY",
                               ![c] = IF Waits(c, asked) THEN "BLOCKED" ELSE @]
    BY <1>2 DEF AddProcess
  <2>. QED  BY <1>0, <1>1, <2>1, <2>2 DEF Orderly
<1>3. ASSUME NEW pid \in PID, WaitForPID(c, pid) PROVE Orderly(p)
  BY <1>0, <1>1, <1>3 DEF WaitForPID, SetNewState, Orderly
<1>4. ASSUME NEW pid \in PID, Block(c, pid) PROVE FALSE
  BY <1>4 DEF Block, Calling, NobodyMeddles
<1>5. ASSUME NEW pid \in PID,
             Kill(c, pid) \/ Fault(c) \/ Exit(c) \/ AddProcessFails(c) \/ Yield(c)
               \/ \E prio \in -1 .. PRIO_CAP + 1 : Nice(c, pid, prio)
      PROVE  Orderly(p)
  <2>1. state' = state \/ \E q \in PID : Exists(q) /\ q # IdlePid /\ state' = [state EXCEPT ![q] = "KILLED"]
    BY <1>1, <1>5, CallerRuns DEF Kill, Fault, Exit, KillProcess, SetNewState, Settable, Killable, Exists,
       AddProcessFails, Yield, Nice, Shell, IdlePid, IInv, TypeOK
  <2>. QED  BY <1>0, <1>1, <2>1 DEF Orderly, IInv, InOnePlace
<1>. QED  BY <1>0, <1>1, <1>2, <1>3, <1>4, <1>5 DEF SystemCall

\* An interrupt, or a step of the scheduler.
LEMMA OtherStepIsOrderly ==
  ASSUME IInv, AwaitInv, NobodyMeddles, Interrupt \/ scheduler \/ Wild, NEW p \in PID
  PROVE  Orderly(p) /\ newPIDVal' >= newPIDVal
<1>0. state \in [PID -> State] /\ newPIDVal \in Nat
  BY DEF IInv, TypeOK
<1>1. newPIDVal' >= newPIDVal
  BY <1>0 DEF Interrupt, TimerTick, CtrlC, KillProcess, Unblock, scheduler, schedulerLoop, KeepRunning,
     LeaveIdle, Requeue, FreeCurrent, RunHead, RotateHead, ReapHead, RunIdle, PutAway, Wild, vars
<1>. SUFFICES Orderly(p)
  BY <1>1
<1>2. CASE CtrlC
  <2>1. /\ state' \in {state, [state EXCEPT ![currentProcess] = "KILLED"]}
        /\ currentProcess' = currentProcess /\ mode # "tick" /\ state[currentProcess] = "READY"
    BY <1>2 DEF CtrlC, KillProcess, SetNewState, cpu, FgTarget
  <2>. QED  BY <1>0, <2>1 DEF Orderly
<1>3. ASSUME NEW pid \in PID, Unblock(pid) PROVE FALSE
  BY <1>3 DEF Unblock, NobodyMeddles
<1>4. CASE TimerTick \/ RotateHead \/ Wild
  BY <1>0, <1>4 DEF TimerTick, RotateHead, Searching, Wild, vars, cpu, Orderly
<1>5. CASE KeepRunning \/ RunHead \/ RunIdle
  BY <1>0, <1>5 DEF KeepRunning, QuantumLeft, RunHead, Searching, RunIdle, GiveCpu, Orderly
<1>6. CASE LeaveIdle \/ Requeue
  BY <1>0, <1>6, Pids DEF LeaveIdle, Requeue, PutAway, Orderly
<1>7. CASE FreeCurrent
  <2>1. currentProcess' = NoProc
    BY <1>7 DEF FreeCurrent, PutAway
  <2>2. LET c == currentProcess IN
        /\ c \in PID /\ state[c] = "KILLED" /\ state'[c] = "none"
        /\ \A q \in PID \ {c} : state'[q] = IF Awaits(q, c) /\ state[q] = "BLOCKED" THEN "READY"
                                            ELSE state[q]
    BY <1>7, FreeCurrentWakes
  <2>. QED  BY <2>1, <2>2, Pids DEF Orderly
<1>8. CASE ReapHead
  <2>1. /\ Head(queue) \in PID /\ state' = [state EXCEPT ![Head(queue)] = "none"]
        /\ currentProcess' = currentProcess /\ mode = "dispatch"
    BY <1>8, SearchFindsHead DEF ReapHead, Searching, cpu
  <2>. QED  BY <1>0, <2>1 DEF Orderly
<1>. QED  BY <1>2, <1>3, <1>4, <1>5, <1>6, <1>7, <1>8 DEF Interrupt, scheduler, schedulerLoop

\* Whoever gets the CPU inside sWait was chosen by a post.
LEMMA WhoReturns ==
  ASSUME IInv, AwaitInv, WaitersStop, OneReason, NobodyMeddles, Next, NEW p \in PID, Returns(p)
  PROVE  state[p] = "READY" /\ currentProcess' = p
<1>1. Orderly(p)
  BY CallIsOrderly, OtherStepIsOrderly DEF Next
<1>2. p # IdlePid
  BY DEF Returns, OneReason
<1>. QED  BY <1>1, <1>2 DEF Returns, Orderly, WaitersStop

\* A step of the process table.
LEMMA SchedulerStepKeepsSInv ==
  ASSUME IInv, AwaitInv, SInv, Disciplined, SchedulerStep
  PROVE  IInv' /\ AwaitInv' /\ SInv'
<1>0. SemTypeOK /\ state \in [PID -> State] /\ newPIDVal \in Nat
  BY DEF SInv, Structure, IInv, TypeOK
<1>1. /\ Next /\ sem' = sem
      /\ \A p \in PID : /\ waitsFor'[p] = IF Returns(p) \/ state'[p] = "none" THEN NoSem
                                          ELSE waitsFor[p]
                        /\ opened'[p] = IF state'[p] = "none" THEN {} ELSE opened[p]
  BY DEF SchedulerStep
<1>2. IInv'
  BY <1>1, StepIInv
<1>3. AwaitInv' /\ \A q, d \in PID : Awaits(q, d)' => Awaits(q, d) \/ (q = currentProcess /\ mode = "user")
  BY <1>1, StepAwaits DEF Disciplined, NobodyMeddles
<1>4. newPIDVal' >= newPIDVal /\ \A p \in PID : Orderly(p) /\ StaysDead(p)
  <2>1. \A p \in PID : Orderly(p) /\ newPIDVal' >= newPIDVal
    BY <1>1, CallIsOrderly, OtherStepIsOrderly DEF Next, Disciplined
  <2>2. \A p \in PID : StaysDead(p)
    BY <1>1, StepKeepsDead
  <2>. QED  BY <2>1, <2>2, Pids
<1>5. newPIDVal' \in Nat /\ state' \in [PID -> State]
  BY <1>2 DEF IInv, TypeOK
<1>6. Open' = Open /\ \A p, s : Listed(p, s)' <=> Listed(p, s)
  BY <1>1 DEF Open, Listed
<1>7. \A p \in PID : /\ waitsFor'[p] # NoSem => waitsFor'[p] = waitsFor[p]
                     /\ opened'[p] \subseteq opened[p]
  BY <1>1
<1>8. LinesAreSets'
  <2>1. ASSUME NEW s \in Open, NEW p \in PID, Listed(p, s) PROVE p < newPIDVal'
    BY <1>0, <1>4, <1>5, <2>1 DEF SInv, LinesAreSets, PID
  <2>. QED  BY <1>1, <1>6, <2>1 DEF SInv, LinesAreSets, Line
<1>9. WaitersOpened' /\ WaitersStop'
  BY <1>1 DEF SInv, WaitersOpened, WaitersStop, Returns
<1>10. OneReason'
  <2>1. waitsFor'[IdlePid] = NoSem
    BY <1>7, Pids DEF SInv, OneReason
  <2>2. ASSUME NEW p \in PID, NEW c \in PID, Awaits(p, c)' PROVE waitsFor'[p] = NoSem
    BY <1>3, <1>7, <2>2 DEF SInv, OneReason, WaitersStop
  <2>. QED  BY <2>1, <2>2 DEF OneReason
<1>11. WaitersAreListed'
  <2>1. ASSUME NEW p \in PID, NEW s \in SemId, Alive(p)'
        PROVE  Listed(p, s) <=> state'[p] = "BLOCKED" /\ waitsFor'[p] = s
    <3>1. s # NoSem
      BY SemAssumption
    <3>2. waitsFor'[p] = IF Returns(p) THEN NoSem ELSE waitsFor[p]
      BY <1>1, <2>1 DEF Alive
    <3>3. Orderly(p) /\ StaysDead(p)
      BY <1>4
    <3>4. CASE ~ Alive(p)
      <4>1. state[p] = "none" /\ state'[p] = "READY" /\ ~ (p < newPIDVal)
        BY <1>0, <2>1, <3>3, <3>4 DEF Alive, StaysDead, Orderly, State
      <4>2. ~ Listed(p, s)
        BY <4>1 DEF SInv, LinesAreSets, Listed
      <4>. QED  BY <4>1, <4>2
    <3>5. CASE Alive(p) /\ state'[p] = "READY"
      <4>1. ~ Listed(p, s)
        <5>1. state[p] = "BLOCKED" => waitsFor[p] = NoSem
          BY <3>3, <3>5 DEF Orderly, SInv, OneReason
        <5>. QED  BY <3>1, <3>5, <5>1 DEF SInv, WaitersAreListed
      <4>. QED  BY <3>5, <4>1
    <3>6. CASE Alive(p) /\ state'[p] = "BLOCKED"
      <4>1. CASE state[p] = "READY"
        <5>1. waitsFor[p] = NoSem /\ ~ Listed(p, s)
          BY <3>3, <3>6, <4>1 DEF Orderly, SInv, WaitersStop, WaitersAreListed, Alive
        <5>. QED  BY <3>1, <3>2, <5>1
      <4>2. CASE state[p] = "BLOCKED"
        <5>1. ~ Returns(p)
          BY <1>1, <4>2, WhoReturns DEF SInv, Disciplined
        <5>. QED  BY <3>2, <3>6, <4>2, <5>1 DEF SInv, WaitersAreListed
      <4>. QED  BY <3>6, <4>1, <4>2 DEF Alive
    <3>. QED  BY <2>1, <3>4, <3>5, <3>6 DEF Alive
  <2>. QED  BY <1>6, <2>1 DEF WaitersAreListed
<1>12. ASSUME NEW s \in SemId
       PROVE  /\ tokens'[s] \in Nat
              /\ tokens'[s] >= (IF s \in Open THEN sem[s].value ELSE 0) + Cardinality(Chosen(s)')
  <2>. DEFINE R == {p \in PID : Returns(p) /\ waitsFor[p] = s}
              V == IF s \in Open THEN sem[s].value ELSE 0
  <2>1. tokens'[s] = tokens[s] - Cardinality(R)
    BY DEF SchedulerStep
  <2>2. tokens[s] >= V + Cardinality(Chosen(s)) /\ tokens[s] \in Nat
    BY <1>0 DEF SInv, NoTokenForged, SemTypeOK
  <2>3. V \in Nat
    BY <1>0, SemAssumption DEF SemTypeOK, Open, Semaphore
  <2>4. Chosen(s) \subseteq PID /\ Cardinality(Chosen(s)) \in Nat
    BY PidsAreFinite DEF Chosen
  <2>5. Chosen(s)' \subseteq Chosen(s) \ R
    <3>1. ASSUME NEW p \in PID, waitsFor'[p] = s, state'[p] = "READY"
          PROVE  waitsFor[p] = s /\ state[p] = "READY" /\ ~ Returns(p)
      <4>1. s # NoSem
        BY SemAssumption
      <4>2. waitsFor[p] = s /\ ~ Returns(p)
        BY <1>1, <3>1, <4>1
      <4>3. state[p] # "none"
        BY <4>1, <4>2 DEF SInv, WaitersOpened
      <4>4. state[p] # "KILLED"
        BY <1>4, <3>1 DEF StaysDead
      <4>5. state[p] # "BLOCKED"
        BY <1>4, <3>1, <4>1, <4>2 DEF Orderly, SInv, OneReason
      <4>. QED  BY <1>0, <4>2, <4>3, <4>4, <4>5 DEF State
    <3>. QED  BY <3>1 DEF Chosen
  <2>6. Cardinality(Chosen(s)') <= Cardinality(Chosen(s) \ R) /\ Cardinality(Chosen(s)') \in Nat
    BY <2>4, <2>5, FewerPids
  <2>7. Cardinality(Chosen(s) \ R) = Cardinality(Chosen(s)) - Cardinality(R) /\ Cardinality(R) \in Nat
    <3>1. CASE R = {}
      BY <2>4, <3>1, FS_EmptySet
    <3>2. CASE R # {}
      <4>1. PICK p \in R : TRUE
        BY <3>2
      <4>2. p \in PID /\ R = {p} /\ p \in Chosen(s)
        BY <1>1, <4>1, WhoReturns DEF Chosen, SInv, Disciplined
      <4>3. Cardinality(Chosen(s) \ {p}) = Cardinality(Chosen(s)) - (IF p \in Chosen(s) THEN 1 ELSE 0)
        BY <2>4, <4>2, CountChange
      <4>4. Cardinality(R) = 1
        BY <4>2, FS_Singleton
      <4>. QED  BY <4>2, <4>3, <4>4
    <3>. QED  BY <3>1, <3>2
  <2>. HIDE DEF R, V
  <2>8. tokens'[s] >= V + Cardinality(Chosen(s)') /\ tokens'[s] \in Nat
    BY <2>1, <2>2, <2>3, <2>4, <2>6, <2>7
  <2>. QED  BY <2>8 DEF V
<1>13. NoTokenForged'
  BY <1>1, <1>6, <1>12 DEF NoTokenForged
<1>14. Structure'
  <2>1. SemTypeOK'
    <3>1. waitsFor' \in [PID -> SemId \cup {NoSem}] /\ opened' \in [PID -> SUBSET SemId]
      BY <1>0 DEF SchedulerStep, SemTypeOK
    <3>2. tokens' \in [SemId -> Nat]
      BY <1>12 DEF SchedulerStep
    <3>. QED  BY <1>0, <1>1, <3>1, <3>2 DEF SemTypeOK
  <2>2. OpenedExist'
    BY <1>6, <1>7 DEF SInv, Structure, OpenedExist
  <2>3. HoldersListen'
    <3>1. \A s \in SemId : Holders(s)' \subseteq Holders(s) /\ Holders(s) \subseteq PID
      BY <1>6, <1>7 DEF Holders
    <3>2. \A s \in SemId : Cardinality(Holders(s)') <= Cardinality(Holders(s))
                           /\ Cardinality(Holders(s)) \in Nat /\ Cardinality(Holders(s)') \in Nat
      BY <3>1, FewerPids
    <3>. QED  BY <1>1, <1>6, <3>2, SemAssumption DEF SInv, Structure, HoldersListen, Open
  <2>4. NoTokenWhileWaiting'
    BY <1>1, <1>6 DEF SInv, Structure, NoTokenWhileWaiting
  <2>. QED  BY <2>1, <2>2, <2>3, <2>4 DEF Structure
<1>. QED  BY <1>2, <1>3, <1>8, <1>9, <1>10, <1>11, <1>13, <1>14 DEF SInv

-----------------------------------------------------------------------------
(***************************************************************************)
(* The invariant.                                                          *)
(***************************************************************************)
\* At the start there are no semaphores.
LEMMA InitSInv == SemInit => IInv /\ AwaitInv /\ SInv
<1>. SUFFICES ASSUME SemInit PROVE IInv /\ AwaitInv /\ SInv
  OBVIOUS
<1>1. IInv /\ AwaitInv /\ ParentsFirst
  BY InitIInv, InitWInv DEF SemInit, WInv, AwaitInv
<1>2. Open = {} /\ \A s \in SemId : Chosen(s) = {}
  BY SemAssumption DEF SemInit, Open, Chosen
<1>3. Structure /\ LinesAreSets /\ WaitersOpened /\ WaitersStop /\ OneReason
  BY <1>2, Pids DEF SemInit, Structure, SemTypeOK, OpenedExist, HoldersListen, NoTokenWhileWaiting,
     LinesAreSets, WaitersOpened, WaitersStop, OneReason
<1>4. WaitersAreListed
  BY <1>2, SemAssumption DEF SemInit, WaitersAreListed, Listed
<1>5. NoTokenForged
  <2>1. ASSUME NEW s \in SemId PROVE tokens[s] = 0 /\ Cardinality(Chosen(s)) = 0 /\ s \notin Open
    BY <1>2, FS_EmptySet DEF SemInit
  <2>. QED  BY <2>1 DEF NoTokenForged
<1>. QED  BY <1>1, <1>3, <1>4, <1>5 DEF SInv

\* Every step keeps the invariant.
LEMMA StepSInv ==
  ASSUME Disciplined
  PROVE  IInv /\ AwaitInv /\ SInv /\ [SemNext]_allVars => IInv' /\ AwaitInv' /\ SInv'
<1>. SUFFICES ASSUME IInv, AwaitInv, SInv, [SemNext]_allVars
              PROVE  IInv' /\ AwaitInv' /\ SInv'
  OBVIOUS
<1>1. CASE UNCHANGED allVars
  BY <1>1, SemStutter, FramedCall DEF allVars
<1>2. CASE SchedulerStep
  BY <1>2, SchedulerStepKeepsSInv
<1>3. ASSUME NEW p \in PID, NEW s \in SemId, NEW v \in InitValues, SOpen(p, s, v)
      PROVE  IInv' /\ AwaitInv' /\ SInv'
  BY <1>3, SOpenKeepsSInv, FramedCall DEF SOpen
<1>4. ASSUME NEW p \in PID, NEW s \in SemId, SWaitPasses(p, s) PROVE IInv' /\ AwaitInv' /\ SInv'
  BY <1>4, SWaitPassesKeepsSInv, FramedCall DEF SWaitPasses
<1>5. ASSUME NEW p \in PID, NEW s \in SemId, SWaitBlocks(p, s) PROVE IInv' /\ AwaitInv' /\ SInv'
  BY <1>5, SWaitBlocksKeepsSInv
<1>6. ASSUME NEW p \in PID, NEW s \in SemId, SPost(p, s) PROVE IInv' /\ AwaitInv' /\ SInv'
  BY <1>6, SPostKeptKeepsSInv, SPostGivenKeepsSInv
<1>7. ASSUME NEW p \in PID, NEW s \in SemId, SClose(p, s) PROVE IInv' /\ AwaitInv' /\ SInv'
  BY <1>7, SCloseKeepsSInv, FramedCall DEF SClose
<1>. QED  BY <1>1, <1>2, <1>3, <1>4, <1>5, <1>6, <1>7 DEF SemNext, SemCall

-----------------------------------------------------------------------------
(***************************************************************************)
(* The refinement.                                                         *)
(***************************************************************************)
\* Whoever makes a call is not in a line.
LEMMA CallerIsAwake ==
  ASSUME IInv, SInv, NEW p \in PID, NEW call, SemCalling(p, call)
  PROVE  ~ Promise!Asleep(p)
<1>1. \A s \in SemId : s \in Open => p \notin Range(sem[s].blockedPIDs)
  BY CallerIsFree DEF Listed
<1>. QED  BY <1>1 DEF Promise!Asleep, Promise!Range, Range, Open

\* sOpen.  A semaphore that does not exist has no listeners, so it is never full.
LEMMA SOpenImplements ==
  ASSUME IInv, SInv, NEW p \in PID, NEW s \in SemId, NEW v \in InitValues, SOpen(p, s, v)
  PROVE  sem' = Promise!AfterOpen(sem, s, v)
<1>0. SemTypeOK /\ MAX_BLOCKED_PIDS \in Nat \ {0}
  BY SemAssumption DEF SInv, Structure
<1>1. CASE s \notin Open
  <2>1. sem[s] = NoSem /\ ~ Full(Found(s, v))
    BY <1>0, <1>1 DEF Open, Full, Found
  <2>2. sem' = [sem EXCEPT ![s] = [value |-> v, listeners |-> 0 + 1, blockedPIDs |-> <<>>]]
    BY <2>1 DEF SOpen, Found
  <2>. QED  BY <2>1, <2>2 DEF Promise!AfterOpen, Promise!Refused
<1>2. CASE s \in Open
  <2>1. sem[s] # NoSem /\ Found(s, v) = sem[s]
    BY <1>2 DEF Open, Found
  <2>2. CASE Full(sem[s])
    BY <2>1, <2>2 DEF SOpen, Full, Promise!AfterOpen, Promise!Refused
  <2>3. CASE ~ Full(sem[s])
    <3>1. sem' = [sem EXCEPT ![s] = [sem[s] EXCEPT !.listeners = sem[s].listeners + 1]]
      BY <2>1, <2>3 DEF SOpen
    <3>. QED  BY <2>1, <2>3, <3>1 DEF Full, Promise!AfterOpen, Promise!Refused
  <2>. QED  BY <2>2, <2>3
<1>. QED  BY <1>1, <1>2

\* Every step is a call of the promise, made by somebody who is awake, or changes
\* nothing that it speaks of.
LEMMA StepImplements ==
  ASSUME IInv, AwaitInv, SInv, Disciplined, [SemNext]_allVars
  PROVE  Promise!SyncNext \/ UNCHANGED sem
<1>0. SemTypeOK
  BY DEF SInv, Structure
<1>1. ASSUME NEW p \in PID, NEW s \in SemId, NEW v \in InitValues, SOpen(p, s, v)
      PROVE  Promise!SyncNext
  <2>1. ~ Promise!Asleep(p)
    BY <1>1, CallerIsAwake DEF SOpen
  <2>. QED  BY <1>1, <2>1, SOpenImplements DEF Promise!SyncNext
<1>2. ASSUME NEW p \in PID, NEW s \in SemId, SWaitPasses(p, s) \/ SWaitBlocks(p, s)
      PROVE  Promise!SyncNext
  <2>1. ~ Promise!Asleep(p)
    BY <1>2, CallerIsAwake, WaitersUseWhatTheyOpened DEF SWaitPasses, SWaitBlocks
  <2>2. sem' = Promise!AfterWait(sem, s, p)
    BY <1>2 DEF SWaitPasses, SWaitBlocks, Enlisted, Promise!AfterWait, Promise!Sleeps
  <2>. QED  BY <2>1, <2>2 DEF Promise!SyncNext
<1>3. ASSUME NEW p \in PID, NEW s \in SemId, SPost(p, s) PROVE Promise!SyncNext
  <2>1. ~ Promise!Asleep(p)
    BY <1>3, CallerIsAwake DEF SPost, Uses
  <2>2. sem' = Promise!AfterPost(sem, s)
    BY <1>3 DEF SPost, Posted, Promise!AfterPost, Promise!Given
  <2>. QED  BY <2>1, <2>2 DEF Promise!SyncNext
<1>4. ASSUME NEW p \in PID, NEW s \in SemId, SClose(p, s) PROVE Promise!SyncNext
  <2>1. ~ Promise!Asleep(p) /\ s \in opened[p] /\ ~ Listed(p, s)
    BY <1>4, CallerIsAwake, CallerIsFree DEF SClose
  <2>2. s \in Open
    BY <2>1 DEF SInv, Structure, OpenedExist
  <2>3. sem' = Promise!AfterClose(sem, s) /\ sem[s] # NoSem
    BY <1>4, <2>2 DEF SClose, LastListener, Promise!AfterClose, Open
  <2>4. sem[s].listeners = 1 => sem[s].blockedPIDs = <<>>
    <3>1. ASSUME sem[s].listeners = 1, sem[s].blockedPIDs # <<>> PROVE FALSE
      <4>1. Holders(s) = {p}
        BY <2>1, <3>1, LastHolder
      <4>2. Line(s) \in Seq(PID) /\ \A q : Listed(q, s) <=> q \in Range(Line(s))
        BY <1>0, <2>2, LineMembers
      <4>3. Head(Line(s)) \in PID /\ Listed(Head(Line(s)), s)
        <5>1. 1 \in DOMAIN Line(s) /\ Head(Line(s)) = Line(s)[1]
          BY <3>1, <4>2 DEF Line
        <5>. QED  BY <4>2, <5>1 DEF Range
      <4>. QED  BY <2>1, <4>1, <4>3 DEF Holders
    <3>. QED  BY <3>1
  <2>. QED  BY <2>1, <2>3, <2>4 DEF Promise!SyncNext
<1>5. SchedulerStep => UNCHANGED sem
  BY DEF SchedulerStep
<1>6. UNCHANGED allVars => UNCHANGED sem
  BY DEF allVars, semVars
<1>. QED  BY <1>1, <1>2, <1>3, <1>4, <1>5, <1>6 DEF SemNext, SemCall

-----------------------------------------------------------------------------
(***************************************************************************)
(* The theorems.                                                           *)
(***************************************************************************)
\* The invariant holds always.
LEMMA SemInvariance == Disciplined => (SemSpec => [](IInv /\ AwaitInv /\ SInv))
<1>. SUFFICES ASSUME Disciplined PROVE SemSpec => [](IInv /\ AwaitInv /\ SInv)
  OBVIOUS
<1>1. IInv /\ AwaitInv /\ SInv /\ [SemNext]_allVars => IInv' /\ AwaitInv' /\ SInv'
  BY StepSInv
<1>. QED  BY <1>1, InitSInv, PTL DEF SemSpec

\* The semaphores are well typed: no value falls below zero.
THEOREM SemaphoresAreTyped ==
  ASSUME Disciplined
  PROVE  SemSpec => []SemTypeOK
<1>1. SInv => SemTypeOK
  BY DEF SInv, Structure
<1>. QED  BY <1>1, SemInvariance, PTL

\* No live process sleeps where no post will look, and no post is spent on one that
\* has gone on: a wake-up is never lost.
THEOREM LiveWaitersAreListed ==
  ASSUME Disciplined
  PROVE  SemSpec => []WaitersAreListed
<1>1. SInv => WaitersAreListed
  BY DEF SInv
<1>. QED  BY <1>1, SemInvariance, PTL

\* blockedPIDs never overflows, although sWait does not look: each place in it was
\* paid for by a listener.
THEOREM WaitersFit ==
  ASSUME Disciplined
  PROVE  SemSpec => []ArrayFits
<1>1. SInv => ArrayFits
  <2>1. ASSUME SInv, NEW s \in Open PROVE Len(sem[s].blockedPIDs) <= MAX_BLOCKED_PIDS
    <3>1. Line(s) \in Seq(PID) /\ Range(Line(s)) \subseteq PID /\ \A p : Listed(p, s) <=> p \in Range(Line(s))
      BY <2>1, LineMembers DEF SInv, Structure
    <3>2. Distinct(Line(s))
      BY <2>1 DEF SInv, LinesAreSets
    <3>3. Holders(s) \subseteq PID /\ Range(Line(s)) \subseteq Holders(s)
      BY <3>1 DEF Holders
    <3>4. Len(Line(s)) <= Cardinality(Holders(s)) /\ Cardinality(Holders(s)) \in Nat
      BY <3>1, <3>2, <3>3, LineLength, PidsAreFinite
    <3>5. /\ Cardinality(Holders(s)) <= sem[s].listeners
          /\ sem[s].listeners \in 1 .. MAX_BLOCKED_PIDS
      BY <2>1 DEF SInv, Structure, HoldersListen
    <3>6. Len(Line(s)) \in Nat /\ MAX_BLOCKED_PIDS \in Nat
      BY <3>1, SemAssumption
    <3>. QED  BY <3>4, <3>5, <3>6 DEF Line
  <2>. QED  BY <2>1 DEF ArrayFits
<1>. QED  BY <1>1, SemInvariance, PTL

\* Nobody waits for a semaphore that has tokens.
THEOREM TokensAreTaken ==
  ASSUME Disciplined
  PROVE  SemSpec => []NoTokenWhileWaiting
<1>1. SInv => NoTokenWhileWaiting
  BY DEF SInv, Structure
<1>. QED  BY <1>1, SemInvariance, PTL

\* No token is taken twice, whoever dies and whenever.
THEOREM TokensAreNotForged ==
  ASSUME Disciplined
  PROVE  SemSpec => []NoTokenForged
<1>1. SInv => NoTokenForged
  BY DEF SInv
<1>. QED  BY <1>1, SemInvariance, PTL

\* The semaphores of the kernel, on its scheduler, keep the promise on which the
\* modules about programs are built.
THEOREM SemaphoresKeepTheirPromise ==
  ASSUME Disciplined
  PROVE  SemSpec => ImplementsSync
<1>1. SemInit => Promise!SyncInit
  BY DEF SemInit, Promise!SyncInit
<1>2. IInv /\ AwaitInv /\ SInv /\ [SemNext]_allVars => [Promise!SyncNext]_sem
  BY StepImplements
<1>. QED  BY <1>1, <1>2, SemInvariance, PTL DEF SemSpec, ImplementsSync, Promise!SyncSpec

-----------------------------------------------------------------------------
(***************************************************************************)
(* Tokens are conserved where nobody kills another or closes: the         *)
(* semaphores that programs share without opening them themselves.  There  *)
(* the listeners do not count the waiters, but every waiter lives, and the *)
(* lines hold exactly those who are blocked in a sWait.                    *)
(***************************************************************************)
Shared ==
  /\ NobodyMeddles
  /\ "kill" \notin Calls
  /\ "sClose" \notin SemCalls

WaitersLive == \A p \in PID : waitsFor[p] # NoSem => waitsFor[p] \in Open /\ Alive(p)
LinesAreBlocked == \A p \in PID, s \in SemId :
  Listed(p, s) <=> state[p] = "BLOCKED" /\ waitsFor[p] = s
LinesRepeatNobody == \A s \in Open : Distinct(Line(s))

SharedInv ==
  /\ SemTypeOK /\ LinesRepeatNobody
  /\ WaitersLive /\ WaitersStop /\ OneReason
  /\ LinesAreBlocked /\ NoTokenWhileWaiting /\ TokensConserved

\* Without killProcess of others a live process lives on, but for the one that has the
\* CPU: it exits, faults or meets ctrl-C.
LEMMA StepsSpare ==
  ASSUME IInv, AwaitInv, Shared, Next, NEW p \in PID, Alive(p)
  PROVE  state'[p] \in {"READY", "BLOCKED"} \/ (p = currentProcess /\ mode \in {"user", "exit"})
<1>. USE DEF Alive
<1>0. state \in [PID -> State] /\ newPIDVal \in Nat
  BY DEF IInv, TypeOK
<1>1. ASSUME NEW c \in PID, SystemCall(c) PROVE p = c \/ state'[p] = state[p]
  <2>1. ASSUME NEW asked \in {0, 1}, AddProcess(c, asked) PROVE p = c \/ state'[p] = state[p]
    <3>1. newPIDVal \in PID /\ state[newPIDVal] = "none"
      BY <2>1 DEF AddProcess, IInv, Fresh, TypeOK
    <3>2. state' = [state EXCEPT ![newPIDVal] = "READY",
                                 ![c] = IF Waits(c, asked) THEN "BLOCKED" ELSE @]
      BY <2>1 DEF AddProcess
    <3>. QED  BY <1>0, <3>1, <3>2
  <2>2. ASSUME NEW pid \in PID, WaitForPID(c, pid) PROVE p = c \/ state'[p] = state[p]
    BY <1>0, <2>2 DEF WaitForPID, SetNewState
  <2>3. ASSUME NEW pid \in PID, Kill(c, pid) \/ Block(c, pid) PROVE FALSE
    BY <2>3 DEF Kill, Block, Calling, Shared, NobodyMeddles
  <2>4. CASE Fault(c) \/ Exit(c) \/ AddProcessFails(c) \/ Yield(c)
    BY <1>0, <2>4 DEF Fault, Exit, KillProcess, SetNewState, AddProcessFails, Yield
  <2>5. ASSUME NEW pid \in PID, NEW prio \in -1 .. PRIO_CAP + 1, Nice(c, pid, prio)
        PROVE  state'[p] = state[p]
    BY <2>5 DEF Nice
  <2>. QED  BY <1>1, <2>1, <2>2, <2>3, <2>4, <2>5 DEF SystemCall
<1>2. ASSUME NEW c \in PID, SystemCall(c) PROVE c = currentProcess /\ mode = "user"
  BY <1>2, CallerRuns DEF SystemCall, AddProcess, AddProcessFails, Kill, Fault, Block, Nice, Yield,
     WaitForPID, Exit
<1>3. CASE Interrupt
  <2>1. CASE CtrlC
    <3>1. mode \in {"user", "exit"} /\ currentProcess \in PID /\ KillProcess(currentProcess)
      BY <2>1 DEF CtrlC, FgTarget, IInv, TypeOK
    <3>2. p = currentProcess \/ state'[p] = state[p]
      BY <1>0, <3>1 DEF KillProcess, SetNewState
    <3>. QED  BY <3>1, <3>2
  <2>. QED  BY <1>3, <2>1 DEF Interrupt, TimerTick, Unblock, Shared, NobodyMeddles
<1>4. CASE scheduler
  <2>1. CASE KeepRunning \/ LeaveIdle \/ Requeue \/ RunHead \/ RotateHead \/ RunIdle
    BY <2>1 DEF KeepRunning, LeaveIdle, Requeue, RunHead, RotateHead, RunIdle
  <2>2. CASE FreeCurrent
    <3>1. LET c == currentProcess IN
          /\ c \in PID /\ state[c] = "KILLED" /\ state'[c] = "none"
          /\ \A q \in PID \ {c} : state'[q] = IF Awaits(q, c) /\ state[q] = "BLOCKED" THEN "READY"
                                              ELSE state[q]
      BY <2>2, FreeCurrentWakes
    <3>. QED  BY <3>1
  <2>3. CASE ReapHead
    <3>1. Head(queue) \in PID /\ state' = [state EXCEPT ![Head(queue)] = "none"] /\ state[Head(queue)] = "KILLED"
      BY <2>3, SearchFindsHead DEF ReapHead, Searching
    <3>. QED  BY <1>0, <3>1
  <2>. QED  BY <1>4, <2>1, <2>2, <2>3 DEF scheduler, schedulerLoop
<1>5. CASE Wild
  BY <1>5 DEF Wild, vars
<1>. QED  BY <1>1, <1>2, <1>3, <1>4, <1>5 DEF Next

\* A step of the process table takes the CPU back to one that was chosen, or to nobody.
LEMMA SchedulerStepConserves ==
  ASSUME IInv, AwaitInv, SharedInv, Shared, SchedulerStep
  PROVE  IInv' /\ AwaitInv' /\ SharedInv'
<1>0. SemTypeOK /\ state \in [PID -> State] /\ newPIDVal \in Nat
  BY DEF SharedInv, IInv, TypeOK
<1>1. /\ Next /\ sem' = sem
      /\ \A p \in PID : /\ waitsFor'[p] = IF Returns(p) \/ state'[p] = "none" THEN NoSem
                                          ELSE waitsFor[p]
                        /\ opened'[p] = IF state'[p] = "none" THEN {} ELSE opened[p]
  BY DEF SchedulerStep
<1>2. IInv'
  BY <1>1, StepIInv
<1>3. AwaitInv' /\ \A q, d \in PID : Awaits(q, d)' => Awaits(q, d) \/ (q = currentProcess /\ mode = "user")
  BY <1>1, StepAwaits DEF Shared, NobodyMeddles
<1>4. \A p \in PID : Orderly(p)
  BY <1>1, CallIsOrderly, OtherStepIsOrderly DEF Next, Shared
<1>5. Open' = Open /\ \A p, s : Listed(p, s)' <=> Listed(p, s)
  BY <1>1 DEF Open, Listed
\* Who waits before and after the step is as it was.
<1>6. ASSUME NEW p \in PID, waitsFor[p] # NoSem
      PROVE  /\ Alive(p) /\ state'[p] = state[p] /\ waitsFor[p] \in Open
             /\ waitsFor'[p] = IF Returns(p) THEN NoSem ELSE waitsFor[p]
             /\ Returns(p) => state[p] = "READY"
  <2>1. Alive(p) /\ waitsFor[p] \in Open /\ (p = currentProcess => mode = "tick")
    BY <1>6 DEF SharedInv, WaitersLive, WaitersStop
  <2>2. state'[p] \in {"READY", "BLOCKED"}
    BY <1>1, <2>1, StepsSpare
  <2>3. state[p] = "BLOCKED" => state'[p] = "BLOCKED"
    BY <1>4, <1>6, <2>2 DEF Orderly, SharedInv, OneReason
  <2>4. state[p] = "READY" => state'[p] = "READY"
    BY <1>4, <2>1, <2>2 DEF Orderly
  <2>5. Returns(p) => state[p] = "READY"
    BY <1>1, WhoReturns DEF SharedInv, Shared
  <2>. QED  BY <1>1, <2>1, <2>2, <2>3, <2>4, <2>5 DEF Alive
<1>7. \A p \in PID : waitsFor'[p] # NoSem => waitsFor'[p] = waitsFor[p] /\ ~ Returns(p)
  BY <1>1
<1>8. WaitersLive'
  BY <1>5, <1>6, <1>7 DEF WaitersLive, Alive
<1>9. WaitersStop'
  BY <1>1, <1>7 DEF SharedInv, WaitersStop, Returns
<1>10. OneReason'
  <2>1. waitsFor'[IdlePid] = NoSem
    BY <1>7, Pids DEF SharedInv, OneReason
  <2>2. ASSUME NEW p \in PID, NEW c \in PID, Awaits(p, c)' PROVE waitsFor'[p] = NoSem
    BY <1>3, <1>7, <2>2 DEF SharedInv, OneReason, WaitersStop
  <2>. QED  BY <2>1, <2>2 DEF OneReason
<1>11. LinesAreBlocked'
  <2>1. ASSUME NEW p \in PID, NEW s \in SemId
        PROVE  Listed(p, s) <=> state'[p] = "BLOCKED" /\ waitsFor'[p] = s
    <3>1. s # NoSem
      BY SemAssumption
    <3>2. Listed(p, s) <=> state[p] = "BLOCKED" /\ waitsFor[p] = s
      BY DEF SharedInv, LinesAreBlocked
    <3>3. CASE waitsFor[p] = NoSem
      BY <1>7, <3>1, <3>2, <3>3
    <3>4. CASE waitsFor[p] # NoSem
      BY <1>6, <3>1, <3>2, <3>4
    <3>. QED  BY <3>3, <3>4
  <2>. QED  BY <1>5, <2>1 DEF LinesAreBlocked
<1>12. ASSUME NEW s \in SemId
       PROVE  /\ tokens'[s] \in Nat
              /\ tokens'[s] = (IF s \in Open THEN sem[s].value ELSE 0) + Cardinality(Chosen(s)')
  <2>. DEFINE R == {p \in PID : Returns(p) /\ waitsFor[p] = s}
              V == IF s \in Open THEN sem[s].value ELSE 0
  <2>1. tokens'[s] = tokens[s] - Cardinality(R)
    BY DEF SchedulerStep
  <2>2. tokens[s] = V + Cardinality(Chosen(s))
    BY DEF SharedInv, TokensConserved
  <2>3. V \in Nat
    BY <1>0, SemAssumption DEF SemTypeOK, Open, Semaphore
  <2>4. Chosen(s) \subseteq PID /\ Cardinality(Chosen(s)) \in Nat
    BY PidsAreFinite DEF Chosen
  <2>5. Chosen(s)' = Chosen(s) \ R
    <3>1. ASSUME NEW p \in PID
          PROVE  waitsFor'[p] = s /\ state'[p] = "READY"
                   <=> waitsFor[p] = s /\ state[p] = "READY" /\ ~ Returns(p)
      <4>1. s # NoSem
        BY SemAssumption
      <4>2. CASE waitsFor[p] # s
        BY <1>7, <4>1, <4>2
      <4>3. CASE waitsFor[p] = s
        BY <1>6, <4>1, <4>3
      <4>. QED  BY <4>2, <4>3
    <3>. QED  BY <3>1 DEF Chosen
  <2>6. Cardinality(Chosen(s)') \in Nat
    BY PidsAreFinite DEF Chosen
  <2>7. Cardinality(Chosen(s) \ R) = Cardinality(Chosen(s)) - Cardinality(R) /\ Cardinality(R) \in Nat
    <3>1. CASE R = {}
      BY <2>4, <3>1, FS_EmptySet
    <3>2. CASE R # {}
      <4>1. PICK p \in R : TRUE
        BY <3>2
      <4>2. p \in PID /\ currentProcess' = p /\ waitsFor[p] = s /\ s # NoSem /\ R \subseteq {p}
        BY <4>1, SemAssumption DEF Returns
      <4>3. R = {p} /\ p \in Chosen(s)
        BY <1>6, <4>1, <4>2 DEF Chosen
      <4>4. Cardinality(Chosen(s) \ {p}) = Cardinality(Chosen(s)) - (IF p \in Chosen(s) THEN 1 ELSE 0)
        BY <2>4, <4>2, CountChange
      <4>5. Cardinality(R) = 1
        BY <4>3, FS_Singleton
      <4>. QED  BY <4>3, <4>4, <4>5
    <3>. QED  BY <3>1, <3>2
  <2>. HIDE DEF R, V
  <2>8. tokens'[s] = V + Cardinality(Chosen(s)') /\ tokens'[s] \in Nat
    BY <2>1, <2>2, <2>3, <2>4, <2>5, <2>6, <2>7
  <2>. QED  BY <2>8 DEF V
<1>13. TokensConserved'
  BY <1>1, <1>5, <1>12 DEF TokensConserved
<1>14. SemTypeOK'
  <2>1. waitsFor' \in [PID -> SemId \cup {NoSem}] /\ opened' \in [PID -> SUBSET SemId]
    BY <1>0 DEF SchedulerStep, SemTypeOK
  <2>2. tokens' \in [SemId -> Nat]
    BY <1>12 DEF SchedulerStep
  <2>. QED  BY <1>0, <1>1, <2>1, <2>2 DEF SemTypeOK
<1>15. LinesRepeatNobody' /\ NoTokenWhileWaiting'
  BY <1>1, <1>5 DEF SharedInv, LinesRepeatNobody, NoTokenWhileWaiting, Line
<1>. QED  BY <1>2, <1>3, <1>8, <1>9, <1>10, <1>11, <1>13, <1>14, <1>15 DEF SharedInv

\* The caller of a semaphore runs, and is in no line.
LEMMA CallerWaitsForNothing ==
  ASSUME IInv, SharedInv, NEW p \in PID, NEW call, SemCalling(p, call)
  PROVE  /\ p = currentProcess /\ mode = "user" /\ p # IdlePid /\ state[p] = "READY"
         /\ waitsFor[p] = NoSem /\ p < newPIDVal /\ ~ Exists(IdlePid)
         /\ \A s \in SemId : ~ Listed(p, s)
<1>1. p = currentProcess /\ mode = "user" /\ p # IdlePid /\ p # NoProc
  BY DEF SemCalling
<1>2. state[p] = "READY"
  BY <1>1 DEF IInv, OnlyReadyRuns
<1>3. waitsFor[p] = NoSem
  BY <1>1 DEF SharedInv, WaitersStop
<1>4. \A s \in SemId : ~ Listed(p, s)
  BY <1>2 DEF SharedInv, LinesAreBlocked
<1>5. p < newPIDVal
  BY <1>2 DEF IInv, Fresh, TypeOK, PID
<1>. QED  BY <1>1, <1>2, <1>3, <1>4, <1>5 DEF IInv, InOnePlace, Exists

\* A call that changes one semaphore, its tokens by as much as its value, and no line.
LEMMA QuietSharedCall ==
  ASSUME SharedInv, UNCHANGED <<vars, waitsFor>>, SemTypeOK', NEW s \in SemId,
         \A u \in SemId \ {s} : sem'[u] = sem[u] /\ tokens'[u] = tokens[u],
         s \in Open', s \in Open => Line(s)' = Line(s), s \notin Open => Line(s)' = <<>>,
         sem'[s].value > 0 => Line(s)' = <<>>,
         s \in Open => tokens'[s] - tokens[s] = sem'[s].value - sem[s].value,
         s \notin Open => tokens'[s] = sem'[s].value
  PROVE  SharedInv'
<1>. USE DEF vars, pcb, cpu
<1>0. SemTypeOK
  BY DEF SharedInv
<1>1. Open \subseteq Open' /\ \A u \in SemId \ {s} : u \in Open' <=> u \in Open
  BY DEF Open
<1>2. \A q \in PID, u \in SemId : Listed(q, u)' <=> Listed(q, u)
  <2>1. ASSUME NEW q \in PID, NEW u \in SemId, u # s PROVE Listed(q, u)' <=> Listed(q, u)
    BY <1>1, <2>1 DEF Listed
  <2>2. ASSUME NEW q \in PID PROVE Listed(q, s)' <=> Listed(q, s)
    <3>1. CASE s \in Open
      BY <3>1 DEF Listed, Line
    <3>2. CASE s \notin Open
      BY <3>2 DEF Listed, Line, Range
    <3>. QED  BY <3>1, <3>2
  <2>. QED  BY <2>1, <2>2
<1>3. LinesRepeatNobody'
  <2>1. ASSUME NEW u \in Open', u # s PROVE Distinct(Line(u)')
    <3>1. u \in Open /\ Line(u)' = Line(u)
      BY <1>1, <2>1 DEF Open, Line
    <3>. QED  BY <3>1 DEF SharedInv, LinesRepeatNobody
  <2>2. Distinct(Line(s)')
    <3>1. CASE s \in Open
      BY <3>1 DEF SharedInv, LinesRepeatNobody
    <3>2. CASE s \notin Open
      BY <3>2 DEF Distinct
    <3>. QED  BY <3>1, <3>2
  <2>. QED  BY <2>1, <2>2 DEF LinesRepeatNobody
<1>4. WaitersLive' /\ WaitersStop' /\ OneReason'
  BY <1>1 DEF SharedInv, WaitersLive, WaitersStop, OneReason, Alive, Awaits
<1>5. LinesAreBlocked'
  BY <1>2 DEF SharedInv, LinesAreBlocked
<1>6. NoTokenWhileWaiting'
  <2>1. ASSUME NEW u \in Open', sem'[u].value > 0 PROVE sem'[u].blockedPIDs = <<>>
    <3>1. CASE u = s
      BY <2>1, <3>1 DEF Line
    <3>2. CASE u # s
      <4>1. u \in Open /\ sem'[u] = sem[u]
        BY <1>1, <2>1, <3>2 DEF Open
      <4>. QED  BY <2>1, <4>1 DEF SharedInv, NoTokenWhileWaiting
    <3>. QED  BY <3>1, <3>2
  <2>. QED  BY <2>1 DEF NoTokenWhileWaiting
<1>7. TokensConserved'
  <2>1. \A u \in SemId : Chosen(u)' = Chosen(u) /\ Cardinality(Chosen(u)) \in Nat
    BY PidsAreFinite DEF Chosen
  <2>2. s \notin Open => Cardinality(Chosen(s)) = 0
    <3>1. s \notin Open => Chosen(s) = {}
      BY SemAssumption DEF SharedInv, WaitersLive, Chosen
    <3>. QED  BY <3>1, FS_EmptySet
  <2>3. /\ sem'[s].value \in Nat /\ tokens'[s] \in Nat /\ tokens[s] \in Nat
        /\ s \in Open => sem[s].value \in Nat
    BY <1>0, SemAssumption DEF SemTypeOK, Open, Semaphore
  <2>4. tokens'[s] = sem'[s].value + Cardinality(Chosen(s)')
    <3>1. CASE s \in Open
      <4>1. tokens[s] = sem[s].value + Cardinality(Chosen(s))
        BY <3>1 DEF SharedInv, TokensConserved
      <4>. QED  BY <2>1, <2>3, <3>1, <4>1
    <3>2. CASE s \notin Open
      BY <2>1, <2>2, <2>3, <3>2
    <3>. QED  BY <3>1, <3>2
  <2>5. ASSUME NEW u \in SemId
        PROVE  tokens'[u] = (IF u \in Open' THEN sem'[u].value ELSE 0) + Cardinality(Chosen(u)')
    <3>1. CASE u = s
      BY <2>4, <3>1
    <3>2. CASE u # s
      BY <1>1, <2>1, <3>2 DEF SharedInv, TokensConserved
    <3>. QED  BY <3>1, <3>2
  <2>. QED  BY <2>5 DEF TokensConserved
<1>. QED  BY <1>3, <1>4, <1>5, <1>6, <1>7 DEF SharedInv

\* Nothing happens.
LEMMA SharedStutter == SharedInv /\ UNCHANGED allVars => SharedInv'
<1>. SUFFICES ASSUME SharedInv, UNCHANGED allVars PROVE SharedInv'
  OBVIOUS
<1>. USE DEF allVars, semVars, vars, pcb, cpu
<1>1. SemTypeOK' /\ NoTokenWhileWaiting' /\ TokensConserved'
  BY DEF SharedInv, SemTypeOK, NoTokenWhileWaiting, TokensConserved, Chosen, Open
<1>2. LinesRepeatNobody' /\ WaitersLive' /\ WaitersStop' /\ OneReason' /\ LinesAreBlocked'
  BY DEF SharedInv, LinesRepeatNobody, WaitersLive, WaitersStop, OneReason, LinesAreBlocked, Open,
         Listed, Line, Alive, Awaits
<1>. QED  BY <1>1, <1>2 DEF SharedInv

\* sOpen.
LEMMA SOpenConserves ==
  ASSUME SharedInv, NEW p \in PID, NEW s \in SemId, NEW v \in InitValues, SOpen(p, s, v)
  PROVE  SharedInv'
<1>. DEFINE r == Found(s, v)
            t == [r EXCEPT !.listeners = @ + 1]
<1>1. CASE Full(r)
  BY <1>1, SharedStutter DEF SOpen, allVars, semVars
<1>2. CASE ~ Full(r)
  <2>0. SemTypeOK
    BY DEF SharedInv
  <2>1. /\ sem' = [sem EXCEPT ![s] = t] /\ opened' = [opened EXCEPT ![p] = @ \cup {s}]
        /\ tokens' = IF sem[s] = NoSem THEN [tokens EXCEPT ![s] = v] ELSE tokens
        /\ UNCHANGED <<vars, waitsFor>>
    BY <1>2 DEF SOpen
  <2>2. /\ t \in Semaphore /\ t.value = r.value /\ t.blockedPIDs = r.blockedPIDs
        /\ s \in Open => r = sem[s]
        /\ s \notin Open => r.value = v /\ r.blockedPIDs = <<>>
    BY <2>0, FoundDoes
  <2>. HIDE DEF r, t
  <2>3. sem'[s] = t /\ \A u \in SemId \ {s} : sem'[u] = sem[u]
    BY <2>0, <2>1 DEF SemTypeOK
  <2>4. s \in Open'
    BY <2>2, <2>3, SemAssumption DEF Open
  <2>5. v \in Nat
    BY SemAssumption
  <2>6. /\ \A u \in SemId \ {s} : tokens'[u] = tokens[u]
        /\ s \in Open => tokens'[s] = tokens[s]
        /\ s \notin Open => tokens'[s] = v
        /\ tokens' \in [SemId -> Nat]
    BY <2>0, <2>1, <2>5 DEF SemTypeOK, Open
  <2>7. SemTypeOK'
    BY <2>0, <2>1, <2>2, <2>6 DEF SemTypeOK, vars
  <2>8. (s \in Open => Line(s)' = Line(s)) /\ (s \notin Open => Line(s)' = <<>>)
    BY <2>2, <2>3 DEF Line
  <2>9. sem'[s].value > 0 => Line(s)' = <<>>
    BY <2>2, <2>3, <2>8 DEF SharedInv, NoTokenWhileWaiting, Line
  <2>10. tokens[s] \in Nat /\ (s \in Open => sem[s].value \in Nat)
    BY <2>0, SemAssumption DEF SemTypeOK, Open, Semaphore
  <2>11. s \in Open => tokens'[s] - tokens[s] = sem'[s].value - sem[s].value
    BY <2>2, <2>3, <2>6, <2>10
  <2>12. s \notin Open => tokens'[s] = sem'[s].value
    BY <2>2, <2>3, <2>6
  <2>. QED  BY <2>1, <2>3, <2>4, <2>6, <2>7, <2>8, <2>9, <2>11, <2>12, QuietSharedCall
<1>. QED  BY <1>1, <1>2

\* sWait with a token.
LEMMA SWaitPassesConserves ==
  ASSUME SharedInv, NEW p \in PID, NEW s \in SemId, SWaitPasses(p, s)
  PROVE  SharedInv'
<1>0. SemTypeOK
  BY DEF SharedInv
<1>1. /\ sem' = [sem EXCEPT ![s].value = @ - 1] /\ tokens' = [tokens EXCEPT ![s] = @ - 1]
      /\ UNCHANGED <<vars, waitsFor, opened>> /\ s \in Open /\ sem[s].value > 0
  BY DEF SWaitPasses, Open
<1>2. sem[s] \in Semaphore /\ sem[s].value \in Nat /\ sem[s].value <= MAX_VALUE /\ tokens[s] \in Nat
  BY <1>0, <1>1, SemAssumption DEF SemTypeOK, Open, Semaphore
<1>3. /\ sem'[s] \in Semaphore /\ sem'[s].value = sem[s].value - 1
      /\ sem'[s].blockedPIDs = sem[s].blockedPIDs
      /\ \A u \in SemId \ {s} : sem'[u] = sem[u]
  <2>. DEFINE t == [sem[s] EXCEPT !.value = sem[s].value - 1]
  <2>1. t \in Semaphore /\ t.value = sem[s].value - 1 /\ t.blockedPIDs = sem[s].blockedPIDs
    BY <1>1, <1>2, SemAssumption DEF Semaphore
  <2>2. sem' = [sem EXCEPT ![s] = t]
    BY <1>1
  <2>. QED  BY <1>0, <2>1, <2>2 DEF SemTypeOK
<1>4. s \in Open' /\ Line(s)' = Line(s)
  BY <1>3, SemAssumption DEF Open, Line
<1>5. tokens[s] >= 1
  <2>1. tokens[s] = sem[s].value + Cardinality(Chosen(s)) /\ Cardinality(Chosen(s)) \in Nat
    BY <1>1, PidsAreFinite DEF SharedInv, TokensConserved, Chosen
  <2>. QED  BY <1>1, <1>2, <2>1
<1>6. /\ tokens'[s] = tokens[s] - 1 /\ tokens' \in [SemId -> Nat]
      /\ \A u \in SemId \ {s} : tokens'[u] = tokens[u]
  BY <1>0, <1>1, <1>2, <1>5 DEF SemTypeOK
<1>7. SemTypeOK'
  BY <1>0, <1>1, <1>3, <1>6 DEF SemTypeOK
<1>8. Line(s) = <<>>
  BY <1>1 DEF SharedInv, NoTokenWhileWaiting, Line
<1>9. tokens'[s] - tokens[s] = sem'[s].value - sem[s].value
  BY <1>2, <1>3, <1>6
<1>. QED  BY <1>1, <1>3, <1>4, <1>6, <1>7, <1>8, <1>9, QuietSharedCall

\* sPost on a semaphore nobody waits for.
LEMMA SPostKeptConserves ==
  ASSUME SharedInv, NEW p \in PID, NEW s \in SemId, SPost(p, s), Line(s) = <<>>
  PROVE  SharedInv' /\ UNCHANGED vars
<1>0. SemTypeOK
  BY DEF SharedInv
<1>1. /\ s \in Open /\ sem[s] \in Semaphore /\ sem[s].value < MAX_VALUE
      /\ sem' = [sem EXCEPT ![s] = Posted(sem[s])]
      /\ tokens' = [tokens EXCEPT ![s] = @ + 1]
      /\ UNCHANGED <<vars, waitsFor, opened>>
  BY <1>0 DEF SPost, Open, SemTypeOK, Line, vars
<1>2. /\ sem'[s] \in Semaphore /\ sem'[s].value = sem[s].value + 1
      /\ sem'[s].blockedPIDs = sem[s].blockedPIDs
      /\ \A u \in SemId \ {s} : sem'[u] = sem[u]
  BY <1>0, <1>1, PostedDoes DEF SemTypeOK, Line
<1>3. s \in Open' /\ Line(s)' = Line(s)
  BY <1>2, SemAssumption DEF Open, Line
<1>4. sem[s].value \in Nat /\ tokens[s] \in Nat
  BY <1>0, <1>1, SemAssumption DEF SemTypeOK, Semaphore
<1>5. /\ tokens'[s] = tokens[s] + 1 /\ tokens' \in [SemId -> Nat]
      /\ \A u \in SemId \ {s} : tokens'[u] = tokens[u]
  BY <1>0, <1>1, <1>4 DEF SemTypeOK
<1>6. SemTypeOK'
  BY <1>0, <1>1, <1>2, <1>5 DEF SemTypeOK
<1>7. tokens'[s] - tokens[s] = sem'[s].value - sem[s].value
  BY <1>2, <1>4, <1>5
<1>. QED  BY <1>1, <1>2, <1>3, <1>5, <1>6, <1>7, QuietSharedCall
\* sWait that finds none: the caller goes to the end of a line that it is not in.
LEMMA SWaitBlocksConserves ==
  ASSUME IInv, AwaitInv, SharedInv, NEW p \in PID, NEW s \in SemId, SWaitBlocks(p, s)
  PROVE  IInv' /\ AwaitInv' /\ SharedInv'
<1>0. SemTypeOK /\ state \in [PID -> State]
  BY DEF SharedInv, IInv, TypeOK
<1>1. /\ sem' = [sem EXCEPT ![s].blockedPIDs = Enlisted(@, p)] /\ waitsFor' = [waitsFor EXCEPT ![p] = s]
      /\ SetNewState(p, "BLOCKED") /\ TickIfSelf(p) /\ s \in Open /\ sem[s].value = 0
      /\ UNCHANGED <<opened, tokens, newPIDVal, ppid, fg, priority, queue, cpu, returned>>
  BY DEF SWaitBlocks, pcb, Open
<1>2. SemCalling(p, "sWait") \/ SemCalling(p, "sWaitAny")
  BY DEF SWaitBlocks, Uses
<1>3. /\ p = currentProcess /\ mode = "user" /\ p # IdlePid /\ state[p] = "READY"
      /\ p < newPIDVal /\ waitsFor[p] = NoSem /\ \A t \in SemId : ~ Listed(p, t)
      /\ ~ Exists(IdlePid)
  BY <1>2, CallerWaitsForNothing
<1>4. mode' = "tick" /\ state' = [state EXCEPT ![p] = "BLOCKED"]
  BY <1>1, <1>3 DEF TickIfSelf, SetNewState, Settable, Exists
<1>5. IInv'
  <2>1. fg' \in [PID -> {0, 1}]
    BY <1>1 DEF IInv, TypeOK
  <2>. QED  BY <1>1, <1>3, <1>4, <2>1, SetNewStateKeepsIInv
<1>6. AwaitInv' /\ \A q, d \in PID : Awaits(q, d)' => Awaits(q, d)
  <2>1. \A q \in PID : /\ state[q] = "none" => state'[q] = "none"
                       /\ state'[q] = "READY" => state[q] = "READY"
    BY <1>0, <1>3, <1>4
  <2>2. newPIDVal' >= newPIDVal /\ newPIDVal' \in Nat
    BY <1>1 DEF IInv, TypeOK
  <2>. QED  BY <1>1, <2>1, <2>2, NobodyWakes
<1>7. /\ sem'[s] \in Semaphore /\ sem'[s].value = 0
      /\ sem'[s].blockedPIDs = Append(sem[s].blockedPIDs, p)
      /\ \A u \in SemId \ {s} : sem'[u] = sem[u]
  <2>1. sem[s] \in Semaphore
    BY <1>0, <1>1 DEF SemTypeOK, Open
  <2>2. sem' = [sem EXCEPT ![s] = [sem[s] EXCEPT !.blockedPIDs = Enlisted(@, p)]]
    BY <1>1
  <2>. QED  BY <1>0, <1>1, <2>1, <2>2, EnlistedDoes DEF SemTypeOK
<1>8. Open' = Open
  BY <1>1, <1>7, SemAssumption DEF Open
<1>9. Line(s) \in Seq(PID) /\ Range(Line(s)) \subseteq PID /\ p \notin Range(Line(s)) /\ Distinct(Line(s))
  BY <1>0, <1>1, <1>3, LineMembers DEF SharedInv, LinesRepeatNobody, Open
<1>10. Distinct(Line(s)') /\ Range(Line(s)') = Range(Line(s)) \cup {p}
  BY <1>7, <1>9, RangeAppend, DistinctAppend DEF Line
<1>11. \A q \in PID, u \in SemId : Listed(q, u)' <=> Listed(q, u) \/ (q = p /\ u = s)
  <2>1. ASSUME NEW q \in PID, NEW u \in SemId, u # s PROVE Listed(q, u)' <=> Listed(q, u)
    BY <1>7, <1>8, <2>1 DEF Listed
  <2>2. ASSUME NEW q \in PID PROVE Listed(q, s)' <=> Listed(q, s) \/ q = p
    BY <1>1, <1>8, <1>10 DEF Listed, Line
  <2>. QED  BY <2>1, <2>2
<1>12. \A q \in PID : waitsFor'[q] = (IF q = p THEN s ELSE waitsFor[q])
  BY <1>0, <1>1 DEF SemTypeOK
<1>13. SemTypeOK'
  BY <1>0, <1>1, <1>7 DEF SemTypeOK
<1>14. LinesRepeatNobody'
  <2>1. ASSUME NEW u \in Open, u # s PROVE Line(u)' = Line(u)
    BY <1>7, <2>1 DEF Line, Open
  <2>. QED  BY <1>8, <1>10, <2>1 DEF SharedInv, LinesRepeatNobody
<1>15. WaitersLive' /\ WaitersStop'
  BY <1>0, <1>1, <1>3, <1>4, <1>8, <1>12 DEF SharedInv, WaitersLive, WaitersStop, Alive, cpu
<1>16. OneReason'
  <2>1. \A d \in PID : ~ Awaits(p, d)
    BY <1>3 DEF AwaitInv, AwaitingStops
  <2>2. waitsFor'[IdlePid] = NoSem
    BY <1>3, <1>12, Pids DEF SharedInv, OneReason
  <2>3. ASSUME NEW q \in PID, NEW d \in PID, Awaits(q, d)' PROVE waitsFor'[q] = NoSem
    <3>1. Awaits(q, d) /\ q # p
      BY <1>6, <2>1, <2>3
    <3>. QED  BY <3>1, <1>12 DEF SharedInv, OneReason
  <2>. QED  BY <2>2, <2>3 DEF OneReason
<1>17. LinesAreBlocked'
  BY <1>0, <1>3, <1>4, <1>11, <1>12 DEF SharedInv, LinesAreBlocked
<1>18. NoTokenWhileWaiting'
  BY <1>7, <1>8 DEF SharedInv, NoTokenWhileWaiting, Open
<1>19. TokensConserved'
  <2>1. \A u \in SemId : Chosen(u)' = Chosen(u)
    BY <1>0, <1>3, <1>4, <1>12, SemAssumption DEF Chosen
  <2>. QED  BY <1>1, <1>7, <1>8, <2>1 DEF SharedInv, TokensConserved, Open
<1>. QED  BY <1>5, <1>6, <1>13, <1>14, <1>15, <1>16, <1>17, <1>18, <1>19 DEF SharedInv

\* sPost to the longest waiter: it lives, and is chosen.
LEMMA SPostGivenConserves ==
  ASSUME IInv, AwaitInv, SharedInv, NEW p \in PID, NEW s \in SemId, SPost(p, s), Line(s) # <<>>
  PROVE  IInv' /\ AwaitInv' /\ SharedInv'
<1>. DEFINE h == Head(Line(s))
<1>0. SemTypeOK /\ state \in [PID -> State]
  BY DEF SharedInv, IInv, TypeOK
<1>1. /\ s \in Open /\ sem[s] \in Semaphore /\ sem[s].value < MAX_VALUE
      /\ sem' = [sem EXCEPT ![s] = Posted(sem[s])]
      /\ tokens' = [tokens EXCEPT ![s] = @ + 1]
      /\ SetNewState(h, "READY") /\ mode = "user" /\ p = currentProcess
      /\ UNCHANGED <<waitsFor, opened, newPIDVal, ppid, fg, priority, queue, cpu, mode, returned>>
  BY <1>0 DEF SPost, Open, SemTypeOK, Line, pcb, Uses, SemCalling
<1>2. /\ Line(s) \in Seq(PID) /\ Distinct(Line(s)) /\ h \in PID /\ Listed(h, s)
      /\ Range(Tail(Line(s))) = Range(Line(s)) \ {h} /\ Distinct(Tail(Line(s)))
  <2>1. Line(s) \in Seq(PID) /\ Distinct(Line(s)) /\ \A q : Listed(q, s) <=> q \in Range(Line(s))
    BY <1>0, <1>1, LineMembers DEF SharedInv, LinesRepeatNobody
  <2>. QED  BY <2>1, RangeTail
<1>3. /\ sem'[s] \in Semaphore /\ sem'[s].value = sem[s].value
      /\ sem'[s].blockedPIDs = Tail(Line(s))
      /\ \A u \in SemId \ {s} : sem'[u] = sem[u]
  BY <1>0, <1>1, PostedDoes DEF SemTypeOK, Line
<1>. HIDE DEF h
<1>4. state[h] = "BLOCKED" /\ waitsFor[h] = s /\ h # IdlePid
  BY <1>2, Pids DEF SharedInv, LinesAreBlocked, IInv, IdleIsReady
<1>5. state' = [state EXCEPT ![h] = "READY"]
  <2>1. Settable(h)
    BY <1>2, <1>4 DEF IInv, InOnePlace, Settable
  <2>. QED  BY <1>1, <2>1 DEF SetNewState
<1>6. IInv'
  <2>1. fg' \in [PID -> {0, 1}]
    BY <1>1 DEF IInv, TypeOK
  <2>. QED  BY <1>1, <1>2, <2>1, SetNewStateKeepsIInv
<1>7. \A q, d \in PID : Awaits(q, d)' <=> Awaits(q, d)
  BY <1>0, <1>1, <1>2, <1>4, <1>5 DEF Awaits
<1>8. AwaitInv'
  <2>1. ParentsFirst'
    BY <1>1 DEF AwaitInv, ParentsFirst
  <2>2. ASSUME NEW q \in PID \ {IdlePid}, state'[q] = "READY"
        PROVE  state[q] = "READY" \/ \A d \in PID : ~ Awaits(q, d)'
    <3>1. state[q] = "READY" \/ q = h
      BY <1>0, <1>5, <2>2
    <3>2. \A d \in PID : ~ Awaits(h, d)
      BY <1>2, <1>4, SemAssumption DEF SharedInv, OneReason
    <3>. QED  BY <1>7, <3>1, <3>2
  <2>. QED  BY <1>7, <2>1, <2>2, FewerAwaited
<1>9. Open' = Open
  BY <1>1, <1>3, SemAssumption DEF Open
<1>10. \A q \in PID, u \in SemId : Listed(q, u)' <=> Listed(q, u) /\ ~ (q = h /\ u = s)
  <2>1. ASSUME NEW q \in PID, NEW u \in SemId, u # s PROVE Listed(q, u)' <=> Listed(q, u)
    BY <1>3, <1>9, <2>1 DEF Listed
  <2>2. ASSUME NEW q \in PID PROVE Listed(q, s)' <=> Listed(q, s) /\ q # h
    BY <1>1, <1>2, <1>3, <1>9 DEF Listed, Line
  <2>. QED  BY <2>1, <2>2
<1>11. tokens'[s] = tokens[s] + 1 /\ tokens[s] \in Nat /\ \A u \in SemId \ {s} : tokens'[u] = tokens[u]
  BY <1>0, <1>1 DEF SemTypeOK
<1>12. SemTypeOK'
  BY <1>0, <1>1, <1>3, <1>11 DEF SemTypeOK
<1>13. LinesRepeatNobody'
  <2>1. ASSUME NEW u \in Open, u # s PROVE Line(u)' = Line(u)
    BY <1>3, <2>1 DEF Line, Open
  <2>2. Distinct(Line(s)')
    BY <1>2, <1>3 DEF Line
  <2>. QED  BY <1>9, <2>1, <2>2 DEF SharedInv, LinesRepeatNobody
<1>14. WaitersLive' /\ OneReason'
  BY <1>0, <1>1, <1>5, <1>7, <1>9 DEF SharedInv, WaitersLive, OneReason, Alive
<1>15. WaitersStop'
  BY <1>1 DEF SharedInv, WaitersStop, cpu
<1>16. LinesAreBlocked'
  BY <1>0, <1>1, <1>4, <1>5, <1>10 DEF SharedInv, LinesAreBlocked
<1>17. sem[s].value = 0
  BY <1>1, SemAssumption DEF SharedInv, NoTokenWhileWaiting, Line, Semaphore
<1>18. NoTokenWhileWaiting'
  BY <1>3, <1>9, <1>17 DEF SharedInv, NoTokenWhileWaiting, Open
<1>19. TokensConserved'
  <2>1. \A u \in SemId \ {s} : Chosen(u)' = Chosen(u)
    BY <1>0, <1>1, <1>4, <1>5 DEF Chosen
  <2>2. Chosen(s)' = Chosen(s) \cup {h} /\ h \notin Chosen(s)
    BY <1>0, <1>1, <1>2, <1>4, <1>5 DEF Chosen
  <2>3. Chosen(s) \subseteq PID /\ Cardinality(Chosen(s)) \in Nat
    BY PidsAreFinite DEF Chosen
  <2>4. Cardinality(Chosen(s) \cup {h}) = Cardinality(Chosen(s)) + (IF h \in Chosen(s) THEN 0 ELSE 1)
    BY <1>2, <2>3, CountChange
  <2>5. Cardinality(Chosen(s)') = Cardinality(Chosen(s)) + 1
    BY <2>2, <2>3, <2>4
  <2>6. tokens[s] = sem[s].value + Cardinality(Chosen(s))
    BY <1>1 DEF SharedInv, TokensConserved
  <2>7. tokens'[s] = sem'[s].value + Cardinality(Chosen(s)')
    BY <1>3, <1>11, <1>17, <2>3, <2>5, <2>6
  <2>8. ASSUME NEW u \in SemId
        PROVE  tokens'[u] = (IF u \in Open' THEN sem'[u].value ELSE 0) + Cardinality(Chosen(u)')
    BY <1>1, <1>3, <1>9, <1>11, <2>1, <2>7 DEF SharedInv, TokensConserved
  <2>. QED  BY <2>8 DEF TokensConserved
<1>. QED  BY <1>6, <1>8, <1>12, <1>13, <1>14, <1>15, <1>16, <1>18, <1>19 DEF SharedInv

\* At the start there are no semaphores, and nobody waits.
LEMMA InitSharedInv == SemInit => IInv /\ AwaitInv /\ SharedInv
<1>. SUFFICES ASSUME SemInit PROVE SharedInv
  BY InitSInv
<1>1. Open = {} /\ \A s \in SemId : Chosen(s) = {}
  BY SemAssumption DEF SemInit, Open, Chosen
<1>2. SemTypeOK /\ WaitersStop /\ OneReason /\ NoTokenWhileWaiting
  BY InitSInv DEF SInv, Structure
<1>3. LinesRepeatNobody /\ WaitersLive
  BY <1>1 DEF SemInit, LinesRepeatNobody, WaitersLive
<1>4. LinesAreBlocked
  <2>1. ASSUME NEW p \in PID, NEW s \in SemId PROVE ~ Listed(p, s) /\ waitsFor[p] # s
    BY <1>1, SemAssumption DEF SemInit, Listed
  <2>. QED  BY <2>1 DEF LinesAreBlocked
<1>5. TokensConserved
  <2>1. ASSUME NEW s \in SemId PROVE tokens[s] = 0 /\ Cardinality(Chosen(s)) = 0 /\ s \notin Open
    BY <1>1, FS_EmptySet DEF SemInit
  <2>. QED  BY <2>1 DEF TokensConserved
<1>. QED  BY <1>2, <1>3, <1>4, <1>5 DEF SharedInv

\* Every step keeps the invariant.
LEMMA StepSharedInv ==
  ASSUME Shared, IInv, AwaitInv, SharedInv, [SemNext]_allVars
  PROVE  IInv' /\ AwaitInv' /\ SharedInv'
<1>1. CASE UNCHANGED allVars
  BY <1>1, SharedStutter, FramedCall DEF allVars
<1>2. CASE SchedulerStep
  BY <1>2, SchedulerStepConserves
<1>3. ASSUME NEW p \in PID, NEW s \in SemId, NEW v \in InitValues, SOpen(p, s, v)
      PROVE  IInv' /\ AwaitInv' /\ SharedInv'
  BY <1>3, SOpenConserves, FramedCall DEF SOpen
<1>4. ASSUME NEW p \in PID, NEW s \in SemId, SWaitPasses(p, s)
      PROVE  IInv' /\ AwaitInv' /\ SharedInv'
  BY <1>4, SWaitPassesConserves, FramedCall DEF SWaitPasses
<1>5. ASSUME NEW p \in PID, NEW s \in SemId, SWaitBlocks(p, s)
      PROVE  IInv' /\ AwaitInv' /\ SharedInv'
  BY <1>5, SWaitBlocksConserves
<1>6. ASSUME NEW p \in PID, NEW s \in SemId, SPost(p, s) PROVE IInv' /\ AwaitInv' /\ SharedInv'
  BY <1>6, SPostKeptConserves, FramedCall, SPostGivenConserves
<1>7. ASSUME NEW p \in PID, NEW s \in SemId, SClose(p, s) PROVE FALSE
  BY <1>7 DEF SClose, SemCalling, Shared
<1>. QED  BY <1>1, <1>2, <1>3, <1>4, <1>5, <1>6, <1>7 DEF SemNext, SemCall

\* Where nobody kills another process, no token is lost either: what was put into a semaphore, less
\* what the waits that returned took out, is its value and those that a post has chosen.
THEOREM TokensStayConserved ==
  ASSUME Shared
  PROVE  SemSpec => []TokensConserved
<1>1. IInv /\ AwaitInv /\ SharedInv /\ [SemNext]_allVars => IInv' /\ AwaitInv' /\ SharedInv'
  BY StepSharedInv
<1>2. SharedInv => TokensConserved
  BY DEF SharedInv
<1>. QED  BY <1>1, <1>2, InitSharedInv, PTL DEF SemSpec
=============================================================================
