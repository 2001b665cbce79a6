------------------------------ MODULE Scheduler ------------------------------
(***************************************************************************)
(* The process table and the round-robin scheduler of                      *)
(* Kernel/task_manager/schedule.c, driven by the system calls of           *)
(* Kernel/IDT/sysCallDispatcher.c, the timer interrupt (IRQ 0) and the     *)
(* keyboard interrupt (IRQ 1).                                             *)
(*                                                                         *)
(* There is one core and every IDT gate is an interrupt gate, so a system  *)
(* call runs to its end with interrupts off unless it gives the CPU away   *)
(* through callTimerTick, i.e. "int 20h", the same handler as the timer's. *)
(* A system call is therefore one action; what can happen between two      *)
(* calls is a timer interrupt or a key.  The scheduler itself is broken    *)
(* into the steps of its loop, which nothing can interrupt (mode).         *)
(***************************************************************************)
EXTENDS Integers, Sequences, FiniteSets, Functions

CONSTANTS MaxPid,        \* bound: the last pid that getNewPID hands out
          PRIO_CAP,      \* the largest priority nice can give
          INIT_PRIO,     \* priority of a background process
          INIT_PRIO_AUG, \* priority of a foreground process
          Calls          \* the calls and events of the environment

AllCalls == {"add", "addFails", "kill", "ctrlC", "fault", "block", "unblock",
             "nice", "yield", "wait", "waitAny", "exit"}

ASSUME MaxPidAssumption == MaxPid \in Nat /\ MaxPid >= 2
ASSUME PriorityAssumption ==
  /\ PRIO_CAP \in Nat /\ INIT_PRIO \in Nat /\ INIT_PRIO_AUG \in Nat
  /\ INIT_PRIO <= PRIO_CAP /\ INIT_PRIO_AUG <= PRIO_CAP
ASSUME CallsAssumption == Calls \subseteq AllCalls

PID      == 0 .. MaxPid
IdlePid  == 0    \* haltFunc, created by initScheduler and taken off the queue
Overseer == 1    \* created by main; its program creates the shell and returns
Shell    == 2    \* its program never returns
NoProc   == -1   \* a NULL currentProcess

State == {"READY", "BLOCKED", "KILLED", "none"}
Mode  == {"user", "exit", "tick", "dispatch", "wild"}

VARIABLES
  newPIDVal,       \* the next pid
  state,           \* state of each process; "none": not created yet, or freed
  ppid, fg,        \* parent, and whether the process is in the foreground
  priority,        \* ticks of a quantum, minus one
  queue,           \* the pids of processes->first .. processes->last
  readySize,       \* processes->readySize
  currentProcess,  \* the pid of the process that has the CPU
  cyclesLeft,      \* ticks left of its quantum
  mode,            \* where the CPU is, see below
  returned         \* the Overseer has gone through exit()

(***************************************************************************)
(* mode = "user"      a process (or haltFunc) runs, interrupts are on      *)
(*        "exit"      between the two calls of exit(), interrupts are on   *)
(*        "tick"      scheduler() is entered, by a timer interrupt or by   *)
(*                    the "int 20h" of a call                              *)
(*        "dispatch"  scheduler() has put the old process away and looks   *)
(*                    for the next one                                     *)
(*        "wild"      the CPU returned from wrapper() to address 0         *)
(***************************************************************************)

pcb  == <<ppid, fg, priority>>
cpu  == <<currentProcess, cyclesLeft>>
vars == <<newPIDVal, state, pcb, queue, readySize, cpu, mode, returned>>

Queued == Range(queue)

\* What a state adds to readySize while its process is queued.
Ready(s) == IF s = "READY" THEN 1 ELSE 0

\* getProcessOfPID finds the current process and the queued ones: haltFunc's
\* node is in neither place unless it is running.
Exists(pid) == pid = currentProcess \/ pid \in Queued

\* A process that becomes ready, or loses the CPU, goes behind all the others.
ProcessQueue_InFront(pid, s) ==
  /\ queue' = <<pid>> \o queue
  /\ readySize' = readySize + Ready(s)
ProcessQueue(pid, s) ==
  /\ queue' = Append(queue, pid)
  /\ readySize' = readySize + Ready(s)

\* What setNewState adds to readySize.
Recount_Always(pid, s) == Ready(s) - Ready(state[pid])
Recount(pid, s) ==
  IF pid = currentProcess THEN 0 ELSE Ready(s) - Ready(state[pid])

\* A dead process keeps its state, and the current one is not counted.
Settable_Any(pid) == Exists(pid)
Settable(pid) == Exists(pid) /\ state[pid] # "KILLED"

SetNewState(pid, s) ==
  IF Settable(pid)
  THEN /\ state' = [state EXCEPT ![pid] = s]
       /\ readySize' = readySize + Recount(pid, s)
  ELSE UNCHANGED <<state, readySize>>

\* callTimerTick, when a call has changed the state of its own caller.
TickIfSelf(pid) == mode' = IF pid = currentProcess THEN "tick" ELSE mode

(***************************************************************************)
(* The state main() leaves when it executes _hlt: haltFunc and the         *)
(* Overseer exist, nobody has had the CPU.  A process that does not exist  *)
(* has the PCB fields of haltFunc.                                         *)
(***************************************************************************)
Init ==
  /\ newPIDVal = 2
  /\ state = [p \in PID |-> IF p \in {IdlePid, Overseer} THEN "READY" ELSE "none"]
  /\ ppid = [p \in PID |-> 0]
  /\ fg = [p \in PID |-> IF p = Overseer THEN 1 ELSE 0]
  /\ priority = [p \in PID |-> IF p = Overseer THEN INIT_PRIO_AUG ELSE INIT_PRIO]
  /\ queue = <<Overseer>>
  /\ readySize = 1
  /\ currentProcess = NoProc
  /\ cyclesLeft = 0
  /\ mode = "user"
  /\ returned = FALSE

(***************************************************************************)
(* System calls of the running process p.  The Overseer's program is one   *)
(* createProcess (the shell, in the foreground) and a return; the shell    *)
(* never returns; any other program may make any call at any time.         *)
(***************************************************************************)
Calling(p, call) ==
  /\ call \in Calls
  /\ mode = "user"
  /\ p = currentProcess
  /\ p \notin {NoProc, IdlePid}
  /\ IF p = Overseer THEN call = (IF newPIDVal = 2 THEN "add" ELSE "exit")
                     ELSE ~(p = Shell /\ call = "exit")

\* createPCB: only the child of a foreground process can be in the foreground.
ChildFg(p, asked) == IF fg[p] = 1 THEN asked ELSE 0

\* addProcess: a foreground child blocks its parent, which gives the CPU away.
Waits_AsAsked(p, asked) == asked = 1
Waits(p, asked) == ChildFg(p, asked) = 1

AddProcess(p, asked) ==
  /\ Calling(p, "add")
  /\ newPIDVal \in PID
  /\ p = Overseer => asked = 1
  /\ LET childFg == ChildFg(p, asked) IN
       /\ newPIDVal' = newPIDVal + 1
       /\ ppid' = [ppid EXCEPT ![newPIDVal] = p]
       /\ fg' = [fg EXCEPT ![newPIDVal] = childFg]
       /\ priority' = [priority EXCEPT ![newPIDVal] =
                         IF childFg = 1 THEN INIT_PRIO_AUG ELSE INIT_PRIO]
       /\ state' = [state EXCEPT ![newPIDVal] = "READY",
                                 ![p] = IF Waits(p, asked) THEN "BLOCKED" ELSE @]
       /\ ProcessQueue(newPIDVal, "READY")
       /\ mode' = IF Waits(p, asked) THEN "tick" ELSE mode
  /\ UNCHANGED <<cpu, returned>>

\* addProcess returns -1 after createPCB has taken a pid: fg out of range, or no
\* memory for the stack or for the copy of argv.
AddProcessFails(p) ==
  /\ Calling(p, "addFails")
  /\ newPIDVal \in PID
  /\ newPIDVal' = newPIDVal + 1
  /\ UNCHANGED <<state, pcb, queue, readySize, cpu, mode, returned>>

\* killProcess refuses haltFunc, the Overseer and the shell.
Killable(pid) == pid > Shell

KillProcess(pid) ==
  /\ IF Killable(pid) THEN SetNewState(pid, "KILLED") /\ TickIfSelf(pid)
                      ELSE UNCHANGED <<state, readySize, mode>>
  /\ UNCHANGED <<newPIDVal, pcb, queue, cpu, returned>>

Kill(p, pid) == Calling(p, "kill") /\ KillProcess(pid)

\* exceptionDispatcher kills the process that divided by zero or met an invalid
\* opcode.  The two protected programs do neither.
Fault(p) == Calling(p, "fault") /\ p > Shell /\ KillProcess(p)

\* ctrl-C, in the keyboard interrupt: killFgProcess.
FgTarget == currentProcess # NoProc /\ fg[currentProcess] = 1
                                    /\ state[currentProcess] = "READY"
CtrlC ==
  /\ "ctrlC" \in Calls
  /\ mode \in {"user", "exit"}
  /\ FgTarget
  /\ KillProcess(currentProcess)

\* blockProcess: the block system call, or sWait on a semaphore that is 0.
Block(p, pid) ==
  /\ Calling(p, "block")
  /\ SetNewState(pid, "BLOCKED")
  /\ TickIfSelf(pid)
  /\ UNCHANGED <<newPIDVal, pcb, queue, cpu, returned>>

\* unblockProcess: the unblock system call, or an sPost, which the keyboard
\* interrupt makes too, whatever it interrupts.
Unblock(pid) ==
  /\ "unblock" \in Calls
  /\ mode \in {"user", "exit"}
  /\ SetNewState(pid, "READY")
  /\ UNCHANGED <<newPIDVal, pcb, queue, cpu, mode, returned>>

\* setNewCycle clamps the priority; the running quantum keeps its length.
Clamped_FromBelow(prio) == IF prio < 0 THEN 0 ELSE prio
Clamped(prio) == IF prio < 0 THEN 0 ELSE IF prio > PRIO_CAP THEN PRIO_CAP ELSE prio

Nice(p, pid, prio) ==
  /\ Calling(p, "nice")
  /\ Exists(pid)
  /\ priority' = [priority EXCEPT ![pid] = Clamped(prio)]
  /\ UNCHANGED <<newPIDVal, state, ppid, fg, queue, readySize, cpu, mode, returned>>

Yield(p) ==
  /\ Calling(p, "yield")
  /\ cyclesLeft' = 0
  /\ mode' = "tick"
  /\ UNCHANGED <<newPIDVal, state, pcb, queue, readySize, currentProcess, returned>>

\* waitForPID puts the process it waits for in the foreground.  With "wait"
\* programs wait for their own children, as every program of the repository
\* does; with "waitAny" for any other process.
WaitForPID(p, pid) ==
  /\ \/ Calling(p, "waitAny") /\ pid # p
     \/ Calling(p, "wait") /\ ppid[pid] = p
  /\ Exists(pid)
  /\ fg' = [fg EXCEPT ![pid] = 1]
  /\ SetNewState(p, "BLOCKED")
  /\ mode' = "tick"
  /\ UNCHANGED <<newPIDVal, ppid, priority, queue, cpu, returned>>

\* The program returned: wrapper calls exit, which runs with interrupts on.  Its
\* killProcess refuses the Overseer.
Exit(p) ==
  /\ Calling(p, "exit")
  /\ state' = [state EXCEPT ![p] = IF Killable(p) THEN "KILLED" ELSE @]
  /\ returned' = (p = Overseer)
  /\ mode' = "exit"
  /\ UNCHANGED <<newPIDVal, pcb, queue, readySize, cpu>>

\* The timer interrupt, and the callTimerTick of exit.
TimerTick ==
  /\ mode \in {"user", "exit"}
  /\ mode' = "tick"
  /\ UNCHANGED <<newPIDVal, state, pcb, queue, readySize, cpu, returned>>

(***************************************************************************)
(* scheduler(): first the process that had the CPU, then the next one.     *)
(***************************************************************************)

\* The Overseer resumes inside exit, which returns to wrapper, which returns to
\* the 0 at the base of its stack.
Resume(p) == IF p = Overseer /\ returned THEN "wild" ELSE "user"

QuantumLeft_Blocked == currentProcess # NoProc /\ cyclesLeft > 0
                                       /\ state[currentProcess] # "KILLED"
QuantumLeft == currentProcess # NoProc /\ cyclesLeft > 0
                                       /\ state[currentProcess] = "READY"

KeepRunning ==
  /\ mode = "tick"
  /\ QuantumLeft
  /\ cyclesLeft' = cyclesLeft - 1
  /\ mode' = Resume(currentProcess)
  /\ UNCHANGED <<newPIDVal, state, pcb, queue, readySize, currentProcess, returned>>

\* From here to the end of the search no process has the CPU.
PutAway ==
  /\ mode = "tick"
  /\ ~QuantumLeft
  /\ currentProcess' = NoProc
  /\ mode' = "dispatch"
  /\ UNCHANGED <<newPIDVal, cyclesLeft, returned>>

\* haltFunc is never queued, and the first tick finds no current process.
NotQueued_Null == {NoProc}
NotQueued == {NoProc, IdlePid}

LeaveIdle ==
  /\ PutAway
  /\ currentProcess \in NotQueued
  /\ UNCHANGED <<state, pcb, queue, readySize>>

Requeue ==
  /\ PutAway
  /\ currentProcess \notin NotQueued
  /\ state[currentProcess] # "KILLED"
  /\ ProcessQueue(currentProcess, state[currentProcess])
  /\ UNCHANGED <<state, pcb>>

\* freeProcess: the PCB goes back to the heap (here, to its initial value).
FreePCB(p) ==
  /\ ppid' = [ppid EXCEPT ![p] = 0]
  /\ fg' = [fg EXCEPT ![p] = 0]
  /\ priority' = [priority EXCEPT ![p] = INIT_PRIO]

\* A foreground process that dies while it has the CPU wakes its parent.
WakesParent_Always(p) == Exists(ppid[p]) /\ state[ppid[p]] = "BLOCKED"
WakesParent(p) == Exists(ppid[p]) /\ state[ppid[p]] = "BLOCKED" /\ fg[p] = 1

FreeCurrent ==
  /\ PutAway
  /\ currentProcess \notin NotQueued
  /\ state[currentProcess] = "KILLED"
  /\ LET wakes == WakesParent(currentProcess) IN
       /\ state' = [state EXCEPT ![currentProcess] = "none",
                                 ![ppid[currentProcess]] = IF wakes THEN "READY" ELSE @]
       /\ readySize' = readySize + (IF wakes THEN 1 ELSE 0)
  /\ FreePCB(currentProcess)
  /\ UNCHANGED queue

\* The search loop runs when some queued process is READY, and looks at the head.
SomeReady_ButOne == readySize > 1
SomeReady == readySize > 0
Searching(s) == mode = "dispatch" /\ SomeReady /\ state[Head(queue)] = s

GiveCpu(p) ==
  /\ currentProcess' = p
  /\ cyclesLeft' = priority[p]
  /\ mode' = Resume(p)

RunHead ==
  /\ Searching("READY")
  /\ queue' = Tail(queue)
  /\ readySize' = readySize - 1
  /\ GiveCpu(Head(queue))
  /\ UNCHANGED <<newPIDVal, state, pcb, returned>>

RotateHead ==
  /\ Searching("BLOCKED")
  /\ queue' = Append(Tail(queue), Head(queue))
  /\ UNCHANGED <<newPIDVal, state, pcb, readySize, cpu, mode, returned>>

\* A process killed while it was queued: freed here, and its parent is not woken.
\* (The loop then reads the state of the freed node, still KILLED.)
ReapHead_Leaks ==
  /\ Searching("KILLED")
  /\ queue' = Tail(queue)
  /\ UNCHANGED <<newPIDVal, state, pcb, readySize, cpu, mode, returned>>
ReapHead ==
  /\ Searching("KILLED")
  /\ state' = [state EXCEPT ![Head(queue)] = "none"]
  /\ queue' = Tail(queue)
  /\ FreePCB(Head(queue))
  /\ UNCHANGED <<newPIDVal, readySize, cpu, mode, returned>>

RunIdle ==
  /\ mode = "dispatch"
  /\ ~SomeReady
  /\ GiveCpu(IdlePid)
  /\ UNCHANGED <<newPIDVal, state, pcb, queue, readySize, returned>>

\* Nothing is known of what follows a return to address 0.
Wild == mode = "wild" /\ UNCHANGED vars

SystemCall(p) ==
  \/ \E asked \in {0, 1} : AddProcess(p, asked)
  \/ AddProcessFails(p)
  \/ \E pid \in PID : Kill(p, pid)
  \/ Fault(p)
  \/ \E pid \in PID : Block(p, pid)
  \/ \E pid \in PID, prio \in -1 .. PRIO_CAP + 1 : Nice(p, pid, prio)
  \/ Yield(p)
  \/ \E pid \in PID : WaitForPID(p, pid)
  \/ Exit(p)

Interrupt == TimerTick \/ CtrlC \/ \E pid \in PID : Unblock(pid)

schedulerLoop == RunHead \/ RotateHead \/ ReapHead \/ RunIdle
scheduler == KeepRunning \/ LeaveIdle \/ Requeue \/ FreeCurrent \/ schedulerLoop

Next == (\E p \in PID : SystemCall(p)) \/ Interrupt \/ scheduler \/ Wild

Spec == Init /\ [][Next]_vars

\* The kernel runs its own code to the end, and the timer keeps ticking.
Fairness == WF_vars(scheduler) /\ WF_vars(TimerTick)
FairSpec == Spec /\ Fairness
(***************************************************************************)
(* Properties                                                              *)
(***************************************************************************)

\* The type invariant of the process table (the globals of schedule.c).
TypeOK ==
  /\ newPIDVal \in 2 .. MaxPid + 1
  /\ state \in [PID -> State]
  /\ ppid \in [PID -> PID]
  /\ fg \in [PID -> {0, 1}]
  /\ priority \in [PID -> 0 .. PRIO_CAP]
  /\ queue \in Seq(PID)
  /\ readySize \in Nat
  /\ currentProcess \in PID \cup {NoProc}
  /\ cyclesLeft \in 0 .. PRIO_CAP
  /\ mode \in Mode
  /\ returned \in BOOLEAN

\* Every live process is in one place: it has the CPU or it is at one position of
\* the queue, and haltFunc is never queued.  getProcessOfPID, which looks in those
\* two places, finds it; no freed node is left in either.
InOnePlace ==
  /\ \A i, j \in DOMAIN queue : queue[i] = queue[j] => i = j
  /\ currentProcess \notin Queued
  /\ IdlePid \notin Queued
  /\ \A p \in PID \ {IdlePid} : state[p] # "none" <=> Exists(p)

ReadyQueued == {p \in Queued : state[p] = "READY"}

\* readySize counts the READY processes of the queue, through every change of
\* state, queueing and dequeueing.  The search loop of scheduler has no other
\* test: one too many and it dequeues from an empty queue, one too few and the
\* machine idles while somebody can run.
ReadyCount == readySize = Cardinality(ReadyQueued)

\* A process that has the CPU in its own code is READY: neither a blocked nor a
\* killed one is ever resumed, whoever blocked or killed it and whenever.
OnlyReadyRuns == mode = "user" => currentProcess = NoProc \/ state[currentProcess] = "READY"

\* haltFunc gets the CPU only when no process is READY.
IdleOnlyWhenNobodyCanRun ==
  [][currentProcess' = IdlePid /\ currentProcess # IdlePid
       => \A p \in PID \ {IdlePid} : state[p] # "READY"]_vars

\* A killed process stays killed until its node is freed, and never gets the CPU
\* again; a freed pid never comes back to life.
DeadStayDead ==
  [][\A p \in PID :
       /\ state[p] = "KILLED" => /\ state'[p] \in {"KILLED", "none"}
                                 /\ currentProcess' = p => currentProcess = p
       /\ state[p] = "none" /\ p < newPIDVal => state'[p] = "none"]_vars

\* A READY process that waits in the queue gets the CPU, unless somebody blocks or
\* kills it first (or the machine is lost).
NoStarvation ==
  \A p \in PID : state[p] = "READY" /\ p \in Queued
                    ~> currentProcess = p \/ state[p] # "READY" \/ mode = "wild"

\* The node of a killed process is freed in the end, unless the machine idles,
\* with nobody to run, again and again.
DeadAreFreed ==
  \A p \in PID : state[p] = "KILLED"
                    ~> state[p] = "none" \/ currentProcess = IdlePid \/ mode = "wild"
(***************************************************************************)
(* Waiting in the foreground.  The next two hold when nobody kills another *)
(* process and programs wait only for their own children.                  *)
(***************************************************************************)
Awaits(p, c) == ppid[c] = p /\ fg[c] = 1 /\ state[c] # "none"

\* A process blocked by a foreground createProcess or by wait still has the child
\* it waits for, in the foreground: it was not woken for nothing and left blocked
\* again, and the child did not go without waking it.
BlockedParentHasChild ==
  \A p \in PID : state[p] = "BLOCKED" => \E c \in PID : Awaits(p, c)

\* It goes on in the very step that frees that child, and the child was the only
\* process it awaited.
WokenByAwaitedChild ==
  [][\A p \in PID : state[p] = "BLOCKED" /\ state'[p] = "READY"
       => \E c \in PID : /\ {d \in PID : Awaits(p, d)} = {c}
                         /\ state[c] = "KILLED" /\ state'[c] = "none"]_vars

(***************************************************************************)
(* What the repository says and the code does not do.                      *)
(***************************************************************************)

\* README.md, "ctrl+c: mata al proceso en FG": while a foreground program is
\* alive, ctrl-C finds it.
Foreground == {p \in PID : p > Shell /\ fg[p] = 1 /\ state[p] \in {"READY", "BLOCKED"}}
CtrlCFindsForeground ==
  mode = "user" /\ Foreground # {} => FgTarget /\ currentProcess \in Foreground
==============================================================================
