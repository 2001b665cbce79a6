# A verification project for the kernel of TP2-SO

The repository is a small 64-bit kernel for one core (written for an operating-systems course), with the
programs that run on it: preemptive round-robin scheduling with priorities, foreground and background processes,
semaphores, pipes, a keyboard driver, two memory managers (free list and buddy), a shell and a few test programs.
This directory holds TLA+ modules that model it, TLC runs that check them on small instances, and theorems
checked by TLAPS.

## 1. Inventory of the system

| Component | State | Operations | Interacts with |
|---|---|---|---|
| Process table and scheduler (`Kernel/task_manager/schedule.c`) | a list of PCBs with `readySize`; `currentProcess`, `cyclesLeft`, `newPIDVal`, the node of `haltFunc` | `addProcess`, `killProcess`, `killFgProcess`, `blockProcess`, `unblockProcess`, `setNewCycle` (nice), `yield`, `waitForPID`, `exit`, `scheduler` | called by the system calls, the timer, the keyboard (ctrl-C), the exception handler and the semaphores |
| Interrupt entry points (`Kernel/asm/_interrupts.asm`, `Kernel/IDT/*`) | tick counter | IRQ 0 (timer), IRQ 1 (keyboard), `int 80h` (system calls), exceptions 0 and 6, `int 20h` (`callTimerTick`) | every kernel component; all gates are interrupt gates, so the kernel runs with interrupts off |
| Kernel start (`Kernel/kernel.c`, `moduleLoader.c`) | none afterwards | `main`: initialise memory, scheduler, keyboard, create the Overseer, enable interrupts, `hlt` | scheduler |
| Semaphores (`Kernel/sync/semaphores.c`) | a list of semaphores: value, listeners, the array `blockedPIDs` | `sOpen`, `sWait`, `sPost`, `sClose`, `sStatus` | block and unblock processes |
| Pipes (`Kernel/inter_process_comun/pipes.c`, `drivers/IOPathing.c`) | 12 slots: a 1024-byte ring, the ids of two semaphores, a count of processes | `pOpen`, `pClose`, `pRead`, `pWrite`, `putCharPipe` | two semaphores each |
| Keyboard (`Kernel/drivers/keyboardDriver.c`, `libraries/staticQueue.c`) | modifier flags, a 50-slot ring, semaphore 8 | `keyboardHandler`, `getchar` | posts the semaphore, ctrl-C kills |
| Free-list memory manager (`memory_manager/memoryManager.c`) | a circular list of free blocks | `memInit`, `mallocCust`, `freeCust` | used by processes, semaphores, user programs |
| Buddy memory manager (`memory_manager/buddy.c`, `buddyList.c`) | one free list per level | the same | the same, chosen at build time |
| Dining philosophers (`Userland/.../phylo.c`) | state of each philosopher, a mutex, a semaphore each | `takeForks`, `placeForks`, `addPhilosopher`, `removePhilosopher`, `printTable` | semaphores, createProcess, kill |
| Test programs (`testSync`, `testMemory`, `testProcess`) | local | | system calls |
| Shell (`Userland/.../shell/`) | input line, user name, the id of the next pipe | `processChar`, `processCommand`, `runPipe`, the commands | createProcess, wait, pipes |
| Screen (`drivers/videoDriver.c`, `libraries/stringLib.c`) | the cells and the cursor | `sys_write`, print, remove, scroll, clear | called by programs and by the shell's echo |
| Conversions (`libraries/utils.c`, twice) | none | `intToStr`, `strToInt`, `pow`, `strtok`, comparisons | called everywhere |
| Image (`Image/`, `moduleLoader.c`) | the packed image | `buildImage`, `loadModules`, clearing of the bss | brings kernel and modules to memory |
| Fonts, clock, bootloader (Pure64, BMFS) | | | stateless, or third-party |

What is hard in it:

* **Interleaving.** A process can lose the CPU after any instruction of its own code, and inside `exit()`, which runs with
  interrupts on. The keyboard interrupt kills (ctrl-C) and unblocks (`sPost`) whatever it interrupts. A process can block,
  kill, unblock, or change the priority of any other one.
* **Derived state kept by hand.** `readySize` is adjusted in five places by different rules, and is all the search loop looks at.
  A process must be found in exactly one of `currentProcess` and the list.
* **Blocking inside a system call.** `sWait` gives the CPU away in the middle of the kernel; `pWrite` does so many times.
* **Waiters that die.** A killed process stays in a semaphore's array and in its parent's expectations.
* **Hand-written lists and rings** with boundary cases: the only free block, an exact fit, a full queue, an empty level.

What makes each component correct:

* Scheduler: every process in one place; `readySize` exact; only READY processes resume; the dead stay dead and are freed; the
  order is a round-robin line, so nobody starves; a parent that waits is woken by the child it waits for, and only by it.
* Semaphores: the tokens handed out are the initial value plus the posts; a waiter goes on only when a post chose it; waiters are
  served in order; a post with a live waiter wakes one.
* Pipes: the characters read are the characters written, in order; the slot lives as long as its users.
* Keyboard: what `getchar` returns are the keys in order; the semaphore counts the queued characters.
* Memory: allocated blocks are disjoint, inside the heap, and nothing is lost: after freeing all, the heap is whole.
* Philosophers: neighbours never eat at the same time; a hungry one eats; the table can be changed at any time.
* Shell: the program that runs is the one the line names, with its words; of a pipeline nothing is started but what the line names; the prompt comes back; a pipeline that
  could be started leaves nothing behind.
* Screen: what was written since the last newline can be read where the cursor is.
* Conversions: numbers read back. Tests: they never print their error messages. Image: every module arrives whole.

The hazards found while reading, each at its line, are listed under `hazards` in `PROJECT.json`, with the properties that watch
over them or, for the few without one, the reason.

## 2. The modules

The kernel:

| Module | What it is |
|---|---|
| `Scheduler` | the process table and the scheduler, with every call that changes it; its properties |
| `RoundRobin` | the abstract specification of the dispatching: a line of ready processes, one that holds the CPU |
| `SchedulerRefinement` | the refinement mapping; states that `Scheduler` implements `RoundRobin` |
| `ProcessList` | the linked list behind the queue of `Scheduler`, node by node (EXTENDS `SchedulerRefinement`) |
| `Semaphores` | the semaphores, composed with every step of `Scheduler` (it EXTENDS it) |
| `Sync` | what the semaphores promise: the abstract specification that `Semaphores` implements, and on which the programs are modelled |
| `FreeList`, `Buddy` | the two memory managers |
| `Heap` | the abstract specification of a memory manager, implemented by `FreeList`, used by `TestMem` |
| `StaticQueue`, `Keyboard` | the ring of characters; the keyboard's handler and `getchar` on it (over `Sync`) |
| `Pipes` | the pipes (over `Sync`) |
| `Stream` | the abstract stream of characters that the keyboard and each pipe implement |
| `Screen` | the text on the screen |
| `Image` | the packer and the start of the kernel |
| `KernelUtils` | the kernel's conversions |

The programs:

| Module | What it is |
|---|---|
| `Commands`, `Shell` | the commands and what each asks of the system; the prompt's buffer and the cutting of the line |
| `Prompt` | the abstract specification of the prompt, implemented by `Shell` |
| `Pipeline` | `left \| right`: shell, two programs, keyboard, pipe and ctrl-C (EXTENDS `Keyboard` and `Pipes`) |
| `SyncTest`, `TestMem`, `TestProcesses` | the commands synctest, memtest and schedtest |
| `Tests` | what the tests are to show (EXTENDS the three) |
| `Phylo` | the dining philosophers (over `Sync`) |
| `Utils` | the conversions of the userland |
| `WordsOfLine` | the words of a line: the reference for what cuts lines, in `Prompt` and `Conversions` |
| `Conversions` | what the conversions of `Utils` and `KernelUtils` are for |
| `Programs` | the programs of one run, one of which runs |

The proofs: `SchedulerProofs` (also the waiting of parents for children, the linked list, the refinement of `RoundRobin`, and the
semaphores), `SyncProofs` (lemmas on the calls of `Sync`), `ProgramProofs` (the tests, the philosophers, the image and the screen), `PipelineProofs` (the
keyboard, the pipes and the pipeline), `TextProofs` (the shell and the conversions), `FreeListProofs`, `BuddyProofs`, and the lemmas on naturals and
sequences they share, `DataLemmas`.

The layers are joined by refinement. `Semaphores` on `Scheduler` implements `Sync` (checked by `sem_kill` and proved), so the models
of programs need not carry the process table: a process that sleeps in `Sync` takes no step until it is woken, and one that does not is given the CPU
sooner or later, which is what `sched` shows of the scheduler. `Keyboard` and `Pipes` implement `Stream` on `Sync`, and `Pipeline` puts both
under the shell.

### How `Scheduler` corresponds to the code

State. `newPIDVal`, `readySize`, `currentProcess` and `cyclesLeft` are the variables of `schedule.c` with those names (`readySize`
is a field of its list). The list `processes->first .. processes->last` is the sequence `queue` of pids. The fields of a PCB are the
functions `state`, `ppid`, `fg` and `priority` over pids; `"none"` stands for a PCB that has not been created or was freed, and the
fields of such a process are reset, so that no state depends on freed memory. `mode` says what the CPU executes: a program
(`"user"`), the gap between the two kernel calls of `exit()` (`"exit"`), the entry of `scheduler()` (`"tick"`), its search loop
(`"dispatch"`), or unknown code after a return to address 0 (`"wild"`). During the search `currentProcess` is `NoProc`: the code
still holds the old pointer there, but does not read it before it is overwritten.

Actions. One per system call (`AddProcess`, `AddProcessFails`, `Kill`, `Block`, `Unblock`, `Nice`, `Yield`, `WaitForPID`,
`Exit`), one each for the exception (`Fault`), ctrl-C (`CtrlC`) and the timer (`TimerTick`), and one per branch of `scheduler()`:
`KeepRunning`, `LeaveIdle`, `Requeue` and `FreeCurrent` put the old process away, `RunHead`, `RotateHead`, `ReapHead` and `RunIdle` are
the turns of the search loop. A system call is one action because every gate is an interrupt gate: the kernel runs with interrupts off
until it returns or gives the CPU away with `int 20h`, which the model shows as `mode = "tick"`. `exit()` is called by `wrapper` in
the process's own context, outside any gate, so it is two actions and interrupts come between them.

Programs. The Overseer (pid 1) creates the shell in the foreground and returns; the shell (pid 2) never returns; every
other program may make any call with any argument at any time. The constant `Calls` selects the calls of a run. With `"wait"` a program
waits only for its own children, as every program in the repository does; with `"waitAny"` for any other process. `sWait` on an empty semaphore
is `blockProcess` of the caller and `sPost` is `unblockProcess` of a waiter, which the keyboard interrupt does too, so `Unblock` has no caller.

Abstractions: stacks, register frames, argv copies, names and file descriptors are left out; the pointers of the list are a
sequence here (`ProcessList` keeps them); the read of a freed node in the search loop returns `KILLED`, as it does with
both memory managers, which do not touch the bytes that hold it.

### How `Semaphores` corresponds to the code

The list of semaphores is the function `sem` from ids to records (`value`, `listeners`, `blockedPIDs`) or `NoSem`; the order of the list
matters to nobody but the printing. A system call is atomic, but for one point: `sWait` on an empty semaphore calls `blockProcess` of its
caller, and returns 0 when the scheduler gives that process the CPU again. `waitsFor` says in whose `sWait` each process is suspended, and
`SchedulerStep`, which takes any step of `Scheduler`, ends the wait of the process that gets the CPU (`Returns`). The spin lock `mutex` is
taken and released with interrupts off, so it is always found free, and is left out. `sPost` wakes with the `SetNewState` of `Scheduler`, which
does nothing for a dead process, as in the code.

`opened` (which semaphores a program has open) and `tokens` are not in the code. The first describes the programs: with the calls `"sWait"`, `"sPost"` and
`"sClose"` a program uses what it has open, like `inc` of `testSync.c`; with `"sWaitAny"` and `"sPostAny"` it uses any semaphore
that exists, as philosophers, the users of a pipe and the readers of the keyboard do. `tokens` counts what went into a semaphore (initial value,
posts) less the waits that returned, so that the properties can compare it with what the code keeps.

### How `FreeList` corresponds to the code

The heap is counted in headers of 16 bytes, as the code does its pointer arithmetic. `size` and `ptr` are the header fields by unit (0 where there is
no header: what a program writes into its block is not represented), `startingNode` is the code's, `inUse` the set of blocks the programs hold.
The `for` loop of `mallocCust` visits `Nth[1]`, `Nth[2]`, ... up to `startingNode` (`Turn`); the call is one of `MallocNone`,
`MallocExact`, `MallocSplit`. `FreeCust` is the whole of `freeCust`: the walk stops at `Min(Stops(b))`, the two early returns are `IsNode` and
`Absurd`, and `Link` joins the neighbours. `memInit` adds a unit to the region, and so does `TotalUnits`.

### How `Buddy` corresponds to the code

The heap is counted in blocks of 16 bytes. `level` and `free` are the header fields, `levelsList` the circular lists as sequences (pushed and popped at the
end, removed anywhere: `Without`). `Pow2` is `BIN_POW`, and `BuddyOf` flips a bit of the address as the exclusive or of `findBuddy` does. `Malloc` is the pop and all the halvings;
`Free` all the joins. `Reached` replaces the `while` loop: the highest level up to which every buddy joins. When no level has a block the code pops
`levelsList[levels]`, which is no list, and works on with the block at address 0: `lost`, after which the model stops.

### How `ProcessList` corresponds to the code

A node is named by its pid. `list` holds `first`, `last`, `size` and the `next` of every node; `processQueue` and `processDequeue` are the two
functions of that name, with their tests for the empty list. Memory that `mallocCust` hands out, and a node that was freed, hold `Junk`. Each step of
`Scheduler` that queues or dequeues does it on the list too; the others leave it alone. A node that is queued on an empty list keeps its old
`next`, as in the code: `ListIsTheQueue` says that nobody ever follows it.

### How `Sync` corresponds to the code

`AfterOpen`, `AfterWait`, `AfterPost` and `AfterClose` are the calls of `semaphores.c` as operators on the whole list of semaphores, because a `pRead` or
`pWrite` makes several in one system call. `Sleeps` says that a wait would sleep. The variable is implemented by that of `Semaphores`
itself; what the refinement hides are the process table, the interrupts and the dead.

### How `Keyboard` and `StaticQueue` correspond to the code

`StaticQueue` is the ring of `staticQueue.c`: indices, size, the drop on a full ring, the 0 of an empty one. `PressKey` and the actions of the modifiers are
the cases of `keyboardHandler`: the post comes before the insertion and also when the ring drops the key, releasing one shift releases
both, caps lock and shift cancel out for letters. The scan code table is a few of its rows, one letter for each control key and one that is
no letter. A `getchar` without a token sleeps inside its `sWait`, and removes its character when it runs again: `getting`. ctrl-S
copies registers and is left out; ctrl-C is in `Scheduler` and `Pipeline`. The semaphore stands for any number of tokens up to `MAX_TOKENS`.

### How `Pipes` and `Pipeline` correspond to the code

`pipes` is `pipesArray`; each slot has its two semaphores by id, `lockR` for what can be read and `lockW` for what can be written. A `pRead` or `pWrite` that
sleeps keeps its slot, and what it still has to write, in `inCall`: it goes on with that slot whatever happened to it meanwhile, as the code does
with its index. `newPipe` answers the id of the pipe, which `pOpen` takes for an index: the count goes to another slot, or past the array
(`Counted`). So the creator is never counted, and the first `pClose` frees the slot; in the repository's only use there is just one.

`Pipeline` is `runPipe` call by call, with each failure: no free slot, no memory for the first or second semaphore, a wrong name on the right or on the left. A program
that finds no memory fares like one whose name is wrong. The two programs read until EOF. `putchar` passes the address of one character where a string is expected, and the shell writes EOF that way: whatever
follows on the stack up to a 0 is written too (`StackTail`). A left program with a wrong name makes `runPipe` return before its `pClose`, which
leaves the slot in use, as does a `pOpen` that fails half way: `leaked` counts them.

### How the other programs correspond to the code

* `SyncTest`: `inc` of `testSync.c` with the yield between the read and the write of the global variable, each call a step.
* `Phylo`: each call and each update of the table is a step of its process; `addPhilosopher`, `removePhilosopher` and the end of the problem are the
  steps of the main program, driven by the keys `a`, `d` and `q`. Semaphores and memory are always to be had.
* `Shell`: the buffer is changed in place by `tokenizeBuffer`, in the memory that begins at it: behind the buffer come the index, which stands for a
  character when the buffer is full, and the user name. A symbol is a character or a group of characters that stays together (the name of a command).
  `Commands` has a row for each command of the table that reads its words or makes a call.
  `asked` is what came of the last key: the programs that were started, or why there is none. `runPipe` opens the pipe, starts the right program and only then looks
  at the left name, so its outcomes are `denied` (no slot, or no memory for the pipe or the right program), `refused` (the right name is wrong),
  `rightAlone` (the left name is wrong, or the left program finds no memory: the line is called not valid, the right program runs) and `pipeline`. A program that
  changes the user's name does so wherever it was started (`Started`, `NewNames`), at once: of two in one pipeline either may be the last.
* `Prompt` promises nothing of a line that fills the buffer, and lets an empty line be refused or fault: see below. Of a pipeline it promises that no program is started
  but those the line names, both when both names are right and the system has what they need, and the left one never without the right one; it does not promise
  that a line called not valid starts nothing, which the code does not keep.
* `Screen`: cells and cursor; the cursor waits past the end of a full row; the length of a write is a byte; `Writes` is one turn of the loop of `sys_write`, whose rest is in `output`.
* `Utils`, `KernelUtils`: pure functions, evaluated at the initial states of their part of `programs`, on every number and line listed there. Loops are folds
  over the characters, or recursive functions where the number of turns is not that of the characters (`Remainders`, `pow`, `log2`). `Extended` is the loop that
  `strToDouble` and the kernel's `strToInt` share. Integers are those of TLA+: what is
  stated of a conversion is about the numbers that fit in its C types (`itoa` and `strToInt` of the userland compute in `int`, the others in 64 bits); and of
  `strToDouble`, whose result is a `double`, the model keeps the digits and the number of places, without rounding.
* `Conversions`: `Tokens` and `KernelTokens` are the calls of strtok that a caller makes one after the other, up to the NULL.
* `TestMem`: the three loops of `testMm.c` over the promise of `Heap`, which `FreeList` keeps. `TestProcesses`: `testProcesses.c` with its
  account beside a small process table.
* `Image`: `buildImage` writes the kernel and the number of modules, `AppendModule` (one turn of its loop) the size and the bytes of each, `initializeKernelBinary` clears the bss and `loadModules` copies each module to its place.
* `Programs`: the state of every program, and `program`, which says which of them runs. The others stay where they start, so the run
  is the sum of the programs and not their product.

## 3. The runs

| Run | Module | Result | Question |
|---|---|---|---|
| `sched` | `ProcessList` | passes | With every call by anybody in any order: is the table consistent (`InOnePlace`), is `readySize` exact (`ReadyCount`), do the pointers form the queue (`ListIsTheQueue`), does only a READY process run (`OnlyReadyRuns`), does `haltFunc` run only when nobody can (`IdleOnlyWhenNobodyCanRun`), is death final (`DeadStayDead`), is the dispatching a round-robin line (`ImplementsRoundRobin`), does every READY process get the CPU (`NoStarvation`), and is every killed one freed (`DeadAreFreed`)? |
| `sched_wait` | `ProcessList` | passes | Is a parent that waits in the foreground woken by the death of exactly the child it awaits (`WokenByAwaitedChild`), and is there always such a child (`BlockedParentHasChild`)? |
| `sched_ctrlc` | `Scheduler` | violation | README: "ctrl+c: mata al proceso en FG". A foreground program that is blocked, or queued behind a background one, is missed. |
| `sem_kill` | `Semaphores` | passes | Programs open, wait, post, close, and are killed at any moment: is whoever sleeps in the array, and nobody alive that does not (`WaitersAreListed`); does the array hold (`ArrayFits`); does nobody wait for a semaphore that has tokens (`NoTokenWhileWaiting`); is no token taken twice (`NoTokenForged`); do they implement the abstract semaphores (`ImplementsSync`)? |
| `sem_live` | `Semaphores` | passes | A semaphore shared by processes that did not open it, nobody killed: are tokens conserved exactly (`TokensConserved`), and does everybody who waits go on while posts keep coming (`WaitersAreServed`)? |
| `freelist` | `FreeList` | passes | After any sequence of calls: does every unit belong to one block (`HeapIsTiled`), is the list in address order and fully joined (`ListIsOrdered`), and is a request refused only when no gap is large enough (`ImplementsHeap`)? |
| `freelist_all` | `FreeList` | violation | `testMm.c` prints "ERROR!" when a block does not keep its bytes. When the only free block is an exact fit it is handed out and stays in the list, and blocks overlap. |
| `buddy` | `Buddy` | passes | After any sequence of calls: do headers and lists agree (`HeadersMatchLists`), does every unit belong to one aligned block (`HeapIsTiled`), and does a request find no block only when the heap has none (`NoHiddenBlock`)? |
| `buddy_full` | `Buddy` | violation | `testMm.c` prints "No memory!" when the answer is NULL. A request the heap cannot serve is not answered: a list past the last level is popped. |
| `programs` | `Programs` | passes | A pipeline: does everything the left program read reach the screen, once and in order (`PipelineDelivers`), does each slot keep its characters (`PipesAreStreams`) and outlive its users (`SlotOutlivesUsers`), does the prompt come back (`ShellComesBack`)? Keyboard: are keys read in order, none twice (`KeysAreAStream`), none stuck (`KeysHaveTokens`)? synctest: `NoUpdateIsLost`. The prompt: does it run the line that was typed, and start what the line names and nothing else, also where a name is wrong or the pipe is denied (`ImplementsPrompt`)? And `EchoIsTheLine`, `ConversionsAgree`, `TestsPass`, `ModulesArriveWhole`. |
| `phylo` | `Phylo` | passes | While philosophers come, go and the problem ends: does a removal add at most one token to the table's mutex, and are no two neighbours `EATING` before the first one (`TableIsSafe`), and until the first one is removed does somebody eat again and again (`SomebodyEats`)? |
| `phylo_forks` | `Phylo` | violation | README: "phylo: resuelve el problema de los filósofos". Two neighbours eat at once: each philosopher's semaphore begins with a token (`phylo.c:151`), so that the first wait passes without the forks. |

Every property has a mutant in `PROJECT.json`: a change of one definition, as a plausible slip in the code would make it, that
TLC must find.

### Bounds

* `sched`: `MaxPid = 4` gives `haltFunc`, the Overseer, the shell and two programs that can be parent and child, siblings, or strangers
  that kill each other. Pids are never reused; three programs were tried once (`MaxPid = 5`, ten million states) and showed nothing new.
  `PRIO_CAP = 1` with priorities 0 and 1 distinguishes a quantum that ends at once from one that is continued; `nice` is tried on both sides
  of the range. When all pids are used no process is created. `sched_wait` has fewer calls and goes to `MaxPid = 7`, for grandchildren and for
  several children of one parent.
* `sem_kill`, `sem_live`: four programs, one semaphore, values up to `MAX_VALUE = 2` (no post is made at that value) and an array of two (16 in the code),
  so that the cap on listeners is reached, waiters queue behind each other, and the semaphore is closed and opened again. Priorities do not
  matter here and are 0.
* `freelist`: 14 units and blocks of 2, 3 and 4 units: up to seven blocks, exact fits, remainders too small to be of use, and every join.
* `buddy`: five levels, blocks of 32, 64 and 128 bytes in a heap of 256: three levels of joins, and requests on both sides of a power of two.
* `programs`, the pipeline: two slots (12) of two characters (1024), two pipelines one after the other, four keys: a third character fills the pipe,
  the writer sleeps, the second pipeline finds the slot that the first gave back or left behind. The commands are `filter`, `wc` and a wrong name (`cat` is `filter` without
  its test). Keyboard: a ring of two (50), two readers, two keys with modifiers, up to three tokens: the ring overflows, and both
  readers sleep. synctest: two processes that add and two that subtract, two rounds.
* `programs`, the rest: a line of six symbols (150) and three words (4) with two sets of symbols, so that lines fill and words exceed their
  number; a screen of 3 by 2 (124 by 46) and lengths modulo 4 (256), with eight characters written: rows wrap, scroll and are removed; 22
  numbers around the powers of the three bases, and every line of up to four characters; memtest with three blocks in five units; schedtest
  with two processes; an image of two modules of up to two bytes each.
* `phylo`: two philosophers at least, three at most, two keys besides `q`: one joins, one leaves, or both.

Deadlock is checked in every run but `programs`, `phylo` and `phylo_forks`, whose programs end and whose user may stop typing.

### What the passing runs leave out, on purpose

* `sched_wait` has no `kill`, `block`, `unblock` and `waitAny`. With `kill`, a foreground child that dies while it is queued is freed by
  the search loop, which does not wake its parent (`schedule.c:158`); with `waitAny`, the process awaited may be dead already or be nobody's child.
  In both cases the caller stays blocked for ever.
* The Overseer returns only if somebody unblocks it (`unblock 1`). `killProcess` refuses it, so `exit()` comes back to `wrapper`, which returns to address 0
  (`schedule.c:277`). The model has that as the mode `"wild"`; no property of `sched` says anything of what follows.
* `sem_kill` and `sem_live` have no `block` and `unblock` calls on processes that wait for a semaphore: one woken that way leaves `sWait` without a token
  (`schedule.c:347`). `sem_live` has no `kill`: a post whose token goes to a dead waiter is lost (`semaphores.c:104`), so tokens are conserved only
  without it. In `sem_kill` only listeners wait: processes that wait without opening are not counted by the cap on the array.
* `freelist` (`TakesAllOfBase = FALSE`): no request is exactly what is left of the block at the base of the heap. As long as that block stays in the
  list it is the sentinel the code otherwise lacks. With 64 MB the case is rare; `freelist_all` shows what happens in it. A second defect needs the same case:
  a block freed right below the only free one is linked to a header that was just absorbed (`memoryManager.c:100`).
* `buddy` (`Exhausts = FALSE`): no request comes when no block is left for it; `buddy_full` shows what happens then.
* The pipeline: ctrl-C meets only a program that is not inside a call, since it must have the CPU. The programs on the right read up to EOF, as `cat`, `wc` and
  `filter` do. A command that ends without reading (any other of the shell's) would leave the left one asleep on a full pipe, where ctrl-C does not find it.
  `ShellComesBack` begins where the left program is dead or has its EOF to read: nothing obliges the user to type one.
* `phylo`: `removePhilosopher` posts the mutex without having waited for it (`phylo.c:172`), so each removal lets one more process into the
  table; and it does not test the neighbours of one that was eating (`phylo.c:168`), who may then wait for ever. `TableIsSafe` counts the
  removals, `SomebodyEats` speaks of the time before the first.

These are facts of the code, not of the model: the properties fail as soon as the calls are added.

### Other facts met while modelling

Found by reading, where the model follows the code and the properties are stated around them:

* A line of exactly 150 characters is not terminated: what follows the buffer in memory is read as part of it (`shell.c:121`). An empty line makes `processCommand`
  read `argv[-1]` (`shell.c:156`).
* `runPipe`'s `pClose` after its `return` is never reached (`shell.c:282`): with a wrong left name the line is called not valid (`shell.c:150`) after its right program was
  started, and the program and the pipe stay. A pipe whose second semaphore finds no memory keeps its slot too (`pipes.c:147`).
* Ids of semaphores of pipes grow from 420; after some 290 pipes they meet those of the philosophers (999, 1000, ...).
* The kernel's `pow` squares what it should multiply (`Kernel/libraries/utils.c:110`), so its `strToHex` is right up to three digits, which is what
  `ConversionsAgree` says of it. `intToStr` of the userland reverses the byte behind the digits too (`Userland/SampleCodeModule/libraries/utils.c:374`), and `time` shows
  digits in the wrong place: it is modelled, and no property is stated of it.
* `testMm.c` returns on "No memory!" with the blocks it has (`testMm.c:36`).
* `addPhilosopher` returns with the mutex when memory runs out (`phylo.c:148`).

### Fairness

`sched` and `sem_live` assume weak fairness of `scheduler()` (kernel code with interrupts off runs to its end) and of `TimerTick` (the
timer keeps ticking). Nothing is assumed of the programs: `WaitersAreServed` has the posts that keep coming as its premise.
`DeadAreFreed` allows the machine to idle: a killed process that waits in the queue is met only by the search loop, which does not start
when nobody is READY. A `mode` of `"wild"` excuses both properties of `sched`.

`programs` and `phylo` assume weak fairness of every process: one that can take a step, because it does not sleep, does so in the end. That is
`NoStarvation`, which `sched` shows of the scheduler. Nothing is assumed of the user: no key need be pressed.

## 4. The theorems

| Module | Theorem | States |
|---|---|---|
| `SchedulerProofs` | `Invariance` | the inductive invariant `IInv` |
| | `TypeCorrect`, `EveryProcessInOnePlace`, `ReadySizeIsExact`, `OnlyReadyProcessesRun` | invariants of `sched` |
| | `IdleRunsLast`, `KilledIsFinal` | action properties of `sched` |
| | `BlockedWaitsForItsChild`, `WokenByItsChild` | the properties of `sched_wait`: `BlockedParentHasChild`, `WokenByAwaitedChild` |
| | `PointersAreTheQueue` | `ListIsTheQueue` |
| | `SchedulerIsRoundRobin` | `ImplementsRoundRobin`: `Scheduler` implements `RoundRobin` |
| | `SemaphoresAreTyped`, `LiveWaitersAreListed`, `WaitersFit`, `TokensAreTaken`, `TokensAreNotForged` | the invariants of `sem_kill` |
| | `SemaphoresKeepTheirPromise` | `ImplementsSync`: `Semaphores` implements `Sync` |
| | `TokensStayConserved` | `TokensConserved` of `sem_live` |
| `FreeListProofs` | `HeapStaysTiled`, `ListStaysOrdered` | `HeapIsTiled`, `ListIsOrdered` |
| | `FreeListImplementsHeap` | `ImplementsHeap`: `FreeList` implements `Heap` |
| `BuddyProofs` | `HeadersStayTrue`, `BuddiesTile`, `NothingIsHidden` | `HeadersMatchLists`, `HeapIsTiled`, `NoHiddenBlock` of `Buddy` |
| `ProgramProofs` | `SemaphoreExcludes` | at most one process of synctest is inside, and the semaphore is gone when all are done |
| | `NoUpdatesLost` | `NoUpdateIsLost` |
| | `TableStaysSafe` | `TableIsSafe` of the philosophers |
| | `TestsNeverFail` | `TestsPass` of memtest and schedtest |
| | `EchoStaysTheLine` | `EchoIsTheLine` of the screen |
| | `ModulesAlwaysArrive` | `ModulesArriveWhole` of the image |
| `PipelineProofs` | `NoKeyIsStuck`, `KeyboardIsAStream` | `KeysHaveTokens`, and `KeysAreAStream`: `Keyboard` implements `Stream` |
| | `PipelineKeepsSlots` | `SlotOutlivesUsers` |
| | `PipelineStreams` | `PipesAreStreams`: each slot of `Pipes` implements `Stream` |
| | `PipelineAlwaysDelivers` | `PipelineDelivers` |
| `TextProofs` | `ConversionsHold` | `ConversionsAgree` |
| | `ShellTypes` | the inductive invariant `ShellInv` |
| | `ShellImplementsPrompt` | `ImplementsPrompt`: `Shell` implements `Prompt` |

They hold for every number of processes, semaphores, slots, readers, philosophers, keys and rounds, every size of the heap, of the rings and of the shell's buffer, every number
and line converted and every set of calls, under the assumptions named in the modules (at least three pids, initial priorities inside the range, sets that are finite, constants that
are in the sets they are used in, no empty request in memtest, whose requests are `GetUniform(...) + 1` units). Six groups of theorems assume more, which their statements say: what the runs above leave
out on purpose, because the properties fail with it.

* The two on waiting: nobody kills, blocks or unblocks another process, and programs wait for their own children (`Calls \cap Meddling = {}`).
  ctrl-C and faults are allowed.
* Those on the semaphores but the last (`Disciplined`): nobody blocks or unblocks another process, and programs wait for their own children and on semaphores they
  opened. Killing is allowed.
* `TokensStayConserved` (`Shared`): nobody kills another process either, and no semaphore is closed; but processes need not have opened the semaphore they use, and ctrl-C and
  faults are allowed, which kill only the process that has the CPU. The theorem is about the tokens alone: the line is a sequence without bound in `Semaphores`,
  and in this use nothing keeps it within the 16 places of `blockedPIDs`.
* `FreeListProofs`: no request is exactly what is left of the block at the base of the heap (`~ TakesAllOfBase`).
* `NoUpdatesLost`: as many processes add as subtract, and no more than a semaphore has listeners; one more than that is refused its `sOpen` and ends
  without adding anything.
* `PipelineAlwaysDelivers` (`BytesApart`): the bytes that `putchar` adds from the stack are none of the characters that are typed or looked at, nor a count of wc. The
  property sets them aside by what they are; a stack that holds typed characters puts more of these on the screen.

**Scheduler.** `IInv` adds to the four invariants what their induction needs: `Fresh` (a pid not handed out yet belongs to no process),
`SearchHoldsNobody` (during the search nobody has the CPU, so that the process put away is in one place only) and `IdleIsReady` (no call can
reach the node of `haltFunc` and change its state while it is off the queue). The arithmetic of `readySize` rests on two lemmas: a set of pids
grows or shrinks by one with one element (`CountChange`), and `SetNewStateKeepsCount`, the case analysis of `setNewState`. `SearchFindsHead` shows
that the search loop never dequeues from an empty list. Then there is one lemma per action (`...KeepsIInv`), `StepIInv` joins them, and the
temporal steps are by PTL.

**Waiting.** `AwaitInv` says that a parent awaits at most one child (`OneAwaited`), does not run while it does (`AwaitingStops`), and is older than its children
(`ParentsFirst`). `WInv` adds the invariant itself and that a process dies only while it has the CPU (`DieOnCpu`): so its death passes through
`FreeCurrent`, which wakes the parent, and not through the search loop, which does not.

**Process list.** `LInv` joins to `IInv` that the pointers hold the queue (`Holds`), that the Overseer and the shell cannot die (`Protected`), and that the
`next` of the last node is NULL once both exist and have been queued (`Ends`). Since two processes never die, one of which is always in the list, the list is not empty again
after the start, and the stale `next` of a node queued on an empty list is never met.

**Round robin.** The line of `RoundRobin` is the queue without those who are not READY (`Kept`). `LineWith` and `LineWithout` say what a change of the state of one process does to
it, `HeadOfLine` that the READY process the search loop finds is the head of the line, since what it passes over is not in it. No invariant but `IInv` is
needed. Each action is then a step of the line or changes nothing of it.

**Semaphores.** That live waiters are listed is inductive only with `SInv`: the lines are sets of pids that were handed out (`LinesAreSets`), a waiter has the
semaphore open and stands still (`WaitersOpened`, `WaitersStop`), does not wait for a child at the same time, whose death would wake it (`OneReason`), and the listeners
are at least as many as those who hold the semaphore, the dead in its line included (`HoldersListen`). The last is what keeps a semaphore from
being freed under its line, and what bounds the array. The refinement is then by cases on the step: a call of a semaphore is that call of `Sync`, by a process that
does not sleep; everything else stutters. `TokensStayConserved` has an invariant of its own, `SharedInv`, since there the listeners do not count the waiters: every
waiter lives (`WaitersLive`: ctrl-C and faults hit the process that has the CPU, which is no waiter), and the lines hold exactly those who are blocked in a `sWait` (`LinesAreBlocked`), so that the process a post takes from the line
is one that will return with the token.

**Free list.** `ListIsOrdered` is about the walk along the list, which is no good to an induction: one `freeCust` changes three headers and with them every walk. `IInv` speaks
of headers instead: the blocks tile the heap (`Tiles`), each free one points at the next higher, the last at `base` (`Chain`), and no two touch (`Apart`); `base` and
`startingNode` are always free blocks. That the walk from any of them meets every free block, once, before it is back (which `mallocCust` relies on to refuse, and `freeCust`
to find its place) is a consequence. It is an induction along the list, over the set of the numbers of turns for which it is so (`NatSetInduction`).

**Buddy.** A unit is in the block `b` of level `l` when clearing the low `l` bits of its address gives `b` (`At(u, l) = b`). All that the proofs need of powers of two
is that `At` halves (two blocks of one level that share the block above are the same or each other's buddy: `HalvesOf`) and nests (`Nested`). `IInv` says in these terms that every unit is
in one block (`Covered`, `Apart`), that blocks begin where `At` says (`Aligned`), that the list of a level holds the free headers of that level, once each (`Listed`), and that no
two buddies are both free (`Joined`). `HeapIsTiled` alone is not inductive: `freeCust` trusts the header it finds at a buddy's address, which is right because every place is in a
block, and removes it from the list its header names. The halvings of `mallocCust` and the joins of `freeCust` are one fact read in two directions: the block at `c` of level `L` and the buddies
on the levels from `L` to `T - 1` are together the block of level `T` (`FamilyIs`, by the least level on which a unit and `c` agree; `Splits`, `Merges`). `NoHiddenBlock`
follows from `Joined`: where nothing is in use, the smallest free block of a region would have a buddy in it that is free, as large, and so joined.

**synctest.** `TestInv` counts the listeners (`Counted`: those between their open and their close) and the tokens (`OneToken`): while the semaphore exists either it
has the one token and no sleepers, or exactly one process holds it. `CountInv` adds that the variable is the number of updates of those who add less that of those who
subtract (`Balance`), an update being a pair of a process and a round, and that whoever has read the variable and not written it has read its value of now, which is what
the exclusion keeps so.

**memtest.** `MemInv` says of the blocks of a round that they are inside the heap and apart, that those not yet freed are in use and are all that is in use beside what
others hold (`MemBlocks`), and that a block which was set holds its number in every byte (`MemFilled`). What `mallocCust` and `freeCust` do is what `Heap` promises and no more.

**schedtest.** `ProcAccount` says that the entries of the program's table that are not killed (`Mine`) and the processes that are not dead (`Living`) are one to one and
agree in their states, that `alive` counts them, and that when a new round creates processes nothing of the last one lives. The scheduler may free a dead process
at any step, which is why a process that is dead and one that is gone must be the same to the program.

**Image.** `ImageInv` says where the size of each module is (`SizeCell`), that the packed file holds there what it should (`PackedHolds`), that memory still does while modules are
being copied (`MemoryOK`), since every copy goes above all that is packed, and that the loader's pointer is at the next size (`LoadOK`). The layout is assumed, as
the linker script and the addresses in `kernel.c` give it: the kernel with its bss, and the packed file, end below the first target, and a module's length lies
between the targets.

**Screen.** The rows are read as one sequence of places, in which a place has one row and one column (`RowAndColumn`, `PlaceIs`), a drawn character changes one place (`DrawnIs`) and a
scroll drops the first row (`ScrolledIs`). With types, `EchoIsTheLine` is then inductive: a wrap keeps what is shown (`WrapShows`), printing adds to it, removing takes its last
character, also back over the end of a row (`RemoveShows`).

**Philosophers.** `PhyloInv` says that from the start of the problem to its end the table is `Laid`: an invariant of who can be in which line and of how many tokens
the mutex has (`TokenOfTable`: with those who are inside at most one more than the removals), from which, until the first removal, at most one process changes
the table at a time, and so no two neighbours are set to EATING (`ForksApart`).

**Keyboard.** The ring's lemmas say that inserting appends to, and removing takes the head of, the sequence it stands for; the tokens are counted as above.

**Pipes.** A slot is a stream only as long as nobody sleeps in a call to it that has become another pipeline's. `PipesInv` therefore has two halves. `Control` says where the shell,
the programs and the calls in flight are: no two slots share an id or a semaphore (`SlotsApart`), a living program has its slot (`ProgramsServed`), the shell is at a
step of `runPipe` where its own programs are dead or alive as they should be (`ShellKnows`), whoever sleeps in a call is the shell or a living program in the slot of its
own pipe (`CallsServed`), and the slots in use are the leaked ones and that of the shell (`SlotsCounted`). The other half counts: whoever is in a line sleeps for that
semaphore (`LinesOK`), and in each slot the tokens of `lockR` and those given to readers that have not run yet are the characters in the ring, those of `lockW`
and those given to writers are the free places (`SlotsFlow`). The loop of `pWrite` is an induction on the characters written (`LoopDoes`). Each action is then
shown to keep the invariant and to do to each slot one of: nothing, characters in, one out, open, close.

**Pipeline.** `Carry` joins the two histories, what was typed and what is shown, to the state between them (`Delivered`). There are two sequences: G, what the left program
gave to its pipe, follows from the keys and the state of that program (`LeftGave`), and D, what the right one took from it, gives the screen (`RightShows`). What is under way, that is the slot, then the rest of the left
program's `pWrite`, then the rest of the shell's, is what leads from D to G, with EOF behind it once the shell is at it (`Between`). When the right program is dead it has met that EOF,
so D is G. The rest of `Carry` says that nothing is in the pipe before the left program starts (`StillEmpty`), that ctrl-C reaches only the two (`HistoryOK`), and
that a right program whose `runPipe` failed sleeps for ever in an empty pipe (`LeftBehind`), so that it never writes to the screen of a later pipeline. `Without` is a recursive
function, and what it makes of an `Append` or a concatenation is proved by induction over the sets of the lengths or sequences for which it is so (`NatSetInduction`, `SequenceInduction`).

**Text.** What the code computes in loops the modules write as folds and recursive functions, which the library defines by CHOOSE: the proofs begin by showing that there is such
a function (`LeftFoldExists`, `RightFoldExists`, `RecursionExists`: the last for any recursion that asks itself once, of something of a lower rank), and that its value is the last of a
sequence of which each member comes from the one before (`LeftFoldRuns`, `RightFoldRuns`; a fold from the right is one from the left over the mirrored places). Then they follow the
loop by induction over the sets of the numbers for which an equation holds (`NatSetInduction`, `RankInduction`).

**Conversions.** All readers are compared with one, `Extended`, the numeral read from the left (Horner's rule): a digit more multiplies by the base and adds (`ExtendedAppend`), and zeros in front
change nothing. `strToHex`, which adds digits times powers, sums the same weights (`WeightedIsExtended`), in the kernel as long as no power but 1, 16 and 256 is asked for;
`strToInt`, which reads from the right and stops at a sign, has read at each turn the tail of the numeral (`IntRead`). Writing is the induction on the number: the digits of
`v \div b`, then that of `v % b` (`Written`). A point and two digits behind it take the numeral apart in two places (`PointRead`). `log2` and the binary numeral halve alike (`Halvings`).

**strtok.** A call made where the index can be, which is at the start, on a delimiter or at the end (`Between`), passes the delimiters and stops at the next start of a word
(`CallIs`), so what all the calls from there answer is what is left of the words (`RestIs`, `TokensAreWords`), by induction on how much of the line is left. The kernel's
answers NULL only when the line was used up before the call, so an empty token can come last.

**Shell.** `ShellInv` is that the buffer is zero exactly from its index on. Then the memory that `tokenizeBuffer` is given holds the line and a zero behind it. Turn by turn (`TokenLoop`),
the delimiters passed are zeros, what is still to come is as it was, and the words noted begin at the first starts of words of the line, at most `MAX_ARGS` of them; at the end each goes up to
a zero that is where the word ends, so the words are the first words of the line (`TokenizedWords`). With them each key is a step of `Prompt`, where a full buffer,
whose line has no zero behind it, is not promised anything; what comes of the words is one of the outcomes `Prompt` lists for them (`OutcomesAre`). The invariant needs that no key is taken for a zero (`ShellAssumption`): `processChar` drops a character 0.

Only model-checked:

* the liveness properties and everything under fairness, ENABLED included: out of the prover's reach (`NoStarvation`, `DeadAreFreed`, `WaitersAreServed`,
  `SomebodyEats`, `ShellComesBack`).

Every safety property, action property and refinement that a run checks is proved, but those of the runs that expect a violation, which are false.

## 5. Plan

Done: the kernel's modules, then the programs on the promise of the semaphores, then the theorems above. Left: the liveness properties, for which no argument can be
checked here.

## 6. Not modelled

* The bootloader and the file system tools (Pure64, BMFS): third-party code.
* Fonts, pixels and colours, the blinking cursor and naiveConsole's own output: they hold no state that the programs see.
* The system call stubs and wrappers of the userland, port input and output, the descriptors of the IDT, the entry and exit of interrupts: they pass
  arguments and registers on.
* The clock, the tick counter and `sleep`; the register dump and ctrl-S, which copies registers to print them later.
* Everything that only prints (`processDisplay`, `sStatus`, `dumpMM`, `dumpPipes`, `help`), the texts of messages, `doubleToString`, and the formats of
  `printf` and `scanf`. `printHex` and `memToString` write into buffers that are too short for what they may be given; no model has those bytes.
* `testPrio.c`, `loop.c` and the loader of the module: they make calls and look at nothing, and those calls are in `Scheduler`.
* Memory that runs out in `sOpen` on its own (nothing changes) and in `addPhilosopher`; pointers given to `freeCust` that were never handed out.
* The memory past the end of the array of pipes, which a large id makes `pOpen` increment.
