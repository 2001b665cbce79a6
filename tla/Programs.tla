------------------------------- MODULE Programs -------------------------------
(***************************************************************************)
(* What runs on the kernel, one program at a time: on its semaphores, two  *)
(* pipelines one after the other, readers of the keyboard, and synctest;   *)
(* and, a process by itself, the prompt of the shell, what the screen      *)
(* shows, the conversions, memtest, schedtest, and the start of the kernel *)
(* that brings them to memory.                                             *)
(***************************************************************************)
EXTENDS Pipeline, Tests, Shell, Screen, Conversions, Image

VARIABLE program  \* what runs

concurrentVars == <<sync, keyboardVars, pipesVars, pipelineVars, testVars>>
aloneVars == <<shellVars, screenVars, conversionsVars, memTestVars, procTestVars, imageVars>>
programsVars == <<concurrentVars, aloneVars, program>>

\* Those that do not run are where they start.
NoInput ==
  /\ IF program = "shell" THEN ShellInit ELSE keyboard = {} /\ ShellStart
  /\ IF program = "conversions" THEN ConversionsInit ELSE number = 0 /\ base = 10 /\ line = <<>>
  /\ IF program = "image" THEN ImageInit ELSE files = <<>> /\ readable = {} /\ ImageStart

ProgramsInit ==
  /\ program \in {"pipeline", "keyboard", "synctest", "shell", "screen",
                  "conversions", "memtest", "schedtest", "image"}
  /\ PipelineInit /\ TestVarsInit
  /\ ScreenInit /\ TestMemInit /\ TestProcessesInit
  /\ NoInput

OnSemaphores(name) == program = name /\ UNCHANGED <<aloneVars, program>>
ByItself(name) == program = name /\ UNCHANGED <<concurrentVars, program>>

RunsPipeline(A) == OnSemaphores("pipeline") /\ A /\ UNCHANGED testVars
RunsReaders == OnSemaphores("keyboard") /\ KeyboardNext
                 /\ UNCHANGED <<pipesVars, pipelineVars, testVars>>
RunsTest(A) == OnSemaphores("synctest") /\ A
                 /\ UNCHANGED <<keyboardVars, pipesVars, pipelineVars>>

RunsShell == ByItself("shell") /\ ShellNext
               /\ UNCHANGED <<screenVars, conversionsVars, memTestVars, procTestVars, imageVars>>
RunsScreen == ByItself("screen") /\ ScreenNext
                /\ UNCHANGED <<shellVars, conversionsVars, memTestVars, procTestVars, imageVars>>
RunsMemTest == ByItself("memtest") /\ TestMemNext
                 /\ UNCHANGED <<shellVars, screenVars, conversionsVars, procTestVars, imageVars>>
RunsSchedTest == ByItself("schedtest") /\ TestProcessesNext
                   /\ UNCHANGED <<shellVars, screenVars, conversionsVars, memTestVars, imageVars>>
RunsImage == ByItself("image") /\ ImageNext
               /\ UNCHANGED <<shellVars, screenVars, conversionsVars, memTestVars, procTestVars>>

ProgramsNext ==
  \/ RunsPipeline(PipelineNext) \/ RunsReaders \/ RunsTest(SyncTestNext)
  \/ RunsShell \/ RunsScreen \/ RunsMemTest \/ RunsSchedTest \/ RunsImage

\* Round robin, for those that run together.
ProgramsFairness ==
  /\ WF_programsVars(RunsPipeline(ShellRuns))
  /\ \A p \in Program : WF_programsVars(RunsPipeline(Runs(p)))
  /\ \A p \in Worker : WF_programsVars(RunsTest(Incs(p)))

ProgramsSpec == ProgramsInit /\ [][ProgramsNext]_programsVars /\ ProgramsFairness
==============================================================================
