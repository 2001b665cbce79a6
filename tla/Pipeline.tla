------------------------------- MODULE Pipeline -------------------------------
(***************************************************************************)
(* "left | right" at the prompt: runPipe of shell.c, the two programs it   *)
(* starts (cat, wc or filter of commands.c), the keyboard the left one     *)
(* reads, the pipe between them, and ctrl-C.                               *)
(*                                                                         *)
(* Each process goes from one system call to the next; calls are steps,    *)
(* since they run with interrupts off.  A process that is not asleep runs  *)
(* sooner or later: that is the round robin that the scheduler implements. *)
(***************************************************************************)
EXTENDS Keyboard, Pipes, TLC

CONSTANTS LeftCommands, RightCommands,  \* what the user may type around the "|"
          MaxPipelines,                 \* bound: pipelines started
          KeyCap,                       \* bound: keys typed in all, none ahead of a full ring
          Keystrokes,                   \* the characters the user types
          Vowel,                        \* those that check_vowel finds
          StackByte                     \* bytes that may follow a character on the stack

\* The processes: the shell, and the two programs of each pipeline.
ShellProc == 0
Left(n) == 2 * n - 1
Right(n) == 2 * n
Program == 1 .. 2 * MaxPipelines
PipeSems == FIRST_SEM .. FIRST_SEM + 2 * MaxPipelines - 1

\* A pipe carries what is typed, what the buffer of the keyboard holds at boot, EOF, what
\* is on the stack, and the counts of wc.  The keyboard has its own semaphore.
ASSUME PipelineAssumption ==
  /\ MaxPipelines \in Nat /\ KeyCap \in Nat
  /\ LeftCommands \cup RightCommands \subseteq {"cat", "filter", "wc", "invalid"}
  /\ Program \cup {ShellProc} \subseteq Process
  /\ PipeSems \subseteq SyncId \ {KEY_SEM_ID}
  /\ Keystrokes \cup {Zero, EOF} \cup StackByte \subseteq PipeChar
  /\ "wc" \in LeftCommands => \A n \in 1 .. KeyCap + 1 : ToString(n) \in PipeChar
  /\ Zero # "newline"

VARIABLES
  shellPc,   \* where the shell is
  pipeline,  \* how many pipelines were started
  shellPipe, \* shellPipeId
  commands,  \* the two commands of the last one
  prog,      \* the programs: command, next call, character, count of lines
  fg,        \* who is in the foreground
  pressed,   \* keys typed
  typed,     \* history: what the left program read from the keyboard
  shown,     \* history: what the right program wrote to the screen
  killed,    \* history: programs of this pipeline that ctrl-C killed
  leaked     \* history: pipes that a runPipe left behind

pipelineVars == <<shellPc, pipeline, shellPipe, commands, prog, fg, pressed, typed, shown,
                  killed, leaked>>

NoProgram == [command |-> "none", pc |-> "dead", char |-> NoChar, lines |-> 0]
FIRST_PIPE == 42

PipelineInit ==
  /\ KeyboardInit /\ PipesInit
  /\ shellPc = "prompt" /\ pipeline = 0 /\ shellPipe = FIRST_PIPE
  /\ commands = <<"none", "none">>
  /\ prog = [p \in Program |-> NoProgram]
  /\ fg = {}
  /\ pressed = 0 /\ typed = <<>> /\ shown = <<>> /\ killed = {} /\ leaked = 0

Alive(p) == prog[p].pc # "dead"
OurPipe == shellPipe - 1
EofBytes == <<EOF, EOF>>  \* the int -1 as a string, shortened
StackTail == {<<>>} \cup {<<b>> : b \in StackByte}

kernelOnly == <<shellPc, pipeline, shellPipe, commands, fg, pressed, killed, leaked>>
keyState == <<shift, capsLock, l_ctrl>>

(***************************************************************************)
(* The user.                                                               *)
(***************************************************************************)
Type(c) ==
  /\ pressed < KeyCap /\ ~queueIsFull(keys)
  /\ pressed' = pressed + 1
  /\ sendKey(c)
  /\ UNCHANGED <<keyState, getting, taken, pipesVars, shellPc, pipeline, shellPipe, commands,
                 prog, fg, typed, shown, killed, leaked>>

\* ctrl-C kills the foreground program that has the CPU.  A program inside a call
\* has not.
Interrupts(p) ==
  /\ p \in fg /\ Alive(p)
  /\ p \notin getting /\ ~InCall(p)
  /\ prog' = [prog EXCEPT ![p] = NoProgram]
  /\ killed' = killed \cup {p}
  /\ UNCHANGED <<sync, keyboardVars, pipesVars, shellPc, pipeline, shellPipe, commands, fg,
                 pressed, typed, shown, leaked>>

(***************************************************************************)
(* The programs: cat, filter and wc read until EOF.  The left one reads    *)
(* the keyboard and writes to the pipe, the right one reads the pipe and   *)
(* writes to the screen.                                                   *)
(***************************************************************************)
IsLeft(p) == p % 2 = 1
PipeOf(p) == FIRST_PIPE + (p - 1) \div 2

\* What a program does with the character it read.
Received(r, c) ==
  CASE c = EOF /\ r.command = "wc" -> [r EXCEPT !.pc = "count"]
    [] c = EOF /\ r.command # "wc" -> NoProgram
    [] c # EOF /\ r.command = "filter" /\ c \in Vowel -> [r EXCEPT !.pc = "read"]
    [] OTHER -> [r EXCEPT !.pc = "write", !.char = c, !.lines = IF c = "newline" THEN @ + 1 ELSE @]
Reads(p, c) == prog' = [prog EXCEPT ![p] = Received(@, c)]

\* getchar of the left program, and its return after a sleep.
KeyRead(p) == IF taken' = EOF THEN UNCHANGED typed ELSE typed' = Append(typed, taken')

LeftReads(p) ==
  /\ IsLeft(p) /\ prog[p].pc = "read"
  /\ \/ Getchar(p) \/ GetcharReturns(p)
  /\ IF p \in getting' THEN UNCHANGED <<prog, typed>>
                       ELSE Reads(p, taken') /\ KeyRead(p)
  /\ UNCHANGED <<pipesVars, kernelOnly, shown>>

\* pRead of the right one.  Without its pipe it reads -1, that is EOF.
RightReads(p) ==
  /\ ~IsLeft(p) /\ prog[p].pc = "read" /\ ~InCall(p)
  /\ LET i == getPipeIdx(PipeOf(p)) IN
       CASE i = -1 -> Reads(p, EOF) /\ UNCHANGED <<sync, pipesVars>>
         [] i # -1 /\ Sleeps(sync, pipes[i].lockR) -> pReadSleeps(p, i) /\ UNCHANGED prog
         [] OTHER -> pReadPasses(p, i) /\ Reads(p, NextChar(i))
  /\ UNCHANGED <<keyboardVars, kernelOnly, typed, shown>>
RightWakes(p) ==
  /\ pReadReturns(p)
  /\ Reads(p, NextChar(inCall[p].slot))
  /\ UNCHANGED <<keyboardVars, kernelOnly, typed, shown>>

\* putchar of the left one: pWrite of the character and of what follows it on the
\* stack up to a 0.  The program goes on when the call ends.
AfterWrite(p) ==
  prog' = [prog EXCEPT ![p] = IF @.pc = "count" THEN NoProgram ELSE [@ EXCEPT !.pc = "read"]]
WhenWritten(p) == IF inCall'[p].op = "none" THEN AfterWrite(p) ELSE UNCHANGED prog

Output(p) == IF prog[p].pc = "count" THEN ToString(1 + prog[p].lines) ELSE prog[p].char

LeftWrites(p) ==
  /\ IsLeft(p) /\ prog[p].pc \in {"write", "count"} /\ ~InCall(p)
  /\ LET i == getPipeIdx(PipeOf(p)) IN
       IF i = -1 THEN AfterWrite(p) /\ UNCHANGED <<sync, pipesVars>>
                 ELSE /\ \E tail \in StackTail : pWrite(p, i, <<Output(p)>> \o tail)
                      /\ WhenWritten(p)
  /\ UNCHANGED <<keyboardVars, kernelOnly, typed, shown>>
LeftGoesOn(p) ==
  /\ IsLeft(p)
  /\ pWriteGoesOn(p)
  /\ WhenWritten(p)
  /\ UNCHANGED <<keyboardVars, kernelOnly, typed, shown>>

RightWrites(p) ==
  /\ ~IsLeft(p) /\ prog[p].pc \in {"write", "count"}
  /\ shown' = Append(shown, Output(p))
  /\ AfterWrite(p)
  /\ UNCHANGED <<sync, keyboardVars, pipesVars, kernelOnly, typed>>

Runs(p) == LeftReads(p) \/ RightReads(p) \/ RightWakes(p) \/ LeftWrites(p) \/ LeftGoesOn(p)
             \/ RightWrites(p)

(***************************************************************************)
(* The shell.                                                              *)
(***************************************************************************)
programVars == <<typed, shown, prog, killed>>

\* runPipe ends; its foreground programs are dead, and the histories are about one
\* pipeline.
BackToPrompt ==
  /\ shellPc' = "prompt" /\ commands' = <<"none", "none">> /\ fg' = {}
  /\ typed' = <<>> /\ shown' = <<>> /\ killed' = {}

\* At the prompt it reads keys; a newline runs the line, here always a pipeline.
ShellReads ==
  /\ shellPc = "prompt"
  /\ Getchar(ShellProc) \/ GetcharReturns(ShellProc)
  /\ IF ShellProc \notin getting' /\ taken' = "newline" /\ pipeline < MaxPipelines
     THEN /\ shellPc' = "pOpen"
          /\ commands' \in LeftCommands \X RightCommands
     ELSE UNCHANGED <<shellPc, commands>>
  /\ UNCHANGED <<pipesVars, pipeline, shellPipe, programVars, fg, pressed, leaked>>

\* pOpen, which may lack the memory for a semaphore or find no free slot.
ShellOpens ==
  /\ shellPc = "pOpen"
  /\ pipeline' = pipeline + 1
  /\ shellPipe' = shellPipe + 1
  /\ \E opened \in 0 .. 2 :
       /\ pOpen(shellPipe, opened)
       /\ IF Opens(shellPipe, opened)
          THEN shellPc' = "right" /\ UNCHANGED <<commands, typed, shown, killed, fg>>
          ELSE BackToPrompt
       /\ leaked' = IF Opens(shellPipe, opened) \/ getFreePipe = -1 THEN leaked ELSE leaked + 1
  /\ UNCHANGED <<keyboardVars, prog, pressed>>

Created(p, command) == prog' = [prog EXCEPT ![p] = [NoProgram EXCEPT !.command = command, !.pc = "read"]]

\* The right program, in the background.
ShellCreatesRight ==
  /\ shellPc = "right"
  /\ IF commands[2] = "invalid"
     THEN shellPc' = "pClose" /\ UNCHANGED prog
     ELSE shellPc' = "left" /\ Created(Right(pipeline), commands[2])
  /\ UNCHANGED <<sync, keyboardVars, pipesVars, pipeline, shellPipe, commands, typed, shown,
                 killed, fg, pressed, leaked>>

\* The left one, in the foreground: the shell sleeps until it is dead.  When its name
\* is wrong runPipe returns before its pClose.
ShellCreatesLeft ==
  /\ shellPc = "left"
  /\ IF commands[1] = "invalid"
     THEN BackToPrompt /\ leaked' = leaked + 1 /\ UNCHANGED prog
     ELSE /\ shellPc' = "sleep"
          /\ Created(Left(pipeline), commands[1])
          /\ fg' = fg \cup {Left(pipeline)}
          /\ UNCHANGED <<leaked, commands, typed, shown, killed>>
  /\ UNCHANGED <<sync, keyboardVars, pipesVars, pipeline, shellPipe, pressed>>

\* The left program is dead: EOF for the other.
ShellWritesEof ==
  /\ shellPc = "sleep" /\ ~Alive(Left(pipeline))
  /\ shellPc' = "writing"
  /\ LET i == getPipeIdx(OurPipe) IN
       IF i = -1 THEN UNCHANGED <<sync, pipesVars>>
                 ELSE \E tail \in StackTail : pWrite(ShellProc, i, EofBytes \o tail)
  /\ UNCHANGED <<keyboardVars, pipeline, shellPipe, commands, programVars, fg, pressed, leaked>>
ShellGoesOn ==
  /\ pWriteGoesOn(ShellProc)
  /\ UNCHANGED <<keyboardVars, shellPc, pipeline, shellPipe, commands, programVars, fg,
                 pressed, leaked>>

\* wait puts the other program in the foreground, and returns when it is dead.
Waited_Not(p) == TRUE
Waited(p) == ~Alive(p)

ShellWaits ==
  /\ shellPc = "writing" /\ ~InCall(ShellProc)
  /\ shellPc' = "wait"
  /\ fg' = IF Alive(Right(pipeline)) THEN fg \cup {Right(pipeline)} ELSE fg
  /\ UNCHANGED <<sync, keyboardVars, pipesVars, pipeline, shellPipe, commands, programVars,
                 pressed, leaked>>
ShellWaited ==
  /\ shellPc = "wait" /\ Waited(Right(pipeline))
  /\ shellPc' = "pClose"
  /\ UNCHANGED <<sync, keyboardVars, pipesVars, pipeline, shellPipe, commands, programVars, fg,
                 pressed, leaked>>

ShellCloses ==
  /\ shellPc = "pClose"
  /\ pClose(OurPipe)
  /\ BackToPrompt
  /\ UNCHANGED <<keyboardVars, pipeline, shellPipe, prog, pressed, leaked>>

ShellRuns == ShellReads \/ ShellOpens \/ ShellCreatesRight \/ ShellCreatesLeft
               \/ ShellWritesEof \/ ShellGoesOn \/ ShellWaits \/ ShellWaited \/ ShellCloses

PipelineNext ==
  \/ \E c \in Keystrokes : Type(c)
  \/ \E p \in Program : Interrupts(p)
  \/ \E p \in Program : Runs(p)
  \/ ShellRuns

allPipelineVars == <<sync, keyboardVars, pipesVars, pipelineVars>>

\* Round robin: whoever can run does.  Nothing obliges the user to type.
PipelineFairness ==
  /\ WF_allPipelineVars(ShellRuns)
  /\ \A p \in Program : WF_allPipelineVars(Runs(p))

PipelineSpec == PipelineInit /\ [][PipelineNext]_allPipelineVars /\ PipelineFairness

(***************************************************************************)
(* Properties                                                              *)
(***************************************************************************)

\* The characters in a slot: those that lockR counts and those promised to a reader.
InSlot(i) ==
  IF pipes[i].state = "EMPTY" \/ pipes[i].lockR = -1 THEN 0
  ELSE sync[pipes[i].lockR].value
         + Cardinality({p \in Process : inCall[p].op = "pRead" /\ inCall[p].slot = i /\ ~Asleep(p)})
Contents(i) == [j \in 1 .. InSlot(i) |-> pipes[i].buffer[(pipes[i].readIndex + j - 1) % BUFF_SIZE]]

\* Each slot, through its pipes, keeps what was written to it, in order, until it is
\* read: no character is overwritten, read twice, or read before it was written,
\* whoever sleeps, is killed, or is woken in the meantime.
PipeStream(i) == INSTANCE Stream WITH
  Char <- PipeChar, Capacity <- BUFF_SIZE, Lossy <- FALSE, open <- pipes[i].state = "IN_USE",
  contents <- Contents(i), taken <- lastRead[i], lost <- FALSE
PipesAreStreams ==
  [][\A i \in Slot : \/ PipeStream(i)!StreamNext
                     \/ UNCHANGED PipeStream(i)!streamVars]_allPipelineVars

\* A sequence without the characters of T, and the number of its lines.
Without(s, T) ==
  LET from[n \in 0 .. Len(s)] == IF n = 0 THEN <<>>
                                 ELSE IF s[n] \in T THEN from[n - 1] ELSE Append(from[n - 1], s[n])
  IN from[Len(s)]
Lines(s) == Cardinality({n \in DOMAIN s : s[n] = "newline"})

\* What a program makes of its input; without the last line if it was killed.
Copied(command, s) == IF command = "filter" THEN Without(s, Vowel) ELSE s
Printed(command, s) ==
  IF command = "wc" THEN Append(s, ToString(1 + Lines(s))) ELSE Copied(command, s)

\* When the shell closes the pipe, everything that the left program read went through
\* both programs to the screen, once and in order; killing the left one loses at most
\* the character it had just read.  (What putchar adds from the stack is set aside.)
PipelineDelivers ==
  shellPc = "pClose" /\ commands[2] # "invalid" /\ Right(pipeline) \notin killed =>
    LET screen == Without(shown, StackByte) IN
    IF Left(pipeline) \notin killed
    THEN screen = Printed(commands[2], Printed(commands[1], typed))
    ELSE \E n \in {Len(typed) - 1, Len(typed)} :
           screen = Printed(commands[2], Copied(commands[1], SubSeq(typed, 1, n)))

\* A pipe is open as long as a program of its pipeline lives, so that nobody's call
\* ends in a slot that has been given to another pipe; and at the prompt the only
\* slots in use are those that a failed runPipe left behind.
SlotOutlivesUsers ==
  /\ \A p \in Program : Alive(p) => getPipeIdx(PipeOf(p)) # -1
  /\ \A p \in Program : InCall(p) => inCall[p].slot = getPipeIdx(PipeOf(p))
  /\ InCall(ShellProc) => inCall[ShellProc].slot = getPipeIdx(OurPipe)
  /\ shellPc = "prompt" => Cardinality({i \in Slot : pipes[i].state = "IN_USE"}) = leaked

\* The prompt comes back when the left program is dead or has EOF to read: no full
\* pipe, empty pipe or lost wake-up keeps the shell or a program asleep.
Ending ==
  \/ shellPc \in {"writing", "wait", "pClose"}
  \/ shellPc = "sleep" /\ (~Alive(Left(pipeline)) \/ EOF \in Range(Items(keys)))
ShellComesBack == Ending ~> shellPc = "prompt"
==============================================================================
