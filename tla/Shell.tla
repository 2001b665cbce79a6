--------------------------------- MODULE Shell ---------------------------------
(***************************************************************************)
(* The prompt of applications/shell/shell.c: processChar, which fills the  *)
(* buffer, and processCommand, which cuts it into words in place and       *)
(* starts the command.  What the commands do then is in Commands, how two  *)
(* of them run through a pipe in Pipeline.                                 *)
(***************************************************************************)
EXTENDS Commands

CONSTANTS Keyboards,    \* sets of symbols: each run of the model types those of one of them
          BUFFER_SIZE,
          MAX_ARGS,
          INDEX_BYTE    \* the index of a full buffer, as a character

NUL == "nul"

\* processChar takes no key for a zero.
ASSUME ShellAssumption ==
  BUFFER_SIZE \in 1 .. 254 /\ MAX_ARGS \in Nat \ {0} /\ NUL \notin UNION Keyboards

USER == <<"U">>

VARIABLES
  buffer,    \* the characters of shell.buffer
  index,     \* its index
  username,  \* shell.username
  keyboard,  \* the symbols typed
  asked      \* what processCommand did for the last key

shellVars == <<buffer, index, username, keyboard, asked>>

cleanBuffer == [i \in 1 .. BUFFER_SIZE |-> NUL]

ShellStart ==
  /\ buffer = cleanBuffer /\ index = 0
  /\ username = strcopy(USER, <<>>)
  /\ asked = [kind |-> "nothing"]
ShellInit == keyboard \in Keyboards /\ ShellStart

(***************************************************************************)
(* tokenizeBuffer, over the memory that begins at the buffer: the buffer,  *)
(* the index after it, and the user name.                                  *)
(***************************************************************************)
Memory == buffer \o <<IF index = BUFFER_SIZE THEN INDEX_BYTE ELSE NUL>> \o username \o <<NUL>>

EndOf(memory, i) == CHOOSE j \in i .. Len(memory) :
                      memory[j] = NUL /\ \A k \in i .. j - 1 : memory[k] # NUL
CString(memory, i) == SubSeq(memory, i, EndOf(memory, i) - 1)

\* One turn of the loop, at place i: a delimiter becomes the end of a word, and the
\* word after it, if there is one, is noted, unless there are max already.
TokenStep_Keeps(s, i, token, max) ==
  IF s.full \/ s.memory[i] # token \/ s.memory[i + 1] \in {token, NUL} THEN s
  ELSE IF Len(s.dest) >= max THEN [s EXCEPT !.full = TRUE]
  ELSE [s EXCEPT !.memory[i] = NUL, !.dest = Append(@, i + 1)]

TokenStep(s, i, token, max) ==
  IF s.full \/ s.memory[i] # token THEN s
  ELSE LET cut == [s EXCEPT !.memory[i] = NUL]
       IN IF s.memory[i + 1] \in {token, NUL} THEN cut
          ELSE IF Len(s.dest) >= max THEN [cut EXCEPT !.full = TRUE]
          ELSE [cut EXCEPT !.dest = Append(@, i + 1)]

tokenizeBuffer(token, source, max) ==
  LET first == IF source[1] \in {token, NUL} THEN <<>> ELSE <<1>>
      end == FoldLeft(LAMBDA s, i : TokenStep(s, i, token, max),
                      [memory |-> source, dest |-> first, full |-> FALSE],
                      [i \in 1 .. EndOf(source, 1) - 1 |-> i])
  IN [n \in DOMAIN end.dest |-> CString(end.memory, end.dest[n])]

\* Places count from 1; 0 where the code answers -1.
findPipe(argv) == SelectInSeq(argv, LAMBDA word : stringcmp(word, <<"|">>) = 0)
getCommandIdx(name) == IF IsCommand(name) THEN 1 ELSE 0

invalid == [kind |-> "refused"]
denied == [kind |-> "denied"]  \* the kernel had no pipe or no memory

\* The pipe is opened and the right program started before the left one is looked at:
\* when the left one then fails, the line is called not valid and the right one runs.
runPipe(pipeIdx, argv) ==
  LET left == SubSeq(argv, 1, pipeIdx - 1)
      right == SubSeq(argv, pipeIdx + 1, Len(argv))
      rightAlone(why) == [kind |-> "rightAlone", why |-> why, right |-> Run(right)]
  IN {denied} \cup
     IF getCommandIdx(right[1]) = 0 THEN {invalid}
     ELSE IF getCommandIdx(left[1]) = 0 THEN {rightAlone("name")}
     ELSE {rightAlone("memory"), [kind |-> "pipeline", left |-> Run(left), right |-> Run(right)]}

\* Without a word, processCommand reads argv[-1] and looks for a command called NULL: it
\* finds none or faults.  A "&" can be glued to the word it begins.
createdProcess(argv) ==
  LET bg == argv[Len(argv)][1] = "&"
      args == IF bg THEN SubSeq(argv, 1, Len(argv) - 1) ELSE argv
  IN IF getCommandIdx(argv[1]) = 0 THEN {invalid}
     ELSE {denied, [kind |-> "program", fg |-> ~bg, argv |-> args, does |-> Run(args)]}

processCommand ==
  LET argv == tokenizeBuffer(" ", Memory, MAX_ARGS)
      pipeIdx == findPipe(argv)
  IN IF argv = <<>> THEN {invalid, [kind |-> "fault"]}
     ELSE IF pipeIdx \in {1, Len(argv)} THEN {invalid}
     ELSE IF pipeIdx # 0 THEN runPipe(pipeIdx, argv)
     ELSE createdProcess(argv)

(***************************************************************************)
(* processChar.                                                            *)
(***************************************************************************)
Cleaned == buffer' = cleanBuffer /\ index' = 0

TypeSymbol(c) ==
  /\ index < BUFFER_SIZE
  /\ buffer' = [buffer EXCEPT ![index + 1] = c] /\ index' = index + 1
  /\ asked' = [kind |-> "nothing"]
  /\ UNCHANGED <<username, keyboard>>
TypeBackspace ==
  /\ index > 0
  /\ buffer' = [buffer EXCEPT ![index] = NUL] /\ index' = index - 1
  /\ asked' = [kind |-> "nothing"]
  /\ UNCHANGED <<username, keyboard>>
TypeClear == Cleaned /\ asked' = [kind |-> "nothing"] /\ UNCHANGED <<username, keyboard>>

\* The programs that were started, and the names they give the user: of two, either may
\* be the last.
Started(a) ==
  CASE a.kind = "program" -> {a.does}
    [] a.kind = "pipeline" -> {a.left, a.right}
    [] a.kind = "rightAlone" -> {a.right}
    [] OTHER -> {}
NewNames(a) == {p.name : p \in {q \in Started(a) : q.call = "rename"}}

TypeNewline ==
  /\ Cleaned
  /\ asked' \in processCommand
  /\ username' \in IF NewNames(asked') = {} THEN {username} ELSE NewNames(asked')
  /\ UNCHANGED keyboard

ShellNext == (\E c \in keyboard : TypeSymbol(c)) \/ TypeBackspace \/ TypeClear \/ TypeNewline

ShellSpec == ShellInit /\ [][ShellNext]_shellVars

(***************************************************************************)
(* Properties                                                              *)
(***************************************************************************)

\* The buffer, its index, and the words cut out of it in place implement a line that is
\* typed and corrected and then read as words: no key of an erased or earlier line is
\* seen again, "&" and "|" take effect only where they stand, at most MAX_ARGS words
\* count, and of a pipeline no program is started but those the line names, the left one
\* never without the right one.
ThePrompt == INSTANCE Prompt WITH
  Symbol <- UNION Keyboards, Capacity <- BUFFER_SIZE, MaxWords <- MAX_ARGS,
  line <- SubSeq(buffer, 1, index)
ImplementsPrompt == ThePrompt!PromptSpec
================================================================================
