-------------------------------- MODULE Prompt --------------------------------
(***************************************************************************)
(* What the prompt promises: a line that is typed and corrected, and, when *)
(* it is entered, the program it names, with its words.                    *)
(***************************************************************************)
EXTENDS Commands, WordsOfLine

CONSTANTS Symbol,    \* what can be typed
          Capacity,  \* how many symbols a line has at most
          MaxWords   \* how many words of it count

VARIABLES line,
          asked      \* what the last key asked for

promptVars == <<line, asked>>

Nothing == [kind |-> "nothing"]
Refused == [kind |-> "refused"]
Fault == [kind |-> "fault"]
Denied == [kind |-> "denied"]  \* the system has no pipe or no memory for it

\* The first MaxWords words are read.
WordsRead(l) == LET words == Words(l, " ")
                IN SubSeq(words, 1, IF Len(words) < MaxWords THEN Len(words) ELSE MaxWords)

InBackground(words) == words[Len(words)][1] = "&"
OneProgram(words) ==
  LET argv == IF InBackground(words) THEN Front(words) ELSE words
  IN IF argv = <<>> \/ ~IsCommand(words[1]) THEN {Refused}
     ELSE {Denied, [kind |-> "program", fg |-> ~InBackground(words), argv |-> argv, does |-> Run(argv)]}

\* Both sides of the first "|" must name a program.  The right one is started first, and
\* goes on when the left one cannot be.
TwoPrograms(left, right) ==
  LET RightAlone(why) == [kind |-> "rightAlone", why |-> why, right |-> Run(right)]
      Both == [kind |-> "pipeline", left |-> Run(left), right |-> Run(right)]
  IN IF left = <<>> \/ right = <<>> THEN {Refused}
     ELSE IF ~IsCommand(right[1]) THEN {Denied, Refused}
     ELSE IF ~IsCommand(left[1]) THEN {Denied, RightAlone("name")}
     ELSE {Denied, RightAlone("memory"), Both}

\* What may come of the words.
Outcomes(words) ==
  LET bars == {i \in DOMAIN words : words[i] = <<"|">>}
  IN IF bars = {} THEN OneProgram(words)
     ELSE LET bar == CHOOSE i \in bars : \A j \in bars : i <= j
          IN TwoPrograms(SubSeq(words, 1, bar - 1), SubSeq(words, bar + 1, Len(words)))

PromptInit == line = <<>> /\ asked = Nothing

Type(c) == /\ line' = IF Len(line) < Capacity THEN Append(line, c) ELSE line
           /\ asked' = Nothing
Erase == line # <<>> /\ line' = Front(line) /\ asked' = Nothing
Clear == line' = <<>> /\ asked' = Nothing

\* Nothing is promised of a line that fills the buffer, and an empty one is refused or
\* stops the shell.
Enter ==
  /\ line' = <<>>
  /\ Len(line) < Capacity =>
       asked' \in IF WordsRead(line) = <<>> THEN {Refused, Fault} ELSE Outcomes(WordsRead(line))

PromptNext == (\E c \in Symbol : Type(c)) \/ Erase \/ Clear \/ Enter
PromptSpec == PromptInit /\ [][PromptNext]_promptVars
================================================================================
