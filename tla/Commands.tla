------------------------------- MODULE Commands -------------------------------
(***************************************************************************)
(* The commands of applications/shell/commands.c: what each of them asks   *)
(* of the system, from the words it is started with (its name is the       *)
(* first).  A symbol of the model stands for one or more characters typed  *)
(* together: the name of a command is one symbol, and so is a digit.       *)
(***************************************************************************)
EXTENDS Utils, TLC

CONSTANT COPY_MAX  \* the longest name that strcopy copies, and one more

WrongArguments == [call |-> "none", error |-> "arguments"]
Asks(name) == [call |-> name]

\* Those that take no argument.
Alone(argv, call) == IF Len(argv) # 1 THEN WrongArguments ELSE call

help(argv) == Alone(argv, Asks("print"))
inforeg(argv) == Alone(argv, Asks("INFOREG"))
time(argv) == Alone(argv, Asks("RTC_TIME"))
cpuInfo(argv) == Alone(argv, Asks("cpuVendor"))
cpuTemp(argv) == Alone(argv, Asks("TEMP"))
checkZeroException(argv) == Alone(argv, Asks("exception 0"))
checkInvalidOpcodeException(argv) == Alone(argv, Asks("exception 6"))
loop(argv) == Alone(argv, Asks("loop"))
cat(argv) == Alone(argv, Asks("cat"))
wc(argv) == Alone(argv, Asks("wc"))
filter(argv) == Alone(argv, Asks("filter"))

\* Those that do not look at their arguments.
ps(argv) == Asks("PS")
mem(argv) == Asks("DUMP_MM")
sem(argv) == Asks("DUMP_SEM")
pipe(argv) == Asks("DUMP_PIPE")
testPriority(argv) == Asks("testPrio")
testScheduler(argv) == Asks("testProcesses")
showArgs(argv) == [call |-> "print", words |-> argv]

\* The address is in hexadecimal, and is checked.
printmem(argv) ==
  IF Len(argv) # 2 \/ strToHex(argv[2]).error THEN WrongArguments
  ELSE [call |-> "GET_MEM", address |-> strToHex(argv[2]).num]

\* The numbers of the others are not.
kill(argv) ==
  IF Len(argv) # 2 THEN WrongArguments ELSE [call |-> "KILL", pid |-> strToInt(argv[2])]
niceProcess(argv) ==
  IF Len(argv) # 3 THEN WrongArguments
  ELSE [call |-> "NICE", pid |-> strToInt(argv[2]), priority |-> strToInt(argv[3])]
block(argv) ==
  IF Len(argv) # 2 THEN WrongArguments ELSE [call |-> "BLOCK", pid |-> strToInt(argv[2])]
unblock(argv) ==
  IF Len(argv) # 2 THEN WrongArguments ELSE [call |-> "UNBLOCK", pid |-> strToInt(argv[2])]

\* The name is cleared first; strcopy leaves it so when the new one is as long as a
\* pointer.
strcopy(str1, str2) == IF Len(str1) < COPY_MAX THEN str1 ELSE str2
changeUsername(argv) ==
  IF Len(argv) # 2 THEN WrongArguments ELSE [call |-> "rename", name |-> strcopy(argv[2], <<>>)]

\* The table of initShell; memtest, the two synctests and phylo are modules of their own.
commandsData(argv) ==
  [help |-> help(argv), inforeg |-> inforeg(argv), printmem |-> printmem(argv),
   time |-> time(argv), cpuInfo |-> cpuInfo(argv), cpuTemp |-> cpuTemp(argv),
   changeUsername |-> changeUsername(argv), checkZeroException |-> checkZeroException(argv),
   checkInvalidOpcodeException |-> checkInvalidOpcodeException(argv),
   showArgs |-> showArgs(argv), ps |-> ps(argv), mem |-> mem(argv),
   priotest |-> testPriority(argv), schedtest |-> testScheduler(argv),
   memtest |-> Asks("testMem"), synctest |-> Asks("testSync"), nosynctest |-> Asks("testNoSync"),
   loop |-> loop(argv), kill |-> kill(argv), nice |-> niceProcess(argv), block |-> block(argv),
   unblock |-> unblock(argv), sem |-> sem(argv), pipe |-> pipe(argv), cat |-> cat(argv),
   wc |-> wc(argv), filter |-> filter(argv), phylo |-> Asks("philosopherProblem")]

CommandNames == DOMAIN commandsData(<<"ps">>)
IsCommand(word) == Len(word) = 1 /\ word[1] \in CommandNames
Run(argv) == commandsData(argv)[argv[1][1]]
================================================================================
