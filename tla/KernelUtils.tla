------------------------------ MODULE KernelUtils ------------------------------
(***************************************************************************)
(* Kernel/libraries/utils.c, which repeats most of the user library's, the *)
(* conversions of naiveConsole.c and RTCTime.c, and where they differ.     *)
(***************************************************************************)
EXTENDS Integers, SequencesExt

User == INSTANCE Utils

\* The same text as in the user library.
uintToBase(value, base) == User!uintToBase(value, base)
uintToBaseWL(value, base, length) == User!uintToBaseWL(value, base, length)
itoa(value, base) == User!itoa(value, base)
BSDToInt(num) == User!BSDToInt(num)

\* naiveConsole has its own copy.
ncUintToBase(value, base) == User!uintToBase(value, base)

\* x is squared where it should be multiplied by what it was.
pow(x, y) == LET p[n \in 0 .. y] == IF n = 0 THEN 1 ELSE IF n = 1 THEN x ELSE p[n - 1] * p[n - 1]
             IN p[y]
strToHex(str) ==
  LET Add(num, i) == num + User!DigitValue(str[i]) * pow(16, Len(str) - i)
  IN IF \E i \in DOMAIN str : ~User!IsHex(str[i]) THEN [error |-> TRUE, num |-> 0]
     ELSE [error |-> FALSE, num |-> FoldLeftDomain(Add, 0, str)]

\* From the left, and anything but a digit is an error.
strToInt(str) ==
  IF \E i \in DOMAIN str : str[i] \notin User!Decimal THEN [error |-> TRUE, num |-> -1]
  ELSE [error |-> FALSE, num |-> User!Extended(0, str, 10)]

\* The number of halvings that leave something, less one; -1 for 0.
log2(n) == LET ans[v \in 0 .. n] == IF v = 0 THEN -1 ELSE 1 + ans[v \div 2] IN ans[n]

\* The first call already answers a token, and one that finds only delimiters
\* answers an empty token; NULL comes when the string was used up before the call.
strtok(t, delim, first) ==
  LET from == User!SkipWhile(t.ogString, t.currentIndex, delim, TRUE)
      to == User!SkipWhile(t.ogString, from, delim, FALSE)
  IN IF ~first /\ t.currentIndex > Len(t.ogString) THEN [token |-> User!NoToken, t |-> t]
     ELSE [token |-> SubSeq(t.ogString, from, to - 1), t |-> [t EXCEPT !.currentIndex = to]]
================================================================================
