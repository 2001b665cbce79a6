------------------------------ MODULE Conversions ------------------------------
(***************************************************************************)
(* The conversions of the user library and of the kernel, over the numbers *)
(* and the lines they are given, against what they are for: a number that  *)
(* was written reads back, and a line is cut where the delimiters are.     *)
(***************************************************************************)
EXTENDS Utils, WordsOfLine

CONSTANTS Numbers,    \* the numbers written
          Bases,
          Letters,    \* what lines are made of
          MaxLine,    \* bound: how long they are
          Delimiter

ASSUME ConversionsAssumption ==
  /\ Numbers \subseteq Nat /\ Bases \subseteq 2 .. 16
  /\ MaxLine \in Nat /\ Delimiter \in Letters /\ "null" \notin Letters

Kernel == INSTANCE KernelUtils

VARIABLES number, base, line
conversionsVars == <<number, base, line>>

ConversionsInit ==
  \/ number \in Numbers /\ base \in Bases /\ line = <<>>
  \/ number = 0 /\ base = 10 /\ line \in BoundedSeq(Letters, MaxLine)

\* What a numeral stands for.
Positional(str, b) == Extended(0, str, b)

Lower(str) == [i \in DOMAIN str |-> LowerDigit[DigitValue(str[i]) + 1]]

\* All that calling strtok again and again answers, up to the NULL.
Tokens(str) ==
  LET t == TokString(TokReset, str)
      from[i \in 1 .. Len(str) + 1] ==
        LET call == strtok([t EXCEPT !.currentIndex = i], Delimiter)
        IN IF call.token = NoToken THEN <<>> ELSE <<call.token>> \o from[call.t.currentIndex]
  IN from[t.currentIndex]

\* The kernel's, from the call that gives the string on.
KernelTokens(str) ==
  LET t == TokString(TokReset, str)
      from[i \in 1 .. Len(str) + 1] ==
        LET call == Kernel!strtok([t EXCEPT !.currentIndex = i], Delimiter, FALSE)
        IN IF call.token = NoToken THEN <<>> ELSE <<call.token>> \o from[call.t.currentIndex]
      first == Kernel!strtok(t, Delimiter, TRUE)
  IN <<first.token>> \o from[first.t.currentIndex]

(***************************************************************************)
(* Properties                                                              *)
(***************************************************************************)

\* Every writer and reader of numbers agrees with the numerals of the base, signs and
\* padding included, and each pair that is used together is inverse, in both libraries;
\* the kernel's strToHex, because of its pow, only up to three digits.
NumbersRoundTrip ==
  LET written == uintToBase(number, base)
      hex == uintToBase(number, 16)
      padded == uintToBaseWL(number, base, 8)
      decimal == itoa(-number, 10)
  IN /\ Positional(written, base) = number
     /\ number > 0 => written[1] # "0"
     /\ Positional(padded, base) = number /\ Len(padded) >= 8
     /\ Len(padded) > 8 => padded = written
     /\ strToHex(hex) = [error |-> FALSE, num |-> number]
     /\ strToHex(Lower(hex)) = strToHex(hex)
     /\ strToInt(decimal) = -number /\ strToInt(itoa(number, 10)) = number
     /\ isNum(decimal) /\ strToDouble(decimal) = [num |-> -number, places |-> 0]
     /\ LET whole == itoa(number + 1000, 10)
            point == SubSeq(whole, 1, Len(whole) - 2) \o <<".">> \o SubSeq(whole, Len(whole) - 1, Len(whole))
        IN isNum(point) /\ strToDouble(point) = [num |-> number + 1000, places |-> 2]
     /\ number < 100 => BSDToInt((number \div 10) * 16 + (number % 10)) = number
     /\ Kernel!strToInt(itoa(number, 10)) = [error |-> FALSE, num |-> number]
     /\ Kernel!strToInt(decimal).error = (number > 0)
     /\ number < 16^3 => Kernel!strToHex(hex) = [error |-> FALSE, num |-> number]
     /\ number > 0 => Len(uintToBase(number, 2)) = Kernel!log2(number) + 1

\* strtok cuts a line into its words, in both libraries: the kernel's may answer an
\* empty token at the end.  What isNum takes for a number without a point is read
\* alike by strToInt and strToDouble.
LinesAreCut ==
  LET words == Words(line, Delimiter) IN
  /\ Tokens(line) = words
  /\ KernelTokens(line) \in {words, Append(words, <<>>)}
  /\ isNum(line) /\ "." \notin Range(line) => strToInt(line) = strToDouble(line).num

\* The conversions of both libraries, for every number and line they are given, do what
\* they are for: numbers read back and lines are cut where the delimiters are.
ConversionsAgree == NumbersRoundTrip /\ LinesAreCut

ConversionsSpec == ConversionsInit /\ [][FALSE]_conversionsVars
================================================================================
