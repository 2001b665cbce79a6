------------------------------ MODULE WordsOfLine ------------------------------
(***************************************************************************)
(* The words of a line: the maximal runs of characters that are not the    *)
(* delimiter, in their order.  What the functions that cut lines are for.  *)
(***************************************************************************)
EXTENDS Integers, Sequences, FiniteSets

\* Where words start; where the nth does; and where the one that starts at i ends.
Starts(str, delim) == {i \in DOMAIN str : str[i] # delim /\ (i = 1 \/ str[i - 1] = delim)}
Start(str, delim, n) ==
  CHOOSE i \in Starts(str, delim) : Cardinality({j \in Starts(str, delim) : j <= i}) = n
End(str, delim, i) == CHOOSE j \in i .. Len(str) : /\ \A k \in i .. j : str[k] # delim
                                                   /\ j = Len(str) \/ str[j + 1] = delim

Word(str, delim, i) == SubSeq(str, i, End(str, delim, i))
Words(str, delim) == [n \in 1 .. Cardinality(Starts(str, delim))
                        |-> Word(str, delim, Start(str, delim, n))]
================================================================================
