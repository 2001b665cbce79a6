--------------------------------- MODULE Utils ---------------------------------
(***************************************************************************)
(* The conversions of Userland/SampleCodeModule/libraries/utils.c.  A      *)
(* string is the sequence of its characters up to the terminating zero, a  *)
(* character a string of length one; only those the conversions tell apart *)
(* are listed.                                                             *)
(***************************************************************************)
EXTENDS Integers, SequencesExt

Digit == <<"0", "1", "2", "3", "4", "5", "6", "7", "8", "9", "A", "B", "C", "D", "E", "F">>
LowerDigit == <<"0", "1", "2", "3", "4", "5", "6", "7", "8", "9", "a", "b", "c", "d", "e", "f">>
Decimal == {Digit[i] : i \in 1 .. 10}
DigitValue(c) == CHOOSE v \in 0 .. 15 : Digit[v + 1] = c \/ LowerDigit[v + 1] = c
IsHex(c) == c \in Range(Digit) \cup Range(LowerDigit)

Zeros(n) == IF n <= 0 THEN <<>> ELSE [i \in 1 .. n |-> "0"]

\* The digits come out from the lowest, and are then reversed.
Remainders(value, base) ==
  LET from[v \in 0 .. value] ==
        <<Digit[(v % base) + 1]>> \o (IF v < base THEN <<>> ELSE from[v \div base])
  IN from[value]

uintToBase(value, base) == Reverse(Remainders(value, base))

uintToBaseWL(value, base, length) ==
  LET low == Remainders(value, base)
  IN Reverse(low \o Zeros(length - Len(low)))

\* x times x, again and again.
pow_Squares(x, y) == LET p[n \in 0 .. y] == IF n = 0 THEN 1 ELSE IF n = 1 THEN x ELSE p[n - 1] * p[n - 1]
                     IN p[y]
pow(x, y) == LET p[n \in 0 .. y] == IF n = 0 THEN 1 ELSE IF n = 1 THEN x ELSE p[n - 1] * x
             IN p[y]

\* Each digit times 16 to its place; any other character is an error.
strToHex(str) ==
  LET Add(num, i) == num + DigitValue(str[i]) * pow(16, Len(str) - i)
  IN IF \E i \in DOMAIN str : ~IsHex(str[i]) THEN [error |-> TRUE, num |-> 0]
     ELSE [error |-> FALSE, num |-> FoldLeftDomain(Add, 0, str)]

\* The number that the digits of str make when they are written after those of number.
Extended(number, str, base) == FoldLeft(LAMBDA n, c : n * base + DigitValue(c), number, str)

\* The two halves of a byte are decimal digits.
BSDToInt(num) == (num \div 16) * 10 + (num % 16)

\* From the right, until a '-' or another character that comes after (to the left of) a
\* number other than 0; what comes before is skipped.
strToInt(str) ==
  LET Step(c, s) ==
        IF s.stop THEN s
        ELSE IF c \in Decimal THEN [s EXCEPT !.number = @ + DigitValue(c) * s.mult, !.mult = @ * 10]
        ELSE IF s.number = 0 THEN s
        ELSE [s EXCEPT !.number = IF c = "-" THEN -@ ELSE @, !.stop = TRUE]
  IN FoldRight(Step, str, [number |-> 0, mult |-> 1, stop |-> FALSE]).number

\* Its callers only ask whether it answers 0.
stringcmp(str1, str2) == IF str1 = str2 THEN 0 ELSE 1

Abs(n) == IF n < 0 THEN -n ELSE n

\* Only base 10 has a sign.
itoa(value, base) ==
  Reverse(Remainders(Abs(value), base)
            \o (IF value < 0 /\ base = 10 THEN <<"-">> ELSE <<>>))

\* An optional '-', digits, and perhaps a point with more digits, or none, after it.
isNum(str) ==
  LET unsigned == IF str # <<>> /\ str[1] = "-" THEN Tail(str) ELSE str
      points == {i \in DOMAIN unsigned : unsigned[i] = "."}
  IN /\ unsigned # <<>> /\ unsigned[1] \in Decimal
     /\ \A i \in DOMAIN unsigned : unsigned[i] \in Decimal \cup {"."}
     /\ \A i, j \in points : i = j

\* The number is num / 10^places: the digits after the point multiply what is there
\* by 10, and the sum is divided at the end.
strToDouble(numStr) ==
  LET sign == IF numStr # <<>> /\ numStr[1] = "-" THEN -1 ELSE 1
      unsigned == IF sign = -1 THEN Tail(numStr) ELSE numStr
      points == {i \in DOMAIN unsigned : unsigned[i] = "."}
      ends == IF points = {} THEN Len(unsigned) ELSE (CHOOSE i \in points : TRUE) - 1
      fraction == SubSeq(unsigned, ends + 2, Len(unsigned))
  IN [num |-> sign * Extended(strToInt(SubSeq(unsigned, 1, ends)), fraction, 10),
      places |-> Len(fraction)]

(***************************************************************************)
(* intToStr and the reverse it uses, which takes the index of the last     *)
(* character and is given the length: the character past the digits comes  *)
(* to the front, and the first digit is overwritten by the terminator.     *)
(***************************************************************************)
reverse(str, len) == [i \in DOMAIN str |-> IF i <= len + 1 THEN str[len + 2 - i] ELSE str[i]]

\* The digits of x, of which 0 has none, and zeros up to d of them, in a buffer
\* that held old.
intToStr(x, old, d) ==
  LET low == IF x = 0 THEN <<>> ELSE Remainders(x, 10)
      digits == low \o Zeros(d - Len(low))
      n == Len(digits)
      buffer == [i \in DOMAIN old |-> IF i <= n THEN digits[i] ELSE old[i]]
  IN SubSeq(reverse(buffer, n), 1, n)

Vowels == {"a", "e", "i", "o", "u", "A", "E", "I", "O", "U"}
check_vowel(a) == a \in Vowels

(***************************************************************************)
(* strtok: the string and the index are static, and stay from call to call *)
(* until a call without a result resets them.                              *)
(***************************************************************************)
TokReset == [currentIndex |-> 1, ogString |-> <<>>]

\* A string given is copied over the old one, whose end stays when it was longer.
TokString(t, string) ==
  [t EXCEPT !.ogString = string \o SubSeq(@, Len(string) + 1, Len(@))]

\* From i on, the first place that is, or is not, the delimiter.
SkipWhile(str, i, delim, same) ==
  CHOOSE j \in i .. Len(str) + 1 :
    /\ \A k \in i .. j - 1 : (str[k] = delim) = same
    /\ j <= Len(str) => (str[j] = delim) # same

\* NoToken is the NULL that ends the tokens, no string of characters.
NoToken == <<"null">>
strtok(t, delim) ==
  LET from == SkipWhile(t.ogString, t.currentIndex, delim, TRUE)
      to == SkipWhile(t.ogString, from, delim, FALSE)
  IN IF from > Len(t.ogString) THEN [token |-> NoToken, t |-> [t EXCEPT !.currentIndex = from]]
     ELSE [token |-> SubSeq(t.ogString, from, to - 1), t |-> [t EXCEPT !.currentIndex = to]]
================================================================================
