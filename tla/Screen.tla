--------------------------------- MODULE Screen --------------------------------
(***************************************************************************)
(* The text on the screen: Kernel/drivers/videoDriver.c and the sys_write  *)
(* of Kernel/libraries/stringLib.c.  A cell is the place of one character; *)
(* pixels, margins, fonts and colours are left out.                        *)
(***************************************************************************)
EXTENDS Integers, Sequences

CONSTANTS Width, Height,  \* in characters
          Glyph,          \* the characters that show
          Blank,
          LENGTH_MOD,     \* the length of a write is counted modulo this
          MaxWrite,       \* bound: how long a write is
          MaxEchoed       \* bound: how much is written before a newline

ASSUME ScreenAssumption ==
  /\ Width \in Nat \ {0} /\ Height \in Nat \ {0} /\ LENGTH_MOD \in Nat \ {0}
  /\ MaxWrite \in Nat /\ MaxEchoed \in Nat
  /\ Glyph \cap {Blank, "newline", "backspace"} = {}

VARIABLES
  screen,  \* its cells, and currentX and currentY
  output,  \* what sys_write has still to print
  echoed   \* history: what was written since the last newline or clear, as corrected

screenVars == <<screen, output, echoed>>

BlankRow == [x \in 0 .. Width - 1 |-> Blank]
initVideoDriver == [cells |-> [y \in 0 .. Height - 1 |-> BlankRow], currentX |-> 0, currentY |-> 0]

\* The rows move up, and the row of the cursor is cleared.
scrollDownScreen(s) ==
  [s EXCEPT !.cells = [y \in 0 .. Height - 1 |-> IF y = s.currentY THEN BlankRow ELSE @[y + 1]]]

changeLineOnScreen(s) ==
  IF s.currentY + 1 < Height THEN [s EXCEPT !.currentX = 0, !.currentY = @ + 1]
  ELSE scrollDownScreen([s EXCEPT !.currentX = 0])

\* The cursor stays past the end of a full row until a character needs a place.
Wrapped_Never(s) == s
Wrapped(s) == IF s.currentX = Width THEN changeLineOnScreen(s) ELSE s

Drawn(s, c) == [s EXCEPT !.cells[s.currentY][s.currentX] = c]

printCharOnScreen(s, c) == LET w == Wrapped(s) IN [Drawn(w, c) EXCEPT !.currentX = w.currentX + 1]

\* From the first place of a row back to the last one of the row above.
removeCharFromScreen(s) ==
  IF s.currentX > 0 THEN Drawn([s EXCEPT !.currentX = @ - 1], Blank)
  ELSE IF s.currentY > 0 THEN Drawn([s EXCEPT !.currentY = @ - 1, !.currentX = Width - 1], Blank)
  ELSE s

clearScreen(s) == initVideoDriver

Written(s, c) ==
  CASE c = "newline"   -> changeLineOnScreen(s)
    [] c = "backspace" -> removeCharFromScreen(s)
    [] OTHER           -> printCharOnScreen(s, c)

(***************************************************************************)
(* What the shell and the programs write: a call at a time.                *)
(***************************************************************************)
Character == Glyph \cup {"newline", "backspace"}
Text == UNION {[1 .. n -> Character] : n \in 0 .. MaxWrite}

\* The length arrives as a byte.
sys_write(text) ==
  /\ output = <<>> /\ Len(echoed) + Len(text) <= MaxEchoed
  /\ output' = SubSeq(text, 1, Len(text) % LENGTH_MOD)
  /\ UNCHANGED <<screen, echoed>>

Home(s) == s.currentX = 0 /\ s.currentY = 0

\* One character more of the history; a removal at home does nothing.
Told(c) ==
  CASE c = "newline"   -> <<>>
    [] c = "backspace" -> IF echoed = <<>> \/ Home(screen) THEN echoed
                          ELSE SubSeq(echoed, 1, Len(echoed) - 1)
    [] OTHER           -> Append(echoed, c)

\* One turn of its loop.
Writes ==
  /\ output # <<>>
  /\ screen' = Written(screen, Head(output)) /\ echoed' = Told(Head(output))
  /\ output' = Tail(output)

Clears == output = <<>> /\ screen' = clearScreen(screen) /\ echoed' = <<>> /\ UNCHANGED output

ScreenInit == screen = initVideoDriver /\ output = <<>> /\ echoed = <<>>
ScreenNext == (\E text \in Text : sys_write(text)) \/ Writes \/ Clears
ScreenSpec == ScreenInit /\ [][ScreenNext]_screenVars

(***************************************************************************)
(* Properties                                                              *)
(***************************************************************************)
Position(s) == s.currentY * Width + s.currentX
CellAt(s, p) == s.cells[p \div Width][p % Width]

Shows(s, text) ==
  /\ \A i \in DOMAIN text : Position(s) - i >= 0 => CellAt(s, Position(s) - i) = text[Len(text) + 1 - i]
  /\ \A p \in Position(s) .. Width * Height - 1 : CellAt(s, p) = Blank

\* Read from row to row, the screen ends with what was written since the last newline and
\* not removed, as far as it did not scroll away, and is blank from the cursor on: through
\* wraps, scrolls and removals across the end of a row the echo of a line is the line.
EchoIsTheLine == Shows(screen, echoed)
================================================================================
