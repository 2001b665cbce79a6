-------------------------------- MODULE Stream --------------------------------
(***************************************************************************)
(* What a stream of characters inside the kernel promises, be it the       *)
(* buffer of the keyboard or a pipe: at most Capacity characters wait in   *)
(* it, they leave it in the order in which they came, and a reader comes   *)
(* out of it without a character only after one was lost because it was    *)
(* full.  Only closing it throws characters away.                          *)
(***************************************************************************)
EXTENDS Naturals, Sequences

CONSTANTS Char, Capacity,
          NoChar,  \* what is read before there was anything to read
          Lossy    \* a writer that finds it full does not wait

VARIABLES open,
          contents,  \* the characters that wait
          taken,     \* the one that left last
          lost       \* one was dropped

streamVars == <<open, contents, taken, lost>>

StreamInit == contents = <<>> /\ taken = NoChar /\ lost = FALSE

Open  == /\ ~open /\ open' = TRUE
         /\ contents = <<>>
         /\ UNCHANGED <<contents, taken, lost>>
Close == /\ open /\ open' = FALSE
         /\ contents' = <<>>
         /\ UNCHANGED <<taken, lost>>

\* One call may bring several characters.
Put == /\ open /\ UNCHANGED <<open, taken, lost>>
       /\ Len(contents) < Len(contents') /\ Len(contents') <= Capacity
       /\ SubSeq(contents', 1, Len(contents)) = contents
       /\ contents' \in Seq(Char)
Drop == /\ open /\ Lossy /\ Len(contents) = Capacity
        /\ lost' = TRUE
        /\ UNCHANGED <<open, contents, taken>>
Take == /\ open /\ contents # <<>>
        /\ contents' = Tail(contents)
        /\ taken' = Head(contents)
        /\ UNCHANGED <<open, lost>>
TakeNothing == /\ open /\ contents = <<>> /\ lost
               /\ taken' = NoChar
               /\ UNCHANGED <<open, contents, lost>>

StreamNext == Open \/ Close \/ Put \/ Drop \/ Take \/ TakeNothing

StreamSpec == StreamInit /\ [][StreamNext]_streamVars
==============================================================================
