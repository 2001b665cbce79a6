-------------------------------- MODULE TestMem --------------------------------
(***************************************************************************)
(* The command memtest, testMemory/testMm.c: it asks the memory manager    *)
(* for blocks of random sizes until it has enough, fills each with its own *)
(* number, checks them, and gives them back, for ever.                     *)
(***************************************************************************)
EXTENDS Heap, Sequences

CONSTANTS MAX_BLOCKS, MAX_MEMORY,
          Other      \* what else is in use of the heap, as blocks

\* GetUniform(n - 1) + 1: no block is empty.
ASSUME TestMemAssumption ==
  /\ MAX_BLOCKS \in Nat \ {0} /\ MAX_MEMORY \in Nat \ {0}
  /\ Units \in Nat /\ Sizes \subseteq Nat \ {0}

VARIABLES
  mm_rqs,  \* the requests: address and size
  total,
  bytes,   \* what the cells of the heap hold
  memI,    \* the loop variable of the three loops over the blocks
  memPc

memTestVars == <<blocks, answer, mm_rqs, total, bytes, memI, memPc>>

TestMemInit ==
  /\ blocks = Other /\ answer = Null
  /\ mm_rqs = <<>> /\ total = 0
  /\ bytes = [c \in 0 .. Units - 1 |-> -1]
  /\ memI = 1 /\ memPc = "request"

MoreRequests == Len(mm_rqs) < MAX_BLOCKS /\ total < MAX_MEMORY

\* GetUniform gives any size that keeps the total within MAX_MEMORY.
RequestBlock(size) ==
  /\ memPc = "request" /\ MoreRequests
  /\ size <= MAX_MEMORY - total
  /\ Give(size)
  /\ mm_rqs' = Append(mm_rqs, [address |-> answer', size |-> size])
  /\ total' = total + size
  /\ UNCHANGED <<bytes, memI, memPc>>

\* "No memory!": the program ends with the blocks it has, which nobody frees.
NoMemory(size) ==
  /\ memPc = "request" /\ MoreRequests
  /\ size <= MAX_MEMORY - total
  /\ Refuse(size)
  /\ memPc' = "no memory"
  /\ UNCHANGED <<mm_rqs, total, bytes, memI>>

LoopTo(from, to) ==
  /\ memPc = from
  /\ memI' = IF memI < Len(mm_rqs) THEN memI + 1 ELSE 1
  /\ memPc' = IF memI < Len(mm_rqs) THEN from ELSE to

StartSetting ==
  /\ memPc = "request" /\ ~MoreRequests
  /\ memPc' = "set"
  /\ UNCHANGED <<blocks, answer, mm_rqs, total, bytes, memI>>

memoryset_OneMore(b, c, len) == [a \in DOMAIN bytes |-> IF a \in b .. b + len THEN c ELSE bytes[a]]
memoryset(b, c, len) == [a \in DOMAIN bytes |-> IF a \in b .. b + len - 1 THEN c ELSE bytes[a]]
memcheck(start, value, size) == \A a \in start .. start + size - 1 : bytes[a] = value

SetBlock ==
  /\ LoopTo("set", "check")
  /\ bytes' = memoryset(mm_rqs[memI].address, memI, mm_rqs[memI].size)
  /\ UNCHANGED <<blocks, answer, mm_rqs, total>>

\* "ERROR!" when the check fails.
CheckBlock ==
  /\ LoopTo("check", "free")
  /\ UNCHANGED <<blocks, answer, mm_rqs, total, bytes>>

FreeBlock ==
  /\ memPc = "free"
  /\ LET rq == mm_rqs[memI] IN Free(<<rq.address, rq.size>>)
  /\ IF memI < Len(mm_rqs) THEN memI' = memI + 1 /\ UNCHANGED <<mm_rqs, total, memPc>>
     ELSE memI' = 1 /\ mm_rqs' = <<>> /\ total' = 0 /\ memPc' = "request"
  /\ UNCHANGED bytes

TestMemNext ==
  \/ \E size \in Sizes : RequestBlock(size) \/ NoMemory(size)
  \/ StartSetting \/ SetBlock \/ CheckBlock \/ FreeBlock
TestMemSpec == TestMemInit /\ [][TestMemNext]_memTestVars

\* The test never prints "ERROR!": from the moment a block is set until it is checked it
\* holds its own number, whatever sizes came before; its blocks are in use and apart from
\* all others until it frees them, and a round ends with the heap as it began.
BlocksKeepTheirBytes ==
  /\ memPc = "check" => memcheck(mm_rqs[memI].address, memI, mm_rqs[memI].size)
  /\ memPc \in {"set", "check"} =>
       \A i, j \in DOMAIN mm_rqs : i # j =>
         mm_rqs[i].address + mm_rqs[i].size <= mm_rqs[j].address
           \/ mm_rqs[j].address + mm_rqs[j].size <= mm_rqs[i].address
  /\ memPc = "request" /\ mm_rqs = <<>> => blocks = Other
================================================================================
