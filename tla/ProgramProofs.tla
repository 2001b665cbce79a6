----------------------------- MODULE ProgramProofs -----------------------------
(***************************************************************************)
(* The programs, for every number of processes and every size.             *)
(*                                                                         *)
(* synctest: its semaphore excludes, whatever the rounds and the listeners *)
(* a semaphore may have, and although the semaphore is freed by the last   *)
(* process that closes it and opened again; hence no update is lost.       *)
(*                                                                         *)
(* phylo: the mutex of the philosophers' table gets one token more with    *)
(* each removal and from nothing else, and until the first one no two      *)
(* neighbours are both eating.                                             *)
(*                                                                         *)
(* memtest and schedtest: what they keep of their blocks and of their      *)
(* processes is true, so that they never end with an error message.        *)
(*                                                                         *)
(* The image: what the module packer wrote reaches the place it runs at.   *)
(*                                                                         *)
(* The screen: what was written is what can be read before the cursor.     *)
(***************************************************************************)
EXTENDS Tests, Phylo, Image, Screen, SyncProofs, SequenceTheorems, FiniteSetTheorems

(***************************************************************************)
(* The inductive invariant.  Mutual exclusion alone is not inductive: the  *)
(* token must be in the semaphore or with one process, the line must hold  *)
(* only processes that have not read yet, and the listeners must be those  *)
(* who have the semaphore open, so that no close frees it under them.      *)
(***************************************************************************)
TestLabel == {"sOpen", "sWait", "slowInc", "yield", "sPost", "sClose", "done"}

Users    == {p \in Worker : pc[p] \notin {"sOpen", "done"}}
Line     == IF sync[SEM_ID] = NoSync THEN {} ELSE Range(sync[SEM_ID].blockedPIDs)
Between == {p \in Worker : pc[p] \in {"slowInc", "yield", "sPost"}}
Holders  == Between \ Line

TestType ==
  /\ sync \in Semaphores
  /\ \A s \in SyncId \ {SEM_ID} : sync[s] = NoSync
  /\ pc \in [Worker -> TestLabel]
  /\ flag \in BOOLEAN

Counted == IF sync[SEM_ID] = NoSync THEN Users = {}
           ELSE sync[SEM_ID].listeners = Cardinality(Users) /\ Users # {}

OneToken ==
  sync[SEM_ID] # NoSync =>
    /\ Distinct(sync[SEM_ID].blockedPIDs)
    /\ Line \subseteq {p \in Worker : pc[p] = "slowInc"}
    /\ \/ sync[SEM_ID].value = 1 /\ sync[SEM_ID].blockedPIDs = <<>> /\ Holders = {}
       \/ sync[SEM_ID].value = 0 /\ \E p \in Worker : Holders = {p}

TestInv == TestType /\ (flag => Counted /\ OneToken)

-----------------------------------------------------------------------------
\* Only the semaphore of the test has sleepers.
LEMMA AsleepInLine == TestType => \A p \in Worker : Asleep(p) <=> p \in Line
BY SyncTestAssumption DEF TestType, Asleep, Line

\* The processes are finitely many.
LEMMA UsersFinite == IsFiniteSet(Users) /\ Cardinality(Users) \in Nat
<1>1. IsFiniteSet(Worker) /\ Users \subseteq Worker
  BY SyncTestAssumption DEF Worker, Users
<1>. QED  BY <1>1, FS_Subset, FS_CardinalityType

\* At most one process is inside, because the token is one.
LEMMA TestInvExcludes == TestInv /\ flag => OneInside
<1>. SUFFICES ASSUME TestInv, flag, NEW p \in Worker, NEW q \in Worker, Inside(p), Inside(q)
              PROVE  p = q
  BY DEF OneInside
<1>1. p \in Holders /\ q \in Holders
  BY AsleepInLine DEF Inside, Holders, Between, TestInv
<1>2. sync[SEM_ID] # NoSync
  BY <1>1 DEF TestInv, Counted, Holders, Between, Users
<1>. QED  BY <1>1, <1>2 DEF TestInv, OneToken

\* When all are done the semaphore is gone.
LEMMA TestInvGone == TestInv /\ flag /\ AllDone => sync[SEM_ID] = NoSync
BY DEF TestInv, Counted, AllDone, Users

-----------------------------------------------------------------------------
(***************************************************************************)
(* The steps, with the semaphore in use.                                   *)
(***************************************************************************)
\* A step that neither opens nor closes keeps the count of listeners.
LEMMA SameUsers ==
  ASSUME Counted, Users' = Users, sync[SEM_ID] # NoSync, sync'[SEM_ID] # NoSync,
         sync'[SEM_ID].listeners = sync[SEM_ID].listeners
  PROVE  Counted'
BY DEF Counted

\* The first who opens makes the semaphore, with its token; the others are counted.
LEMMA OpensSemKeeps ==
  ASSUME TestInv, flag, NEW p \in Worker, OpensSem(p)
  PROVE  TestInv'
<1>. USE SyncTestAssumption DEF TestInv
<1>1. /\ pc[p] = "sOpen" /\ sync' = AfterOpen(sync, SEM_ID, 1) /\ flag' = flag /\ p \notin Users
      /\ pc' = [pc EXCEPT ![p] = IF Refused(sync, SEM_ID) THEN "done" ELSE NextRound(p)]
  BY DEF OpensSem, Users
<1>2. CASE Refused(sync, SEM_ID)
  <2>1. sync' = sync /\ pc' = [pc EXCEPT ![p] = "done"]
    <3>1. sync' = sync
      BY <1>1, <1>2 DEF AfterOpen, Refused
    <3>. QED  BY <1>1, <1>2, <3>1
  <2>2. Users' = Users /\ Between' = Between /\ Line' = Line /\ TestType'
    BY <1>1, <2>1 DEF Users, Between, Line, TestType, TestLabel
  <2>3. Counted' /\ OneToken'
    BY <1>1, <2>1, <2>2 DEF Counted, OneToken, Holders, Line, TestType
  <2>. QED  BY <2>2, <2>3
<1>3. CASE ~ Refused(sync, SEM_ID)
  <2>1. NextRound(p) \in {"sWait", "sClose"} /\ pc' = [pc EXCEPT ![p] = NextRound(p)]
    BY <1>1, <1>3 DEF NextRound
  <2>2. Users' = Users \cup {p} /\ Between' = Between /\ pc' \in [Worker -> TestLabel]
    BY <1>1, <2>1 DEF Users, Between, TestType, TestLabel
  <2>3. Cardinality(Users') = Cardinality(Users) + 1
    BY <1>1, <2>2, UsersFinite, FS_AddElement
  <2>4. /\ sync' \in Semaphores /\ sync'[SEM_ID] \in Semaphore
        /\ \A s \in SyncId \ {SEM_ID} : sync'[s] = sync[s]
        /\ sync[SEM_ID] = NoSync => sync'[SEM_ID] = [value |-> 1, listeners |-> 1, blockedPIDs |-> <<>>]
        /\ sync[SEM_ID] # NoSync => /\ sync'[SEM_ID].listeners = sync[SEM_ID].listeners + 1
                                    /\ sync'[SEM_ID].value = sync[SEM_ID].value
                                    /\ sync'[SEM_ID].blockedPIDs = sync[SEM_ID].blockedPIDs
    <3>1. 1 \in Nat /\ sync \in Semaphores /\ SEM_ID \in SyncId
      BY DEF TestType
    <3>. QED  BY <1>1, <1>3, <3>1, AfterOpenDoes
  <2>5. sync'[SEM_ID] # NoSync
    BY <2>4, SyncAssumption
  <2>6. TestType'
    BY <1>1, <2>2, <2>4 DEF TestType
  <2>7. CASE sync[SEM_ID] = NoSync
    <3>1. Users = {} /\ Between = {}
      BY <1>1, <2>7 DEF Counted, Users, Between
    <3>2. Cardinality(Users) = 0
      BY <3>1, FS_EmptySet
    <3>3. Counted'
      BY <2>2, <2>3, <2>4, <2>5, <2>7, <3>2 DEF Counted
    <3>4. /\ sync'[SEM_ID].value = 1 /\ sync'[SEM_ID].blockedPIDs = <<>> /\ Line' = {} /\ Holders' = {}
          /\ Distinct(sync'[SEM_ID].blockedPIDs)
      BY <2>2, <2>4, <2>5, <2>7, <3>1 DEF Line, Holders, Distinct, Range
    <3>. QED  BY <2>6, <3>3, <3>4 DEF OneToken
  <2>8. CASE sync[SEM_ID] # NoSync
    <3>1. Counted'
      BY <1>1, <2>2, <2>3, <2>4, <2>5, <2>8 DEF Counted
    <3>2. Line' = Line /\ Holders' = Holders
      BY <2>2, <2>4, <2>5, <2>8 DEF Line, Holders
    <3>3. \A q \in Worker : pc[q] = "slowInc" => pc'[q] = "slowInc"
      BY <1>1, <2>1 DEF TestType
    <3>. QED  BY <1>1, <2>4, <2>6, <2>8, <3>1, <3>2, <3>3 DEF OneToken
  <2>. QED  BY <2>7, <2>8
<1>. QED  BY <1>2, <1>3

\* A wait takes the token or joins the line.
LEMMA WaitsSemKeeps ==
  ASSUME TestInv, flag, NEW p \in Worker, WaitsSem(p)
  PROVE  TestInv'
<1>. USE SyncTestAssumption DEF TestInv
<1>1. /\ pc[p] = "sWait" /\ pc' = [pc EXCEPT ![p] = "slowInc"] /\ flag' = flag
      /\ sync' = AfterWait(sync, SEM_ID, p) /\ p \in Process /\ p \notin Between
  BY DEF WaitsSem, Goes, Worker, Between
<1>2. p \in Users /\ sync[SEM_ID] # NoSync
  BY <1>1 DEF Users, Counted
<1>3. /\ sync' \in Semaphores /\ sync'[SEM_ID] \in Semaphore
      /\ \A s \in SyncId \ {SEM_ID} : sync'[s] = sync[s]
      /\ sync'[SEM_ID].listeners = sync[SEM_ID].listeners
      /\ sync[SEM_ID].value = 0 => /\ sync'[SEM_ID].value = 0
                                   /\ sync'[SEM_ID].blockedPIDs = Append(sync[SEM_ID].blockedPIDs, p)
      /\ sync[SEM_ID].value # 0 => /\ sync'[SEM_ID].value = sync[SEM_ID].value - 1
                                   /\ sync'[SEM_ID].blockedPIDs = sync[SEM_ID].blockedPIDs
  BY <1>1, <1>2, AfterWaitDoes DEF TestType
<1>4. sync'[SEM_ID] # NoSync /\ sync[SEM_ID].blockedPIDs \in Seq(Process)
  BY <1>2, <1>3, SyncAssumption DEF Semaphore, Semaphores, TestType
<1>5. Users' = Users /\ Between' = Between \cup {p} /\ TestType'
  BY <1>1, <1>2, <1>3 DEF Users, Between, TestType, TestLabel
<1>6. Counted'
  BY <1>1, <1>2, <1>3, <1>4, <1>5, SameUsers
<1>7. \A q \in Worker : pc[q] = "slowInc" => pc'[q] = "slowInc"
  BY <1>1 DEF TestType
<1>8. /\ Distinct(sync[SEM_ID].blockedPIDs) /\ p \notin Range(sync[SEM_ID].blockedPIDs)
      /\ Range(sync[SEM_ID].blockedPIDs) = Line /\ Line \subseteq {q \in Worker : pc[q] = "slowInc"}
  BY <1>1, <1>2 DEF OneToken, Line
<1>9. CASE sync[SEM_ID].value = 0
  <2>1. /\ Range(Append(sync[SEM_ID].blockedPIDs, p)) = Range(sync[SEM_ID].blockedPIDs) \cup {p}
        /\ Distinct(Append(sync[SEM_ID].blockedPIDs, p)) /\ p \in Process
    <3>1. p \in Process /\ sync[SEM_ID].blockedPIDs \in Seq(Process)
      BY <1>1, <1>4
    <3>. QED  BY <3>1, <1>8, RangeAppend, DistinctAppend
  <2>2. Line' = Line \cup {p} /\ Distinct(sync'[SEM_ID].blockedPIDs)
    BY <1>3, <1>4, <1>8, <1>9, <2>1 DEF Line
  <2>3. Holders' = Holders
    BY <2>2, <1>1, <1>5 DEF Holders
  <2>4. pc'[p] = "slowInc"
    BY <1>1 DEF TestType
  <2>5. \E q \in Worker : Holders = {q}
    BY <1>1, <1>2, <1>9 DEF OneToken
  <2>6. OneToken'
    BY <1>3, <1>7, <1>8, <1>9, <2>2, <2>3, <2>4, <2>5 DEF OneToken
  <2>. QED  BY <1>1, <1>5, <1>6, <2>6
<1>10. CASE sync[SEM_ID].value # 0
  <2>1. sync[SEM_ID].value = 1 /\ sync[SEM_ID].blockedPIDs = <<>> /\ Holders = {}
    BY <1>1, <1>2, <1>10 DEF OneToken
  <2>2. Line = {} /\ Line' = {} /\ Between = {}
    BY <1>2, <1>3, <1>4, <1>10, <2>1 DEF Line, Holders, Range
  <2>3. Holders' = {p} /\ sync'[SEM_ID].value = 0
    BY <1>3, <1>5, <2>1, <2>2 DEF Holders
  <2>4. OneToken'
    BY <1>3, <1>8, <2>1, <2>2, <2>3 DEF OneToken
  <2>. QED  BY <1>1, <1>5, <1>6, <2>4
<1>. QED  BY <1>9, <1>10

\* Inside, the semaphore is left alone.
LEMMA InsideKeeps ==
  ASSUME TestInv, flag, NEW p \in Worker, ReadsGlobal(p) \/ WritesGlobal(p)
  PROVE  TestInv'
<1>. USE SyncTestAssumption DEF TestInv
<1>1. /\ sync' = sync /\ flag' = flag /\ p \notin Line
      /\ \/ pc[p] = "slowInc" /\ pc' = [pc EXCEPT ![p] = "yield"]
         \/ pc[p] = "yield" /\ pc' = [pc EXCEPT ![p] = "sPost"]
  BY AsleepInLine DEF ReadsGlobal, WritesGlobal, Goes, Counted, OneToken, Line
<1>2. Users' = Users /\ Between' = Between /\ Line' = Line /\ TestType'
  BY <1>1 DEF Users, Between, Line, TestType, TestLabel
<1>3. Line \subseteq {q \in Worker : pc[q] = "slowInc"}
  BY DEF OneToken, Line
<1>4. \A q \in Line : pc'[q] = pc[q]
  BY <1>1, <1>3 DEF TestType
<1>. QED  BY <1>1, <1>2, <1>4 DEF Counted, OneToken, Holders

\* A post hands the token to the first in line or puts it back.
LEMMA PostsSemKeeps ==
  ASSUME TestInv, flag, NEW p \in Worker, PostsSem(p)
  PROVE  TestInv'
<1>. USE SyncTestAssumption DEF TestInv
<1>. DEFINE w == sync[SEM_ID].blockedPIDs
<1>1. /\ pc[p] = "sPost" /\ flag' = flag /\ sync' = AfterPost(sync, SEM_ID)
      /\ pc' = [pc EXCEPT ![p] = IF rounds[p] + 1 < N THEN "sWait" ELSE "sClose"]
  BY DEF PostsSem
<1>2. p \in Users /\ sync[SEM_ID] # NoSync /\ p \in Between
  BY <1>1 DEF Users, Counted, Between
<1>3. /\ sync' \in Semaphores /\ sync'[SEM_ID] \in Semaphore
      /\ \A s \in SyncId \ {SEM_ID} : sync'[s] = sync[s]
      /\ sync'[SEM_ID].listeners = sync[SEM_ID].listeners
      /\ w = <<>> => sync'[SEM_ID].value = sync[SEM_ID].value + 1 /\ sync'[SEM_ID].blockedPIDs = <<>>
      /\ w # <<>> => sync'[SEM_ID].value = sync[SEM_ID].value /\ sync'[SEM_ID].blockedPIDs = Tail(w)
  BY <1>1, <1>2, AfterPostDoes DEF TestType
<1>4. sync'[SEM_ID] # NoSync /\ w \in Seq(Process)
  BY <1>2, <1>3, SyncAssumption DEF Semaphore, Semaphores, TestType
<1>5. Users' = Users /\ Between' = Between \ {p} /\ TestType'
  BY <1>1, <1>2, <1>3 DEF Users, Between, TestType, TestLabel
<1>6. Counted'
  BY <1>1, <1>2, <1>3, <1>4, <1>5, SameUsers
<1>7. /\ Distinct(w) /\ Range(w) = Line /\ Line \subseteq {q \in Worker : pc[q] = "slowInc"}
      /\ p \notin Line
  BY <1>1, <1>2 DEF OneToken, Line
<1>8. Holders = {p} /\ sync[SEM_ID].value = 0
  BY <1>1, <1>2, <1>7 DEF OneToken, Holders
<1>9. \A q \in Line : pc'[q] = pc[q] /\ q \in Between
  BY <1>1, <1>7 DEF TestType, Between
<1>10. CASE w = <<>>
  <2>1. Line = {} /\ Line' = {} /\ Distinct(sync'[SEM_ID].blockedPIDs)
    BY <1>2, <1>3, <1>4, <1>10 DEF Line, Range, Distinct
  <2>2. Holders' = {} /\ sync'[SEM_ID].value = 1
    BY <1>3, <1>5, <1>8, <1>10, <2>1 DEF Holders
  <2>3. OneToken'
    BY <1>3, <1>10, <2>1, <2>2 DEF OneToken
  <2>. QED  BY <1>1, <1>5, <1>6, <2>3
<1>11. CASE w # <<>>
  <2>1. /\ Head(w) \in Line /\ Range(Tail(w)) = Line \ {Head(w)} /\ Distinct(Tail(w))
    BY <1>4, <1>7, <1>11, RangeTail
  <2>2. Line' = Line \ {Head(w)} /\ Distinct(sync'[SEM_ID].blockedPIDs)
    BY <1>3, <1>4, <1>11, <2>1 DEF Line
  <2>3. Holders' = {Head(w)} /\ sync'[SEM_ID].value = 0
    BY <1>3, <1>5, <1>7, <1>8, <1>9, <1>11, <2>1, <2>2 DEF Holders
  <2>4. Head(w) \in Worker
    BY <1>7, <2>1
  <2>5. Line' \subseteq {q \in Worker : pc'[q] = "slowInc"}
    BY <1>7, <1>9, <2>2
  <2>6. OneToken'
    BY <1>3, <2>2, <2>3, <2>4, <2>5 DEF OneToken
  <2>. QED  BY <1>1, <1>5, <1>6, <2>6
<1>. QED  BY <1>10, <1>11

\* A close frees the semaphore only when nobody else has it open.
LEMMA ClosesSemKeeps ==
  ASSUME TestInv, flag, NEW p \in Worker, ClosesSem(p)
  PROVE  TestInv'
<1>. USE SyncTestAssumption DEF TestInv
<1>1. /\ pc[p] = "sClose" /\ pc' = [pc EXCEPT ![p] = "done"] /\ flag' = flag
      /\ sync' = AfterClose(sync, SEM_ID)
  BY DEF ClosesSem, Goes
<1>2. p \in Users /\ sync[SEM_ID] # NoSync /\ sync[SEM_ID].listeners = Cardinality(Users)
  BY <1>1 DEF Users, Counted
<1>3. /\ sync' \in Semaphores
      /\ \A s \in SyncId \ {SEM_ID} : sync'[s] = sync[s]
      /\ sync[SEM_ID].listeners = 1 => sync'[SEM_ID] = NoSync
      /\ sync[SEM_ID].listeners # 1 => /\ sync'[SEM_ID] \in Semaphore
                                       /\ sync'[SEM_ID].listeners = sync[SEM_ID].listeners - 1
                                       /\ sync'[SEM_ID].value = sync[SEM_ID].value
                                       /\ sync'[SEM_ID].blockedPIDs = sync[SEM_ID].blockedPIDs
  BY <1>1, <1>2, AfterCloseDoes DEF TestType
<1>4. Users' = Users \ {p} /\ Between' = Between /\ TestType'
  BY <1>1, <1>3 DEF Users, Between, TestType, TestLabel
<1>5. Cardinality(Users') = Cardinality(Users) - 1 /\ Cardinality(Users) \in Nat
      /\ IsFiniteSet(Users')
  BY <1>2, <1>4, UsersFinite, FS_RemoveElement
<1>6. Cardinality(Users') = 0 <=> Users' = {}
  BY <1>5, FS_EmptySet
<1>7. CASE sync[SEM_ID].listeners = 1
  BY <1>1, <1>2, <1>3, <1>4, <1>5, <1>6, <1>7 DEF Counted, OneToken
<1>8. CASE sync[SEM_ID].listeners # 1
  <2>1. sync'[SEM_ID] # NoSync
    BY <1>3, <1>8, SyncAssumption
  <2>2. Line' = Line /\ Holders' = Holders
    BY <1>2, <1>3, <1>4, <1>8, <2>1 DEF Line, Holders
  <2>3. \A q \in Line : pc'[q] = pc[q]
    BY <1>1, <1>2 DEF OneToken, TestType
  <2>4. Counted'
    BY <1>2, <1>3, <1>5, <1>6, <1>8, <2>1 DEF Counted
  <2>5. OneToken'
    BY <1>1, <1>2, <1>3, <1>8, <2>2, <2>3 DEF OneToken
  <2>. QED  BY <1>1, <1>4, <2>4, <2>5
<1>. QED  BY <1>7, <1>8

\* Without the semaphore only the places of the processes change.
LEMMA NoFlagKeeps ==
  ASSUME TestInv, ~ flag, NEW p \in Worker, Incs(p)
  PROVE  TestInv'
<1>1. sync' = sync /\ flag' = flag
  BY DEF Incs, OpensSem, WaitsSem, ReadsGlobal, WritesGlobal, PostsSem, ClosesSem
<1>2. \E to \in TestLabel : pc' = [pc EXCEPT ![p] = to]
  BY DEF Incs, OpensSem, WaitsSem, ReadsGlobal, WritesGlobal, PostsSem, ClosesSem, Goes,
     NextRound, TestLabel
<1>. QED  BY <1>1, <1>2 DEF TestInv, TestType

-----------------------------------------------------------------------------
\* At the start nobody has opened anything.
LEMMA InitTestInv == SyncTestInit => TestInv
<1>. SUFFICES ASSUME SyncTestInit PROVE TestInv
  OBVIOUS
<1>1. /\ sync = [s \in SyncId |-> NoSync] /\ flag \in Flags
      /\ pc = [p \in Worker |-> "sOpen"]
  BY DEF SyncTestInit, SyncInit, TestVarsInit
<1>2. TestType
  BY <1>1, SyncTestAssumption DEF TestType, Semaphores, TestLabel
<1>3. Counted /\ OneToken
  BY <1>1, SyncTestAssumption DEF Counted, OneToken, Users
<1>. QED  BY <1>2, <1>3 DEF TestInv

\* Every step keeps the invariant.
LEMMA StepTestInv == TestInv /\ [SyncTestNext]_allTestVars => TestInv'
<1>. SUFFICES ASSUME TestInv, [SyncTestNext]_allTestVars PROVE TestInv'
  OBVIOUS
<1>1. CASE UNCHANGED allTestVars
  BY <1>1 DEF allTestVars, testVars, TestInv, TestType, Counted, OneToken, Users, Line, Holders,
     Between
<1>2. ASSUME NEW p \in Worker, Incs(p) PROVE TestInv'
  <2>1. CASE flag
    BY <1>2, <2>1, OpensSemKeeps, WaitsSemKeeps, InsideKeeps, PostsSemKeeps, ClosesSemKeeps DEF Incs
  <2>2. CASE ~ flag
    BY <1>2, <2>2, NoFlagKeeps
  <2>. QED  BY <2>1, <2>2
<1>. QED  BY <1>1, <1>2 DEF SyncTestNext

\* Between its wait and its post a process of synctest is alone, and when all have
\* closed the semaphore it is gone, however many they are and however often the
\* semaphore was freed and opened again in between.
THEOREM SemaphoreExcludes ==
  SyncTestSpec => [](flag => OneInside /\ (AllDone => sync[SEM_ID] = NoSync))
<1>1. TestInv => (flag => OneInside /\ (AllDone => sync[SEM_ID] = NoSync))
  BY TestInvExcludes, TestInvGone
<1>. QED  BY <1>1, InitTestInv, StepTestInv, PTL DEF SyncTestSpec

-----------------------------------------------------------------------------
(***************************************************************************)
(* The variable.  It is the number of updates made by the incrementers     *)
(* less those made by the decrementers, as sets: an update is a process    *)
(* and one of its rounds.  What makes it so is that whoever has read and   *)
(* not yet written has read the value that is still there.                 *)
(***************************************************************************)
Completed(p) == rounds[p] + (IF pc[p] = "sPost" THEN 1 ELSE 0)
Updates(S) == {u \in S \X (0 .. N - 1) : u[2] < Completed(u[1])}

Numbers ==
  /\ rounds \in [Worker -> 0 .. N]
  /\ aux \in [Worker -> Int]
  /\ global \in Int
  /\ \A p \in Worker :
       /\ pc[p] = "sOpen" => rounds[p] = 0
       /\ pc[p] \in {"sWait", "slowInc", "yield", "sPost"} => rounds[p] < N
       /\ pc[p] \in {"sClose", "done"} => rounds[p] = N
       /\ pc[p] = "yield" => aux[p] = global + value(p)

Balance == global = Cardinality(Updates(Incrementer)) - Cardinality(Updates(Decrementer))

CountInv == TestInv /\ (flag => Numbers /\ Balance)

\* An update more of a process that has rounds left, and those of the others as they were.
LEMMA OneMoreUpdate ==
  ASSUME Numbers, NEW S \in SUBSET Worker, NEW p \in Worker, IsFiniteSet(S), rounds[p] < N,
         Completed(p) = rounds[p], Completed(p)' = rounds[p] + 1,
         \A q \in Worker \ {p} : Completed(q)' = Completed(q)
  PROVE  /\ Cardinality(Updates(S)) \in Nat
         /\ Cardinality(Updates(S)') = Cardinality(Updates(S)) + (IF p \in S THEN 1 ELSE 0)
<1>. USE SyncTestAssumption
<1>1. IsFiniteSet(S \X (0 .. N - 1))
  <2>1. IsFiniteSet(0 .. N - 1)
    BY FS_Interval
  <2>. QED  BY <2>1, FS_Product
<1>2. IsFiniteSet(Updates(S)) /\ Cardinality(Updates(S)) \in Nat
  <2>1. Updates(S) \subseteq S \X (0 .. N - 1)
    BY DEF Updates
  <2>. QED  BY <1>1, <2>1, FS_Subset, FS_CardinalityType
<1>3. rounds[p] \in 0 .. N - 1
  BY DEF Numbers
<1>4. Updates(S)' = {u \in S \X (0 .. N - 1) : u[2] < Completed(u[1])'}
  BY DEF Updates
<1>5. CASE p \in S
  <2>. DEFINE v == <<p, rounds[p]>>
  <2>1. v \in S \X (0 .. N - 1) /\ v \notin Updates(S)
    BY <1>3, <1>5 DEF Updates
  <2>2. ASSUME NEW u \in S \X (0 .. N - 1) PROVE u \in Updates(S)' <=> u \in Updates(S) \cup {v}
    <3>1. CASE u[1] = p
      <4>1. u = v <=> u[2] = rounds[p]
        BY <3>1
      <4>2. u \in Updates(S)' <=> u[2] < rounds[p] + 1
        BY <1>4, <3>1
      <4>3. u \in Updates(S) <=> u[2] < rounds[p]
        BY <3>1 DEF Updates
      <4>. QED  BY <1>3, <4>1, <4>2, <4>3
    <3>2. CASE u[1] # p
      <4>1. u # v /\ u[1] \in Worker \ {p}
        BY <3>2
      <4>. QED  BY <1>4, <4>1 DEF Updates
    <3>. QED  BY <3>1, <3>2
  <2>3. Updates(S)' = Updates(S) \cup {v}
    <3>1. Updates(S)' \subseteq S \X (0 .. N - 1) /\ Updates(S) \cup {v} \subseteq S \X (0 .. N - 1)
      BY <1>4, <2>1 DEF Updates
    <3>. HIDE DEF v
    <3>. QED  BY <2>2, <3>1
  <2>4. Cardinality(Updates(S) \cup {v}) = Cardinality(Updates(S)) + 1
    BY <1>2, <2>1, FS_AddElement
  <2>. QED  BY <1>2, <1>5, <2>3, <2>4
<1>6. CASE p \notin S
  <2>1. \A u \in S \X (0 .. N - 1) : u[1] \in Worker \ {p}
    BY <1>6
  <2>2. Updates(S)' = Updates(S)
    BY <1>4, <2>1 DEF Updates
  <2>. QED  BY <1>2, <1>6, <2>2
<1>. QED  BY <1>5, <1>6

\* Without an update the sets are as they were.
LEMMA NoUpdate ==
  ASSUME NEW S \in SUBSET Worker, \A q \in Worker : Completed(q)' = Completed(q)
  PROVE  Updates(S)' = Updates(S)
<1>1. Updates(S)' = {u \in S \X (0 .. N - 1) : u[2] < Completed(u[1])'}
  BY DEF Updates
<1>2. \A u \in S \X (0 .. N - 1) : u[1] \in Worker
  OBVIOUS
<1>. QED  BY <1>1, <1>2 DEF Updates

\* A step that neither writes the variable nor reads it keeps the balance.
LEMMA SameNumbers ==
  ASSUME Numbers, Balance, NEW p \in Worker, NEW to, TestInv, TestInv',
         UNCHANGED <<global, aux>>, pc' = [pc EXCEPT ![p] = to], to \notin {"sOpen", "yield"},
         rounds' \in [Worker -> 0 .. N], \A q \in Worker \ {p} : rounds'[q] = rounds[q],
         Completed(p)' = Completed(p),
         to \in {"sWait", "slowInc", "yield", "sPost"} => rounds'[p] < N,
         to \in {"sClose", "done"} => rounds'[p] = N
  PROVE  Numbers' /\ Balance'
<1>1. pc \in [Worker -> TestLabel] /\ pc'[p] = to /\ \A q \in Worker \ {p} : pc'[q] = pc[q]
  BY DEF TestInv, TestType
<1>2. Numbers'
  BY <1>1 DEF Numbers, value
<1>3. \A q \in Worker : Completed(q)' = Completed(q)
  BY <1>1 DEF Completed
<1>4. Updates(Incrementer)' = Updates(Incrementer) /\ Updates(Decrementer)' = Updates(Decrementer)
  BY <1>3, NoUpdate DEF Worker
<1>. QED  BY <1>2, <1>4 DEF Balance

\* Every step keeps the balance, when no process is refused.
LEMMA StepCount ==
  ASSUME CountInv, flag, NEW p \in Worker, Incs(p), TestInv', Cardinality(Worker) <= MAX_LISTENERS
  PROVE  Numbers' /\ Balance'
<1>. USE SyncTestAssumption
<1>0. /\ Numbers /\ Balance /\ TestInv /\ pc \in [Worker -> TestLabel] /\ rounds \in [Worker -> 0 .. N] /\ N \in Nat
      /\ rounds[p] \in 0 .. N
  BY DEF CountInv, TestInv, TestType, Numbers
<1>1. CASE OpensSem(p)
  <2>1. pc[p] = "sOpen" /\ rounds' = rounds
    BY <1>1 DEF OpensSem
  <2>2. ~ Refused(sync, SEM_ID)
    <3>. SUFFICES ASSUME Refused(sync, SEM_ID) PROVE FALSE
      OBVIOUS
    <3>1. sync[SEM_ID] # NoSync /\ sync[SEM_ID].listeners = Cardinality(Users)
          /\ Cardinality(Users) >= MAX_LISTENERS
      BY <1>0 DEF Refused, TestInv, Counted
    <3>2. p \notin Users /\ Users \cup {p} \subseteq Worker
      BY <2>1 DEF Users
    <3>3. Cardinality(Users \cup {p}) = Cardinality(Users) + 1
      BY <3>2, UsersFinite, FS_AddElement
    <3>4. IsFiniteSet(Worker) /\ Cardinality(Worker) \in Nat
      BY FS_CardinalityType DEF Worker
    <3>5. Cardinality(Users \cup {p}) <= Cardinality(Worker)
      BY <3>2, <3>4, FS_Subset
    <3>. QED  BY <3>1, <3>3, <3>4, <3>5, UsersFinite, SyncAssumption
  <2>3. rounds[p] = 0
    BY <1>0, <2>1 DEF Numbers
  <2>4. pc' = [pc EXCEPT ![p] = NextRound(p)] /\ UNCHANGED <<global, aux>>
    BY <1>1, <2>2 DEF OpensSem
  <2>. QED
    <3>. DEFINE to == NextRound(p)
    <3>1. to \in {"sWait", "sClose"} /\ (to = "sWait" => rounds[p] < N) /\ (to = "sClose" => rounds[p] = N)
      BY <1>0 DEF NextRound
    <3>2. Completed(p)' = Completed(p)
      BY <1>0, <2>1, <2>4, <3>1 DEF Completed
    <3>. HIDE DEF to
    <3>3. pc' = [pc EXCEPT ![p] = to]
      BY <2>4 DEF to
    <3>4. CASE to = "sWait"
      <4>1. pc' = [pc EXCEPT ![p] = "sWait"] /\ rounds[p] < N
        BY <3>1, <3>3, <3>4
      <4>. QED  BY <1>0, <2>1, <2>4, <3>2, <4>1, SameNumbers
    <3>5. CASE to = "sClose"
      <4>1. pc' = [pc EXCEPT ![p] = "sClose"] /\ rounds[p] = N
        BY <3>1, <3>3, <3>5
      <4>. QED  BY <1>0, <2>1, <2>4, <3>2, <4>1, SameNumbers
    <3>. QED  BY <3>1, <3>4, <3>5
<1>2. CASE WaitsSem(p)
  <2>1. pc[p] = "sWait" /\ rounds' = rounds /\ pc' = [pc EXCEPT ![p] = "slowInc"] /\ UNCHANGED <<global, aux>>
    BY <1>2 DEF WaitsSem, Goes
  <2>2. /\ rounds' \in [Worker -> 0 .. N] /\ (\A q \in Worker \ {p} : rounds'[q] = rounds[q])
        /\ rounds'[p] < N
    BY <1>0, <2>1 DEF Numbers
  <2>3. Completed(p)' = Completed(p)
    BY <1>0, <2>1 DEF Completed
  <2>4. pc' = [pc EXCEPT ![p] = "slowInc"] /\ UNCHANGED <<global, aux>>
    BY <2>1
  <2>5. "slowInc" \notin {"sOpen", "yield"} /\ "slowInc" \notin {"sClose", "done"}
    OBVIOUS
  <2>. QED  BY <1>0, <2>2, <2>3, <2>4, <2>5, SameNumbers, Zenon
<1>3. CASE ReadsGlobal(p)
  <2>1. /\ pc[p] = "slowInc" /\ rounds' = rounds /\ pc' = [pc EXCEPT ![p] = "yield"]
        /\ global' = global /\ aux' = [aux EXCEPT ![p] = global + value(p)]
    BY <1>3 DEF ReadsGlobal, Goes
  <2>2. pc'[p] = "yield" /\ \A q \in Worker \ {p} : pc'[q] = pc[q]
    BY <1>0, <2>1
  <2>3. /\ global \in Int /\ global + value(p) \in Int /\ aux \in [Worker -> Int]
        /\ aux'[p] = global + value(p) /\ \A q \in Worker \ {p} : aux'[q] = aux[q]
    BY <1>0, <2>1 DEF Numbers, value
  <2>4. Numbers'
    BY <1>0, <2>1, <2>2, <2>3 DEF Numbers, value
  <2>5. \A q \in Worker : Completed(q)' = Completed(q)
    BY <2>1, <2>2 DEF Completed
  <2>6. Updates(Incrementer)' = Updates(Incrementer) /\ Updates(Decrementer)' = Updates(Decrementer)
    BY <2>5, NoUpdate DEF Worker
  <2>. QED  BY <1>0, <2>1, <2>4, <2>6 DEF Balance
<1>4. CASE WritesGlobal(p)
  <2>1. /\ pc[p] = "yield" /\ rounds' = rounds /\ pc' = [pc EXCEPT ![p] = "sPost"]
        /\ global' = aux[p] /\ aux' = aux
    BY <1>4 DEF WritesGlobal, Goes
  <2>2. pc'[p] = "sPost" /\ \A q \in Worker \ {p} : pc'[q] = pc[q]
    BY <1>0, <2>1
  <2>3. aux[p] = global + value(p) /\ rounds[p] < N /\ global \in Int /\ global' \in Int
    BY <1>0, <2>1 DEF Numbers
  <2>4. \A q \in Worker : pc[q] = "yield" => q = p
    <3>1. \A q \in Worker : pc[q] = "yield" => Inside(q)
      BY <1>0, AsleepInLine DEF Inside, TestInv, OneToken, Line
    <3>. QED  BY <1>0, <2>1, <3>1, TestInvExcludes DEF OneInside
  <2>5. Numbers'
    BY <1>0, <2>1, <2>2, <2>3, <2>4 DEF Numbers, value
  <2>6. /\ Completed(p) = rounds[p] /\ Completed(p)' = rounds[p] + 1
        /\ \A q \in Worker \ {p} : Completed(q)' = Completed(q)
    BY <1>0, <2>1, <2>2 DEF Completed
  <2>7. IsFiniteSet(Incrementer) /\ IsFiniteSet(Decrementer)
    BY FS_Subset
  <2>8. /\ Cardinality(Updates(Incrementer)) \in Nat
        /\ Cardinality(Updates(Incrementer)') = Cardinality(Updates(Incrementer))
                                                  + (IF p \in Incrementer THEN 1 ELSE 0)
    BY <1>0, <2>3, <2>6, <2>7, OneMoreUpdate DEF Worker
  <2>9. /\ Cardinality(Updates(Decrementer)) \in Nat
        /\ Cardinality(Updates(Decrementer)') = Cardinality(Updates(Decrementer))
                                                  + (IF p \in Decrementer THEN 1 ELSE 0)
    BY <1>0, <2>3, <2>6, <2>7, OneMoreUpdate DEF Worker
  <2>10. global' = global + value(p)
    BY <2>1, <2>3
  <2>11. Balance'
    <3>1. CASE p \in Incrementer
      BY <1>0, <2>8, <2>9, <2>10, <3>1 DEF Balance, value
    <3>2. CASE p \notin Incrementer
      BY <1>0, <2>8, <2>9, <2>10, <3>2 DEF Balance, value, Worker
    <3>. QED  BY <3>1, <3>2
  <2>. QED  BY <2>5, <2>11
<1>5. CASE PostsSem(p)
  <2>. DEFINE to == IF rounds[p] + 1 < N THEN "sWait" ELSE "sClose"
  <2>1. /\ pc[p] = "sPost" /\ rounds' = [rounds EXCEPT ![p] = @ + 1] /\ pc' = [pc EXCEPT ![p] = to]
        /\ UNCHANGED <<global, aux>>
    BY <1>5 DEF PostsSem
  <2>2. rounds[p] < N
    BY <1>0, <2>1 DEF Numbers
  <2>3. /\ rounds' \in [Worker -> 0 .. N] /\ rounds'[p] = rounds[p] + 1
        /\ \A q \in Worker \ {p} : rounds'[q] = rounds[q]
    BY <1>0, <2>1, <2>2
  <2>4. /\ to \in {"sWait", "sClose"} /\ (to = "sWait" => rounds'[p] < N)
        /\ (to = "sClose" => rounds'[p] = N)
    BY <1>0, <2>2, <2>3
  <2>5. Completed(p)' = Completed(p)
    BY <1>0, <2>1, <2>3, <2>4 DEF Completed
  <2>. HIDE DEF to
  <2>6. CASE to = "sWait"
    <3>1. pc' = [pc EXCEPT ![p] = "sWait"] /\ rounds'[p] < N
      BY <2>1, <2>4, <2>6
    <3>. QED  BY <1>0, <2>1, <2>3, <2>5, <3>1, SameNumbers
  <2>7. CASE to = "sClose"
    <3>1. pc' = [pc EXCEPT ![p] = "sClose"] /\ rounds'[p] = N
      BY <2>1, <2>4, <2>7
    <3>. QED  BY <1>0, <2>1, <2>3, <2>5, <3>1, SameNumbers
  <2>. QED  BY <2>4, <2>6, <2>7
<1>6. CASE ClosesSem(p)
  <2>1. pc[p] = "sClose" /\ rounds' = rounds /\ pc' = [pc EXCEPT ![p] = "done"] /\ UNCHANGED <<global, aux>>
    BY <1>6 DEF ClosesSem, Goes
  <2>2. /\ rounds' \in [Worker -> 0 .. N] /\ (\A q \in Worker \ {p} : rounds'[q] = rounds[q])
        /\ rounds'[p] = N
    BY <1>0, <2>1 DEF Numbers
  <2>3. Completed(p)' = Completed(p)
    BY <1>0, <2>1 DEF Completed
  <2>4. pc' = [pc EXCEPT ![p] = "done"] /\ UNCHANGED <<global, aux>>
    BY <2>1
  <2>5. "done" \notin {"sOpen", "yield"} /\ "done" \notin {"sWait", "slowInc", "yield", "sPost"}
    OBVIOUS
  <2>. QED  BY <1>0, <2>2, <2>3, <2>4, <2>5, SameNumbers, Zenon
<1>. QED  BY <1>1, <1>2, <1>3, <1>4, <1>5, <1>6 DEF Incs

\* At the start nobody has read anything.
LEMMA InitCount == SyncTestInit => Numbers /\ Balance
<1>. SUFFICES ASSUME SyncTestInit PROVE Numbers /\ Balance
  OBVIOUS
<1>. USE SyncTestAssumption
<1>1. /\ global = 0 /\ aux = [p \in Worker |-> 0] /\ rounds = [p \in Worker |-> 0]
      /\ pc = [p \in Worker |-> "sOpen"]
  BY DEF SyncTestInit, TestVarsInit
<1>2. Numbers
  BY <1>1 DEF Numbers
<1>3. \A p \in Worker : Completed(p) = 0
  BY <1>1 DEF Completed
<1>4. Updates(Incrementer) = {} /\ Updates(Decrementer) = {}
  BY <1>3 DEF Updates, Worker
<1>5. Cardinality({}) = 0
  BY FS_EmptySet
<1>. QED  BY <1>1, <1>2, <1>4, <1>5 DEF Balance

\* When all are done every process has made its N updates.
LEMMA AllUpdates ==
  ASSUME Numbers, AllDone, NEW S \in SUBSET Worker, IsFiniteSet(S)
  PROVE  Cardinality(Updates(S)) = Cardinality(S) * N
<1>1. \A p \in Worker : Completed(p) = N
  BY SyncTestAssumption DEF Numbers, AllDone, Completed
<1>2. Updates(S) = S \X (0 .. N - 1)
  BY <1>1, SyncTestAssumption DEF Updates
<1>3. IsFiniteSet(0 .. N - 1) /\ Cardinality(0 .. N - 1) = N
  BY SyncTestAssumption, FS_Interval
<1>4. Cardinality(S \X (0 .. N - 1)) = Cardinality(S) * Cardinality(0 .. N - 1)
  BY <1>3, FS_Product
<1>. QED  BY <1>2, <1>3, <1>4

\* With the semaphore no update is lost: if there are as many incrementers as
\* decrementers, and no more processes than listeners a semaphore may have, the
\* variable is back at 0 when all are done, for every number of processes and rounds.
THEOREM NoUpdatesLost ==
  ASSUME Cardinality(Incrementer) = Cardinality(Decrementer),
         Cardinality(Incrementer \cup Decrementer) <= MAX_LISTENERS
  PROVE  SyncTestSpec => []NoUpdateIsLost
<1>1. SyncTestInit => CountInv
  BY InitTestInv, InitCount DEF CountInv
<1>2. CountInv /\ [SyncTestNext]_allTestVars => CountInv'
  <2>. SUFFICES ASSUME CountInv, [SyncTestNext]_allTestVars PROVE CountInv'
    OBVIOUS
  <2>1. TestInv'
    BY StepTestInv DEF CountInv
  <2>2. CASE UNCHANGED allTestVars
    <3>1. UNCHANGED <<flag, global, aux, rounds, pc>>
      BY <2>2 DEF allTestVars, testVars
    <3>2. Numbers => Numbers'
      BY <3>1 DEF Numbers, value
    <3>3. Updates(Incrementer)' = Updates(Incrementer) /\ Updates(Decrementer)' = Updates(Decrementer)
      BY <3>1 DEF Updates, Completed
    <3>. QED  BY <2>1, <3>1, <3>2, <3>3 DEF CountInv, Balance
  <2>3. ASSUME NEW p \in Worker, Incs(p) PROVE CountInv'
    <3>1. flag' = flag
      BY <2>3 DEF Incs, OpensSem, WaitsSem, ReadsGlobal, WritesGlobal, PostsSem, ClosesSem
    <3>2. flag => Numbers' /\ Balance'
      BY <2>1, <2>3, StepCount DEF Worker
    <3>. QED  BY <2>1, <3>1, <3>2 DEF CountInv
  <2>. QED  BY <2>2, <2>3 DEF SyncTestNext
<1>3. CountInv => NoUpdateIsLost
  <2>. SUFFICES ASSUME CountInv, flag, AllDone PROVE global = 0
    BY TestInvExcludes, TestInvGone DEF NoUpdateIsLost, CountInv
  <2>1. IsFiniteSet(Incrementer) /\ IsFiniteSet(Decrementer)
    BY SyncTestAssumption, FS_Subset
  <2>2. Numbers /\ Balance
    BY DEF CountInv
  <2>3. /\ Cardinality(Updates(Incrementer)) = Cardinality(Incrementer) * N
        /\ Cardinality(Updates(Decrementer)) = Cardinality(Decrementer) * N
    BY <2>1, <2>2, AllUpdates DEF Worker
  <2>4. Cardinality(Incrementer) \in Nat /\ N \in Nat
    BY <2>1, FS_CardinalityType, SyncTestAssumption
  <2>5. Cardinality(Incrementer) * N \in Int
    BY <2>4
  <2>. QED  BY <2>2, <2>3, <2>5 DEF Balance
<1>. QED  BY <1>1, <1>2, <1>3, PTL DEF SyncTestSpec

-----------------------------------------------------------------------------
(***************************************************************************)
(* The table of the philosophers.  TableIsSafe is not inductive: a sleeper *)
(* of a place must be one that will eat when it is woken, or dead, or a    *)
(* wake-up at a place would let somebody into the table's mutex; a place   *)
(* must be one of the table, or the forks of its neighbours are not its    *)
(* own; and a pid that was not used must not be anywhere.                  *)
(***************************************************************************)
PhiloLabel == {"none", "loop", "hungry", "test", "taken", "waitForks", "eat", "thinking",
               "testLeft", "testRight", "placed", "dead"}
InTable == {"hungry", "test", "taken", "thinking", "testLeft", "testRight", "placed"}

PhyloTyped ==
  /\ sync \in Semaphores
  /\ philoPc \in [Philosopher -> [at : PhiloLabel, i : Place]]
  /\ philos \in [Place -> [pid : Nat, state : {"THINKING", "HUNGRY", "EATING"}]]
  /\ actualPhilosopherCount \in 0 .. MAX_PHILOS
  /\ newPid \in Nat /\ newPid >= FirstPid /\ \A i \in Place : philos[i].pid < newPid
  /\ leaving \in Place /\ removals \in Nat

\* Main adds where there is room, and takes away only what it added to the first ones.
RoomAtTable ==
  /\ mainPc \in {"add", "adding", "added", "print", "getchar", "sClose", "kill", "removed"}
  /\ mainPc \in {"add", "adding"} => actualPhilosopherCount < MAX_PHILOS
  /\ mainPc \in {"print", "getchar", "sClose", "kill", "removed"} =>
       actualPhilosopherCount >= BASE_PHILOS
  /\ \A p \in Philosopher : philoPc[p].at # "none" => p < newPid /\ actualPhilosopherCount >= 1

\* Who sleeps at a place eats when it is woken, unless it was killed.
SleepersEat ==
  \A i \in Place : sync[Sem(i)] # NoSync =>
    \A p \in Range(sync[Sem(i)].blockedPIDs) :
      p \in Philosopher /\ philoPc[p].at \in {"eat", "dead"}

TokenOfTable ==
  /\ sync[MUTEX_ID] # NoSync
  /\ sync[MUTEX_ID].value + Cardinality(Critical) <= 1 + removals

Undisturbed == removals = 0 /\ mainPc \notin {"sClose", "kill", "removed"}
ForksApart ==
  Undisturbed =>
    /\ \A p \in Philosopher : philoPc[p].at # "none" => philoPc[p].i \in Sitting
    /\ \A i, j \in Sitting : Neighbours(i, j) =>
         ~(philos[i].state = "EATING" /\ philos[j].state = "EATING")

Laid == PhyloTyped /\ RoomAtTable /\ SleepersEat /\ TokenOfTable /\ ForksApart

PhyloInv == IF mainPc = "start" THEN PhyloInit ELSE problemRunning => Laid

-----------------------------------------------------------------------------
\* The ids of the table.
LEMMA PhyloIds ==
  /\ BASE_PHILOS \in Nat \ {0} /\ MAX_PHILOS \in Nat /\ BASE_PHILOS <= MAX_PHILOS
  /\ FirstPid \in Nat /\ Philosopher \subseteq Nat /\ IsFiniteSet(Philosopher)
  /\ Main \notin Philosopher /\ Printer \notin Philosopher /\ Main # Printer
  /\ Philosopher \cup {Main, Printer} \subseteq Process
  /\ MUTEX_ID \in SyncId /\ 0 \in Place
  /\ \A i \in Place : Sem(i) \in SyncId \ {MUTEX_ID} /\ i \in Nat
  /\ \A i, j \in Place : Sem(i) = Sem(j) => i = j
<1>1. BASE_PHILOS + MaxKeyPresses \in Nat /\ FirstPid + BASE_PHILOS + MaxKeyPresses - 1 \in Int /\ FirstPid \in Int
  BY PhyloAssumption
<1>2. IsFiniteSet(Philosopher)
  BY <1>1, FS_Interval DEF Philosopher
<1>3. Philosopher \subseteq FirstPid - 1 .. FirstPid + BASE_PHILOS + MaxKeyPresses - 1
  BY <1>1, PhyloAssumption DEF Philosopher
<1>4. Printer \in FirstPid - 1 .. FirstPid + BASE_PHILOS + MaxKeyPresses - 1
  BY <1>1, PhyloAssumption DEF Printer
<1>5. \A i \in Place : Sem(i) \in BASE_SEM_ID .. BASE_SEM_ID + MAX_PHILOS - 1 /\ i \in Nat
  BY PhyloAssumption DEF Place, Sem
<1>. QED  BY <1>1, <1>2, <1>3, <1>4, <1>5, PhyloAssumption DEF Philosopher, Printer, Main, Place, Sem

\* Neighbours are neighbours of each other, and places of the table.
LEMMA Around ==
  ASSUME actualPhilosopherCount \in 1 .. MAX_PHILOS
  PROVE  /\ \A i \in Place : LEFT(i) \in Sitting /\ RIGHT(i) \in Sitting
         /\ \A i, j \in Sitting : j = RIGHT(i) <=> i = LEFT(j)
         /\ Sitting \subseteq Place
<1>. DEFINE n == actualPhilosopherCount
<1>0. n \in Nat \ {0} /\ n <= MAX_PHILOS /\ MAX_PHILOS \in Nat
  BY PhyloIds
<1>1. \A x \in Nat : x % n \in 0 .. n - 1
  BY <1>0
<1>2. \A i \in 0 .. n - 1 : /\ (i + 1) % n = IF i = n - 1 THEN 0 ELSE i + 1
                           /\ (i + n - 1) % n = IF i = 0 THEN n - 1 ELSE i - 1
  BY <1>0
<1>3. \A i \in Place : i + 1 \in Nat /\ i + n - 1 \in Nat
  BY <1>0 DEF Place
<1>4. \A i \in Place : LEFT(i) \in Sitting /\ RIGHT(i) \in Sitting
  BY <1>1, <1>3 DEF LEFT, RIGHT, Sitting
<1>5. Sitting \subseteq Place
  BY <1>0 DEF Sitting, Place
<1>6. \A i, j \in Sitting : j = RIGHT(i) <=> i = LEFT(j)
  <2>. SUFFICES ASSUME NEW i \in 0 .. n - 1, NEW j \in 0 .. n - 1
                PROVE  j = (i + 1) % n <=> i = (j + n - 1) % n
    BY DEF LEFT, RIGHT, Sitting
  <2>1. /\ (i + 1) % n = IF i = n - 1 THEN 0 ELSE i + 1
        /\ (j + n - 1) % n = IF j = 0 THEN n - 1 ELSE j - 1
    BY <1>2
  <2>. HIDE DEF n
  <2>. QED  BY <1>0, <2>1
<1>. QED  BY <1>4, <1>5, <1>6

\* Who is where the mutex must be held.
Everybody == Philosopher \cup {Printer, Main}
HasTable(p) ==
  \/ p \in Philosopher /\ philoPc[p].at \in InTable
  \/ p = Printer /\ printerPc = "print"
  \/ p = Main /\ mainPc \in {"adding", "added"}

\* The critical set is who has the table's mutex and is awake.
LEMMA CriticalIs == Critical = {p \in Everybody : HasTable(p) /\ ~Asleep(p)}
BY PhyloIds DEF Critical, Everybody, HasTable, InTable, At

\* The same after a step.
LEMMA CriticalIsNext == Critical' = {p \in Everybody : HasTable(p)' /\ ~Asleep(p)'}
BY CriticalIs DEF Critical, Everybody, HasTable, InTable, At

\* Sizes of what is left of the critical set when one leaves, one enters, or both.
LEMMA FewerCritical ==
  ASSUME NEW C \in SUBSET Everybody, NEW D
  PROVE  /\ Cardinality(C) \in Nat
         /\ D \subseteq C => Cardinality(D) \in Nat /\ Cardinality(D) <= Cardinality(C)
         /\ \A x : D \subseteq C \cup {x} => Cardinality(D) \in Nat /\ Cardinality(D) <= Cardinality(C) + 1
         /\ \A x \in C : D \subseteq C \ {x} => Cardinality(D) \in Nat /\ Cardinality(D) <= Cardinality(C) - 1
         /\ \A x \in C : \A y : D \subseteq (C \ {x}) \cup {y} =>
                              Cardinality(D) \in Nat /\ Cardinality(D) <= Cardinality(C)
<1>1. IsFiniteSet(Everybody)
  <2>1. IsFiniteSet({Printer, Main})
    <3>1. IsFiniteSet({Printer}) /\ {Printer, Main} = {Printer} \cup {Main}
      BY FS_Singleton
    <3>. QED  BY <3>1, FS_AddElement
  <2>. QED  BY <2>1, PhyloIds, FS_Union DEF Everybody
<1>2. IsFiniteSet(C) /\ Cardinality(C) \in Nat
  BY <1>1, FS_Subset, FS_CardinalityType
<1>3. ASSUME NEW T, IsFiniteSet(T), D \subseteq T PROVE Cardinality(D) \in Nat /\ Cardinality(D) <= Cardinality(T) /\ Cardinality(T) \in Nat
  BY <1>3, FS_Subset, FS_CardinalityType
<1>4. \A x : IsFiniteSet(C \cup {x}) /\ Cardinality(C \cup {x}) <= Cardinality(C) + 1
  <2>. TAKE x
  <2>1. IsFiniteSet(C \cup {x}) /\ Cardinality(C \cup {x}) = IF x \in C THEN Cardinality(C) ELSE Cardinality(C) + 1
    BY <1>2, FS_AddElement
  <2>. QED  BY <1>2, <2>1
<1>5. \A x \in C : IsFiniteSet(C \ {x}) /\ Cardinality(C \ {x}) = Cardinality(C) - 1
  BY <1>2, FS_RemoveElement
<1>6. \A x \in C : \A y : IsFiniteSet((C \ {x}) \cup {y}) /\ Cardinality((C \ {x}) \cup {y}) <= Cardinality(C)
  <2>. TAKE x \in C
  <2>. TAKE y
  <2>1. IsFiniteSet(C \ {x}) /\ Cardinality(C \ {x}) = Cardinality(C) - 1
    BY <1>5
  <2>2. /\ IsFiniteSet((C \ {x}) \cup {y})
        /\ Cardinality((C \ {x}) \cup {y}) = IF y \in C \ {x} THEN Cardinality(C \ {x}) ELSE Cardinality(C \ {x}) + 1
    BY <2>1, FS_AddElement
  <2>. QED  BY <1>2, <2>1, <2>2
<1>7. D \subseteq C => Cardinality(D) \in Nat /\ Cardinality(D) <= Cardinality(C)
  BY <1>2, <1>3
<1>8. \A x : D \subseteq C \cup {x} => Cardinality(D) \in Nat /\ Cardinality(D) <= Cardinality(C) + 1
  <2>. SUFFICES ASSUME NEW x, D \subseteq C \cup {x} PROVE Cardinality(D) \in Nat /\ Cardinality(D) <= Cardinality(C) + 1
    OBVIOUS
  <2>1. Cardinality(D) \in Nat /\ Cardinality(D) <= Cardinality(C \cup {x}) /\ Cardinality(C \cup {x}) \in Nat
    BY <1>3, <1>4
  <2>2. Cardinality(C \cup {x}) <= Cardinality(C) + 1
    BY <1>4
  <2>. QED  BY <1>2, <2>1, <2>2
<1>9. \A x \in C : D \subseteq C \ {x} => Cardinality(D) \in Nat /\ Cardinality(D) <= Cardinality(C) - 1
  <2>. SUFFICES ASSUME NEW x \in C, D \subseteq C \ {x} PROVE Cardinality(D) \in Nat /\ Cardinality(D) <= Cardinality(C) - 1
    OBVIOUS
  <2>1. Cardinality(D) \in Nat /\ Cardinality(D) <= Cardinality(C \ {x}) /\ Cardinality(C \ {x}) \in Nat
    BY <1>3, <1>5
  <2>. QED  BY <1>2, <1>5, <2>1
<1>10. \A x \in C : \A y : D \subseteq (C \ {x}) \cup {y} => Cardinality(D) \in Nat /\ Cardinality(D) <= Cardinality(C)
  <2>. SUFFICES ASSUME NEW x \in C, NEW y, D \subseteq (C \ {x}) \cup {y}
                PROVE Cardinality(D) \in Nat /\ Cardinality(D) <= Cardinality(C)
    OBVIOUS
  <2>1. Cardinality(D) \in Nat /\ Cardinality(D) <= Cardinality((C \ {x}) \cup {y}) /\ Cardinality((C \ {x}) \cup {y}) \in Nat
    BY <1>3, <1>6
  <2>. QED  BY <1>2, <1>6, <2>1
<1>. QED  BY <1>2, <1>7, <1>8, <1>9, <1>10

-----------------------------------------------------------------------------
\* Who sleeps in which line.
InLine(S, s, p) == S[s] # NoSync /\ p \in Range(S[s].blockedPIDs)

\* A sleeper is in a line.
LEMMA AsleepIs ==
  /\ \A p : Asleep(p) <=> \E s \in SyncId : InLine(sync, s, p)
  /\ \A p : Asleep(p)' <=> \E s \in SyncId : InLine(sync', s, p)
BY DEF Asleep, InLine

\* sWait on the table's mutex: a token, or one sleeper more.
LEMMA MutexWait ==
  ASSUME sync \in Semaphores, sync[MUTEX_ID] # NoSync, NEW p \in Process,
         sync' = AfterWait(sync, MUTEX_ID, p)
  PROVE  /\ sync' \in Semaphores /\ sync'[MUTEX_ID] # NoSync
         /\ \A t \in SyncId \ {MUTEX_ID} : sync'[t] = sync[t]
         /\ \A q : Asleep(q) => Asleep(q)'
         /\ \/ sync'[MUTEX_ID].value = sync[MUTEX_ID].value /\ Asleep(p)'
            \/ sync'[MUTEX_ID].value = sync[MUTEX_ID].value - 1
<1>. DEFINE s == MUTEX_ID
<1>0. MUTEX_ID \in SyncId
  BY PhyloIds
<1>1. /\ sync' \in Semaphores /\ sync'[s] \in Semaphore
      /\ \A t \in SyncId \ {s} : sync'[t] = sync[t]
      /\ sync[s].value = 0 => sync'[s].value = 0 /\ sync'[s].blockedPIDs = Append(sync[s].blockedPIDs, p)
      /\ sync[s].value # 0 => sync'[s].value = sync[s].value - 1 /\ sync'[s].blockedPIDs = sync[s].blockedPIDs
  BY <1>0, AfterWaitDoes
<1>2. sync'[s] # NoSync
  BY <1>1, SyncAssumption
<1>3. sync[s].blockedPIDs \in Seq(Process)
  BY <1>0 DEF Semaphores, Semaphore
<1>4. sync[s].value = 0 => Range(sync'[s].blockedPIDs) = Range(sync[s].blockedPIDs) \cup {p}
  <2>1. Range(Append(sync[s].blockedPIDs, p)) = Range(sync[s].blockedPIDs) \cup {p}
    BY <1>3, RangeAppend
  <2>. QED  BY <1>1, <2>1
<1>5. \A q : InLine(sync, s, q) => InLine(sync', s, q)
  BY <1>1, <1>2, <1>4 DEF InLine
<1>6. \A q : Asleep(q) => Asleep(q)'
  BY <1>1, <1>5, AsleepIs DEF InLine
<1>7. sync[s].value = 0 => Asleep(p)'
  <2>1. sync[s].value = 0 => InLine(sync', s, p)
    BY <1>2, <1>4 DEF InLine
  <2>. QED  BY <1>0, <2>1, AsleepIs
<1>. QED  BY <1>1, <1>2, <1>6, <1>7

\* sPost on the table's mutex: a token, or one sleeper less.
LEMMA MutexPost ==
  ASSUME sync \in Semaphores, sync[MUTEX_ID] # NoSync, sync' = AfterPost(sync, MUTEX_ID)
  PROVE  /\ sync' \in Semaphores /\ sync'[MUTEX_ID] # NoSync
         /\ \A t \in SyncId \ {MUTEX_ID} : sync'[t] = sync[t]
         /\ \/ /\ sync'[MUTEX_ID].value = sync[MUTEX_ID].value
               /\ \E h : \A q : Asleep(q) => q = h \/ Asleep(q)'
            \/ /\ sync'[MUTEX_ID].value = sync[MUTEX_ID].value + 1
               /\ \A q : Asleep(q) => Asleep(q)'
<1>. DEFINE s == MUTEX_ID
            L == sync[s].blockedPIDs
<1>0. MUTEX_ID \in SyncId
  BY PhyloIds
<1>1. /\ sync' \in Semaphores /\ sync'[s] \in Semaphore
      /\ \A t \in SyncId \ {s} : sync'[t] = sync[t]
      /\ L = <<>> => sync'[s].value = sync[s].value + 1 /\ sync'[s].blockedPIDs = <<>>
      /\ L # <<>> => sync'[s].value = sync[s].value /\ sync'[s].blockedPIDs = Tail(L)
  BY <1>0, AfterPostDoes
<1>2. sync'[s] # NoSync
  BY <1>1, SyncAssumption
<1>3. L \in Seq(Process)
  BY <1>0 DEF Semaphores, Semaphore
<1>4. CASE L = <<>>
  <2>1. \A q : InLine(sync, s, q) => InLine(sync', s, q)
    BY <1>1, <1>2, <1>4 DEF InLine
  <2>2. \A q : Asleep(q) => Asleep(q)'
    BY <1>1, <2>1, AsleepIs DEF InLine
  <2>. QED  BY <1>1, <1>2, <1>4, <2>2
<1>5. CASE L # <<>>
  <2>1. Range(L) \subseteq {Head(L)} \cup Range(Tail(L))
    BY <1>3, <1>5, RangeOfTail
  <2>2. \A q : InLine(sync, s, q) => q = Head(L) \/ InLine(sync', s, q)
    BY <1>1, <1>2, <1>5, <2>1 DEF InLine
  <2>3. \A q : Asleep(q) => q = Head(L) \/ Asleep(q)'
    BY <1>1, <2>2, AsleepIs DEF InLine
  <2>. QED  BY <1>1, <1>2, <1>5, <2>3
<1>. QED  BY <1>4, <1>5

\* A call on the semaphore of a place leaves the table's mutex alone, and puts nobody but
\* the caller in a line.
ForkCall(s) ==
  /\ sync' \in Semaphores
  /\ \A t \in SyncId \ {s} : sync'[t] = sync[t]
  /\ \A q : InLine(sync', s, q) => InLine(sync, s, q)

\* sPost on the semaphore of a place, which may be gone.
LEMMA ForkPost ==
  ASSUME sync \in Semaphores, NEW s \in SyncId, sync' = AfterPost(sync, s)
  PROVE  ForkCall(s)
<1>1. CASE sync[s] = NoSync
  BY <1>1 DEF ForkCall, AfterPost, InLine
<1>2. CASE sync[s] # NoSync
  <2>. DEFINE L == sync[s].blockedPIDs
  <2>1. /\ sync' \in Semaphores /\ sync'[s] \in Semaphore
        /\ \A t \in SyncId \ {s} : sync'[t] = sync[t]
        /\ L = <<>> => sync'[s].value = sync[s].value + 1 /\ sync'[s].blockedPIDs = <<>>
        /\ L # <<>> => sync'[s].value = sync[s].value /\ sync'[s].blockedPIDs = Tail(L)
    BY <1>2, AfterPostDoes
  <2>2. L \in Seq(Process)
    BY <1>2 DEF Semaphores, Semaphore
  <2>3. L # <<>> => Range(sync'[s].blockedPIDs) \subseteq Range(L)
    <3>1. L # <<>> => Range(Tail(L)) \subseteq Range(L)
      BY <2>2, RangeOfTail
    <3>. QED  BY <2>1, <3>1
  <2>4. L = <<>> => Range(sync'[s].blockedPIDs) = Range(L)
    BY <2>1
  <2>. QED  BY <1>2, <2>1, <2>3, <2>4 DEF ForkCall, InLine
<1>. QED  BY <1>1, <1>2

\* sOpen of a place that was removed finds its semaphore, with its sleepers, or none.
LEMMA ForkOpen ==
  ASSUME sync \in Semaphores, NEW s \in SyncId, sync' = AfterOpen(sync, s, 1)
  PROVE  ForkCall(s)
<1>1. CASE Refused(sync, s)
  <2>1. sync' = sync
    BY <1>1 DEF AfterOpen, Refused
  <2>. QED  BY <2>1, Zenon DEF ForkCall
<1>2. CASE ~ Refused(sync, s)
  <2>1. /\ sync' \in Semaphores
        /\ \A t \in SyncId \ {s} : sync'[t] = sync[t]
        /\ sync[s] = NoSync => sync'[s] = [value |-> 1, listeners |-> 1, blockedPIDs |-> <<>>]
        /\ sync[s] # NoSync => sync'[s].blockedPIDs = sync[s].blockedPIDs
    BY <1>2, AfterOpenDoes
  <2>2. sync[s] = NoSync => Range(sync'[s].blockedPIDs) = {}
    BY <2>1 DEF Range
  <2>3. \A q : InLine(sync', s, q) => InLine(sync, s, q)
    <3>1. CASE sync[s] = NoSync
      BY <2>2, <3>1 DEF InLine
    <3>2. CASE sync[s] # NoSync
      BY <2>1, <3>2 DEF InLine
    <3>. QED  BY <3>1, <3>2
  <2>. QED  BY <2>1, <2>3 DEF ForkCall
<1>. QED  BY <1>1, <1>2

\* sClose takes the semaphore away, or leaves its line as it is.
LEMMA ForkClose ==
  ASSUME sync \in Semaphores, NEW s \in SyncId, sync' = AfterClose(sync, s)
  PROVE  ForkCall(s)
<1>1. CASE sync[s] = NoSync
  <2>1. sync' = sync
    BY <1>1 DEF AfterClose, Semaphores
  <2>. QED  BY <2>1, Zenon DEF ForkCall
<1>2. CASE sync[s] # NoSync
  <2>1. /\ sync' \in Semaphores
        /\ \A t \in SyncId \ {s} : sync'[t] = sync[t]
        /\ sync[s].listeners = 1 => sync'[s] = NoSync
        /\ sync[s].listeners # 1 => sync'[s].blockedPIDs = sync[s].blockedPIDs
    BY <1>2, AfterCloseDoes
  <2>2. \A q : InLine(sync', s, q) => InLine(sync, s, q)
    <3>1. CASE sync[s].listeners = 1
      BY <2>1, <3>1 DEF InLine
    <3>2. CASE sync[s].listeners # 1
      BY <1>2, <2>1, <3>2 DEF InLine
    <3>. QED  BY <3>1, <3>2
  <2>. QED  BY <2>1, <2>2 DEF ForkCall
<1>. QED  BY <1>1, <1>2

\* sWait of a philosopher for its forks; without the semaphore it returns.
LEMMA ForkWait ==
  ASSUME sync \in Semaphores, NEW s \in SyncId, NEW p \in Process, sync' = AfterWait(sync, s, p)
  PROVE  /\ sync' \in Semaphores
         /\ \A t \in SyncId \ {s} : sync'[t] = sync[t]
         /\ \A q : InLine(sync, s, q) => InLine(sync', s, q)
         /\ \A q : InLine(sync', s, q) => InLine(sync, s, q) \/ q = p
<1>1. CASE sync[s] = NoSync
  <2>1. sync' = sync
    BY <1>1 DEF AfterWait, Sleeps
  <2>. QED  BY <2>1, Zenon
<1>2. CASE sync[s] # NoSync
  <2>. DEFINE L == sync[s].blockedPIDs
  <2>1. /\ sync' \in Semaphores /\ sync'[s] \in Semaphore
        /\ \A t \in SyncId \ {s} : sync'[t] = sync[t]
        /\ sync[s].value = 0 => sync'[s].blockedPIDs = Append(L, p)
        /\ sync[s].value # 0 => sync'[s].blockedPIDs = L
    BY <1>2, AfterWaitDoes
  <2>2. L \in Seq(Process) /\ sync'[s] # NoSync
    BY <1>2, <2>1, SyncAssumption DEF Semaphores, Semaphore
  <2>3. Range(L) \subseteq Range(sync'[s].blockedPIDs) /\ Range(sync'[s].blockedPIDs) \subseteq Range(L) \cup {p}
    <3>1. Range(Append(L, p)) = Range(L) \cup {p}
      BY <2>2, RangeAppend
    <3>. QED  BY <2>1, <3>1
  <2>4. \A q : InLine(sync, s, q) => InLine(sync', s, q)
    BY <2>2, <2>3 DEF InLine
  <2>5. \A q : InLine(sync', s, q) => InLine(sync, s, q) \/ q = p
    BY <1>2, <2>3 DEF InLine
  <2>. QED  BY <2>1, <2>4, <2>5
<1>. QED  BY <1>1, <1>2

-----------------------------------------------------------------------------
\* The lines of the places, one sleeper at a time.
LEMMA SleepersEatIs ==
  /\ SleepersEat <=> \A i \in Place : \A p : InLine(sync, Sem(i), p) =>
                       p \in Philosopher /\ philoPc[p].at \in {"eat", "dead"}
  /\ SleepersEat' <=> \A i \in Place : \A p : InLine(sync', Sem(i), p) =>
                       p \in Philosopher /\ philoPc'[p].at \in {"eat", "dead"}
BY DEF SleepersEat, InLine

\* The semaphores after a step on the table's mutex: those of the places are as before.
PlacesAlone ==
  /\ sync' \in Semaphores
  /\ \A i \in Place : sync'[Sem(i)] = sync[Sem(i)]

\* The tokens when nobody enters and the mutex is left alone.
LEMMA TokenKept ==
  ASSUME PhyloTyped, TokenOfTable, sync'[MUTEX_ID] = sync[MUTEX_ID], removals' = removals,
         \A q \in Everybody : HasTable(q)' /\ ~Asleep(q)' => HasTable(q) /\ ~Asleep(q)
  PROVE  TokenOfTable'
<1>1. Critical' \subseteq Critical
  BY CriticalIs, CriticalIsNext
<1>2. Critical \in SUBSET Everybody
  BY CriticalIs
<1>3. /\ Cardinality(Critical) \in Nat /\ Cardinality(Critical') \in Nat
      /\ Cardinality(Critical') <= Cardinality(Critical)
  BY <1>1, <1>2, FewerCritical
<1>4. sync[MUTEX_ID].value \in Nat /\ removals \in Nat
  BY PhyloIds DEF PhyloTyped, TokenOfTable, Semaphores, Semaphore
<1>. QED  BY <1>3, <1>4 DEF TokenOfTable

\* sWait on the table's mutex takes the token that lets the caller in, or keeps it out.
LEMMA TableWaits ==
  ASSUME PhyloTyped, TokenOfTable, NEW p \in Everybody, sync' = AfterWait(sync, MUTEX_ID, p),
         removals' = removals, \A q \in Everybody \ {p} : HasTable(q)' => HasTable(q)
  PROVE  PlacesAlone /\ TokenOfTable'
<1>0. sync \in Semaphores /\ sync[MUTEX_ID] # NoSync /\ p \in Process
  BY PhyloIds DEF PhyloTyped, TokenOfTable, Everybody
<1>1. /\ sync' \in Semaphores /\ sync'[MUTEX_ID] # NoSync
      /\ \A t \in SyncId \ {MUTEX_ID} : sync'[t] = sync[t]
      /\ \A q : Asleep(q) => Asleep(q)'
      /\ \/ sync'[MUTEX_ID].value = sync[MUTEX_ID].value /\ Asleep(p)'
         \/ sync'[MUTEX_ID].value = sync[MUTEX_ID].value - 1
  BY <1>0, MutexWait
<1>2. PlacesAlone
  BY <1>1, PhyloIds DEF PlacesAlone
<1>3. Critical \in SUBSET Everybody
  BY CriticalIs
<1>4. sync[MUTEX_ID].value \in Nat /\ sync'[MUTEX_ID].value \in Nat /\ removals \in Nat
  BY <1>0, <1>1, PhyloIds DEF PhyloTyped, Semaphores, Semaphore
<1>5. CASE sync'[MUTEX_ID].value = sync[MUTEX_ID].value /\ Asleep(p)'
  <2>1. Critical' \subseteq Critical
    BY <1>1, <1>5, CriticalIs, CriticalIsNext
  <2>2. /\ Cardinality(Critical) \in Nat /\ Cardinality(Critical') \in Nat
        /\ Cardinality(Critical') <= Cardinality(Critical)
    BY <1>3, <2>1, FewerCritical
  <2>. QED  BY <1>1, <1>2, <1>4, <1>5, <2>2 DEF TokenOfTable
<1>6. CASE sync'[MUTEX_ID].value = sync[MUTEX_ID].value - 1
  <2>1. Critical' \subseteq Critical \cup {p}
    BY <1>1, CriticalIs, CriticalIsNext
  <2>2. /\ Cardinality(Critical) \in Nat /\ Cardinality(Critical') \in Nat
        /\ Cardinality(Critical') <= Cardinality(Critical) + 1
    BY <1>3, <2>1, FewerCritical
  <2>. QED  BY <1>1, <1>2, <1>4, <1>6, <2>2 DEF TokenOfTable
<1>. QED  BY <1>1, <1>5, <1>6

\* sPost of who is in the table's mutex: out it goes, and the token is back or lets the
\* first sleeper in.
LEMMA TablePosts ==
  ASSUME PhyloTyped, TokenOfTable, NEW p \in Everybody, sync' = AfterPost(sync, MUTEX_ID),
         HasTable(p), ~Asleep(p), ~HasTable(p)',
         removals' = removals, \A q \in Everybody \ {p} : HasTable(q)' => HasTable(q)
  PROVE  PlacesAlone /\ TokenOfTable'
<1>0. sync \in Semaphores /\ sync[MUTEX_ID] # NoSync
  BY DEF PhyloTyped, TokenOfTable
<1>1. /\ sync' \in Semaphores /\ sync'[MUTEX_ID] # NoSync
      /\ \A t \in SyncId \ {MUTEX_ID} : sync'[t] = sync[t]
      /\ \/ /\ sync'[MUTEX_ID].value = sync[MUTEX_ID].value
            /\ \E h : \A q : Asleep(q) => q = h \/ Asleep(q)'
         \/ /\ sync'[MUTEX_ID].value = sync[MUTEX_ID].value + 1
            /\ \A q : Asleep(q) => Asleep(q)'
  BY <1>0, MutexPost
<1>2. PlacesAlone
  BY <1>1, PhyloIds DEF PlacesAlone
<1>3. Critical \in SUBSET Everybody /\ p \in Critical
  BY CriticalIs
<1>4. sync[MUTEX_ID].value \in Nat /\ sync'[MUTEX_ID].value \in Nat /\ removals \in Nat
  BY <1>0, <1>1, PhyloIds DEF PhyloTyped, Semaphores, Semaphore
<1>5. CASE /\ sync'[MUTEX_ID].value = sync[MUTEX_ID].value
           /\ \E h : \A q : Asleep(q) => q = h \/ Asleep(q)'
  <2>1. PICK h : \A q : Asleep(q) => q = h \/ Asleep(q)'
    BY <1>5
  <2>2. Critical' \subseteq (Critical \ {p}) \cup {h}
    BY <2>1, CriticalIs, CriticalIsNext
  <2>3. /\ Cardinality(Critical) \in Nat /\ Cardinality(Critical') \in Nat
        /\ Cardinality(Critical') <= Cardinality(Critical)
    BY <1>3, <2>2, FewerCritical
  <2>. QED  BY <1>1, <1>2, <1>4, <1>5, <2>3 DEF TokenOfTable
<1>6. CASE /\ sync'[MUTEX_ID].value = sync[MUTEX_ID].value + 1
           /\ \A q : Asleep(q) => Asleep(q)'
  <2>1. Critical' \subseteq Critical \ {p}
    BY <1>6, CriticalIs, CriticalIsNext
  <2>2. /\ Cardinality(Critical) \in Nat /\ Cardinality(Critical') \in Nat
        /\ Cardinality(Critical') <= Cardinality(Critical) - 1
    BY <1>3, <2>1, FewerCritical
  <2>. QED  BY <1>1, <1>2, <1>4, <1>6, <2>2 DEF TokenOfTable
<1>. QED  BY <1>1, <1>5, <1>6

\* removePhilosopher posts a token that it never took.
LEMMA RemoverPosts ==
  ASSUME PhyloTyped, TokenOfTable, sync' = AfterPost(sync, MUTEX_ID),
         removals' = removals + 1, \A q \in Everybody : HasTable(q)' => HasTable(q)
  PROVE  PlacesAlone /\ TokenOfTable'
<1>0. sync \in Semaphores /\ sync[MUTEX_ID] # NoSync
  BY DEF PhyloTyped, TokenOfTable
<1>1. /\ sync' \in Semaphores /\ sync'[MUTEX_ID] # NoSync
      /\ \A t \in SyncId \ {MUTEX_ID} : sync'[t] = sync[t]
      /\ \/ /\ sync'[MUTEX_ID].value = sync[MUTEX_ID].value
            /\ \E h : \A q : Asleep(q) => q = h \/ Asleep(q)'
         \/ /\ sync'[MUTEX_ID].value = sync[MUTEX_ID].value + 1
            /\ \A q : Asleep(q) => Asleep(q)'
  BY <1>0, MutexPost
<1>2. PlacesAlone
  BY <1>1, PhyloIds DEF PlacesAlone
<1>3. Critical \in SUBSET Everybody
  BY CriticalIs
<1>4. sync[MUTEX_ID].value \in Nat /\ sync'[MUTEX_ID].value \in Nat /\ removals \in Nat
  BY <1>0, <1>1, PhyloIds DEF PhyloTyped, Semaphores, Semaphore
<1>5. CASE /\ sync'[MUTEX_ID].value = sync[MUTEX_ID].value
           /\ \E h : \A q : Asleep(q) => q = h \/ Asleep(q)'
  <2>1. PICK h : \A q : Asleep(q) => q = h \/ Asleep(q)'
    BY <1>5
  <2>2. Critical' \subseteq Critical \cup {h}
    BY <2>1, CriticalIs, CriticalIsNext
  <2>3. /\ Cardinality(Critical) \in Nat /\ Cardinality(Critical') \in Nat
        /\ Cardinality(Critical') <= Cardinality(Critical) + 1
    BY <1>3, <2>2, FewerCritical
  <2>. QED  BY <1>1, <1>2, <1>4, <1>5, <2>3 DEF TokenOfTable
<1>6. CASE /\ sync'[MUTEX_ID].value = sync[MUTEX_ID].value + 1
           /\ \A q : Asleep(q) => Asleep(q)'
  <2>1. Critical' \subseteq Critical
    BY <1>6, CriticalIs, CriticalIsNext
  <2>2. /\ Cardinality(Critical) \in Nat /\ Cardinality(Critical') \in Nat
        /\ Cardinality(Critical') <= Cardinality(Critical)
    BY <1>3, <2>1, FewerCritical
  <2>. QED  BY <1>1, <1>2, <1>4, <1>6, <2>2 DEF TokenOfTable
<1>. QED  BY <1>1, <1>5, <1>6

\* A call on the semaphore of a place wakes only who will eat, or nobody.
LEMMA PlaceCalled ==
  ASSUME PhyloTyped, TokenOfTable, SleepersEat, NEW i \in Place, ForkCall(Sem(i)),
         removals' = removals, \A q \in Everybody : HasTable(q)' => HasTable(q)
  PROVE  TokenOfTable'
<1>1. Sem(i) \in SyncId \ {MUTEX_ID} /\ MUTEX_ID \in SyncId
  BY PhyloIds
<1>2. sync'[MUTEX_ID] = sync[MUTEX_ID]
  BY <1>1 DEF ForkCall
<1>3. \A q : Asleep(q) => Asleep(q)' \/ InLine(sync, Sem(i), q)
  BY <1>1, AsleepIs DEF ForkCall, InLine
<1>4. \A q : InLine(sync, Sem(i), q) => ~ HasTable(q)
  BY SleepersEatIs, PhyloIds DEF HasTable, InTable
<1>. QED  BY <1>2, <1>3, <1>4, TokenKept

\* The sleepers of the places when nobody leaves "eat" asleep.
LEMMA SleepersKept ==
  ASSUME SleepersEat,
         \A q \in Philosopher : philoPc[q].at \in {"eat", "dead"} /\ Asleep(q) =>
                                  philoPc'[q].at \in {"eat", "dead"},
         \A i \in Place : \A q : InLine(sync', Sem(i), q) =>
            InLine(sync, Sem(i), q) \/ (q \in Philosopher /\ philoPc'[q].at \in {"eat", "dead"})
  PROVE  SleepersEat'
<1>1. \A i \in Place : \A q : InLine(sync, Sem(i), q) => Asleep(q)
  BY AsleepIs, PhyloIds
<1>. QED  BY <1>1, SleepersEatIs

\* The lines of the places are as before when only the table's mutex is called, or when
\* one of them is posted, opened or closed.
LEMMA SameLines ==
  ASSUME \/ PlacesAlone
         \/ UNCHANGED sync
         \/ \E i \in Place : ForkCall(Sem(i))
  PROVE  \A i \in Place : \A q : InLine(sync', Sem(i), q) => InLine(sync, Sem(i), q)
<1>1. CASE PlacesAlone
  BY <1>1 DEF PlacesAlone, InLine
<1>2. CASE UNCHANGED sync
  BY <1>2 DEF InLine
<1>3. ASSUME NEW i \in Place, ForkCall(Sem(i))
      PROVE \A j \in Place : \A q : InLine(sync', Sem(j), q) => InLine(sync, Sem(j), q)
  <2>. SUFFICES ASSUME NEW j \in Place, NEW q, InLine(sync', Sem(j), q) PROVE InLine(sync, Sem(j), q)
    OBVIOUS
  <2>1. CASE Sem(j) = Sem(i)
    BY <1>3, <2>1 DEF ForkCall
  <2>2. CASE Sem(j) # Sem(i)
    <3>1. sync'[Sem(j)] = sync[Sem(j)]
      BY <1>3, <2>2, PhyloIds DEF ForkCall
    <3>. QED  BY <3>1 DEF InLine
  <2>. QED  BY <2>1, <2>2
<1>. QED  BY <1>1, <1>2, <1>3

\* The forks when nobody starts to eat or sits down.
LEMMA ForksKept ==
  ASSUME ForksApart, UNCHANGED actualPhilosopherCount, Undisturbed' => Undisturbed,
         \A p \in Philosopher : philoPc'[p].at # "none" =>
                                  philoPc[p].at # "none" /\ philoPc'[p].i = philoPc[p].i,
         \A i \in Place : philos'[i].state = "EATING" => philos[i].state = "EATING",
         actualPhilosopherCount \in 0 .. MAX_PHILOS
  PROVE  ForksApart'
<1>1. Sitting' = Sitting /\ Sitting \subseteq Place
  BY PhyloIds DEF Sitting, Place
<1>2. \A i, j \in Sitting : Neighbours(i, j)' <=> Neighbours(i, j)
  BY DEF Neighbours, LEFT, RIGHT
<1>. QED  BY <1>1, <1>2 DEF ForksApart

\* test gives the forks to a place whose neighbours do not eat.
LEMMA ForksTested ==
  ASSUME PhyloTyped, ForksApart, UNCHANGED <<actualPhilosopherCount, removals, mainPc>>,
         \A p \in Philosopher : philoPc'[p].at # "none" =>
                                  philoPc[p].at # "none" /\ philoPc'[p].i = philoPc[p].i,
         actualPhilosopherCount >= 1, NEW i \in Place, Undisturbed => i \in Sitting, Tests(i)
  PROVE  ForksApart'
<1>0. actualPhilosopherCount \in 0 .. MAX_PHILOS /\ actualPhilosopherCount \in 1 .. MAX_PHILOS
  BY PhyloIds DEF PhyloTyped
<1>1. Undisturbed' <=> Undisturbed
  BY DEF Undisturbed
<1>2. CASE ~ CanEat(i)
  BY <1>0, <1>1, <1>2, ForksKept DEF Tests
<1>3. CASE CanEat(i) /\ Undisturbed
  <2>1. philos \in [Place -> [pid : Nat, state : {"THINKING", "HUNGRY", "EATING"}]]
    BY DEF PhyloTyped
  <2>2. philos' = [philos EXCEPT ![i].state = "EATING"]
    BY <1>3 DEF Tests
  <2>3. \A j \in Place \ {i} : philos'[j] = philos[j]
    BY <2>1, <2>2
  <2>4. Sitting' = Sitting /\ i \in Sitting
    BY <1>3 DEF Sitting
  <2>5. \A j, k \in Sitting : Neighbours(j, k)' <=> Neighbours(j, k)
    BY DEF Neighbours, LEFT, RIGHT
  <2>6. \A j, k \in Sitting : Neighbours(j, k) => Neighbours(k, j)
    BY <1>0, Around DEF Neighbours
  <2>7. \A j \in Sitting : Neighbours(i, j) => philos[j].state # "EATING" /\ j # i
    BY <1>3 DEF CanEat, Neighbours
  <2>8. Sitting \subseteq Place
    BY <1>0, Around
  <2>9. \A j, k \in Sitting : Neighbours(j, k) => ~(philos'[j].state = "EATING" /\ philos'[k].state = "EATING")
    BY <1>3, <2>3, <2>4, <2>6, <2>7, <2>8 DEF ForksApart
  <2>. QED  BY <1>1, <1>3, <2>4, <2>5, <2>9 DEF ForksApart
<1>4. CASE ~ Undisturbed
  BY <1>1, <1>4 DEF ForksApart
<1>. QED  BY <1>2, <1>3, <1>4

-----------------------------------------------------------------------------
\* What a step of a philosopher leaves to be shown: the call it makes and the table.
PhiloMoved(p, from, to) ==
  /\ philoPc' \in [Philosopher -> [at : PhiloLabel, i : Place]]
  /\ p \in Everybody /\ ~Asleep(p)
  /\ HasTable(p) <=> from \in InTable
  /\ HasTable(p)' <=> to \in InTable
  /\ \A q \in Everybody \ {p} : HasTable(q)' <=> HasTable(q)
  /\ \A q \in Philosopher : philoPc'[q].at # "none" =>
                              philoPc[q].at # "none" /\ philoPc'[q].i = philoPc[q].i
  /\ \A q \in Philosopher : philoPc[q].at \in {"eat", "dead"} /\ Asleep(q) =>
                              philoPc'[q].at \in {"eat", "dead"}
  /\ philoPc'[p].at = to
  /\ philoPc[p].i \in Place /\ (Undisturbed => philoPc[p].i \in Sitting)
  /\ RoomAtTable' /\ (Undisturbed' <=> Undisturbed)
  /\ actualPhilosopherCount >= 1 /\ removals' = removals

\* A philosopher that goes on stays at its place.
LEMMA PhiloStep ==
  ASSUME Laid, NEW p \in Philosopher, NEW from, from # "none", NEW to \in PhiloLabel \ {"none"},
         PhiloGoes(p, from, to), UNCHANGED <<tableVars, printerPc, mainPc>>
  PROVE  PhiloMoved(p, from, to)
<1>1. /\ philoPc \in [Philosopher -> [at : PhiloLabel, i : Place]]
      /\ philoPc[p].at = from /\ ~Asleep(p)
      /\ philoPc' = [philoPc EXCEPT ![p].at = to]
      /\ UNCHANGED <<actualPhilosopherCount, newPid, leaving, problemRunning, presses, removals,
                     printerPc, mainPc>>
  BY DEF Laid, PhyloTyped, PhiloGoes, At, tableVars
<1>2. /\ philoPc' \in [Philosopher -> [at : PhiloLabel, i : Place]]
      /\ philoPc'[p].at = to /\ philoPc'[p].i = philoPc[p].i /\ philoPc[p].i \in Place
      /\ \A q \in Philosopher \ {p} : philoPc'[q] = philoPc[q]
  BY <1>1
<1>3. p \in Everybody /\ p # Printer /\ p # Main
  BY PhyloIds DEF Everybody
<1>4. (HasTable(p) <=> from \in InTable) /\ (HasTable(p)' <=> to \in InTable)
  BY <1>1, <1>2, <1>3, PhyloIds DEF HasTable
<1>5. \A q \in Everybody \ {p} : HasTable(q)' <=> HasTable(q)
  BY <1>1, <1>2, <1>3, PhyloIds DEF HasTable
<1>6. \A q \in Philosopher : philoPc'[q].at # "none" =>
                              philoPc[q].at # "none" /\ philoPc'[q].i = philoPc[q].i
  BY <1>1, <1>2
<1>7. \A q \in Philosopher : philoPc[q].at \in {"eat", "dead"} /\ Asleep(q) =>
                              philoPc'[q].at \in {"eat", "dead"}
  BY <1>1, <1>2
<1>8. RoomAtTable'
  BY <1>1, <1>6 DEF Laid, RoomAtTable
<1>9. (Undisturbed' <=> Undisturbed) /\ removals' = removals
  BY <1>1 DEF Undisturbed
<1>10. actualPhilosopherCount >= 1
  BY <1>1 DEF Laid, RoomAtTable
<1>11. Undisturbed => philoPc[p].i \in Sitting
  BY <1>1 DEF Laid, ForksApart
<1>. QED  BY <1>1, <1>2, <1>3, <1>4, <1>5, <1>6, <1>7, <1>8, <1>9, <1>10, <1>11 DEF PhiloMoved

\* The rest of a philosopher's step: who eats, and where it lies.
LEMMA PhiloLaid ==
  ASSUME Laid, NEW p \in Philosopher, NEW from, NEW to, PhiloMoved(p, from, to),
         UNCHANGED <<tableVars, printerPc, mainPc>>,
         sync' \in Semaphores, TokenOfTable', SleepersEat', ForksApart',
         philos' \in [Place -> [pid : Nat, state : {"THINKING", "HUNGRY", "EATING"}]],
         \A i \in Place : philos'[i].pid = philos[i].pid
  PROVE  Laid'
BY DEF Laid, PhyloTyped, PhiloMoved, tableVars

\* Waiting for the table.
LEMMA PhiloWaits ==
  ASSUME Laid, NEW p \in Philosopher, NEW from \in PhiloLabel \ {"none"},
         NEW to \in PhiloLabel \ {"none"},
         WaitsTable(p, from, to), UNCHANGED <<tableVars, printerPc, mainPc>>
  PROVE  Laid'
<1>1. PhiloMoved(p, from, to)
  BY PhiloStep DEF WaitsTable
<1>2. sync' = AfterWait(sync, MUTEX_ID, p) /\ philos' = philos
  BY DEF WaitsTable
<1>3. PlacesAlone /\ TokenOfTable'
  BY <1>1, <1>2, TableWaits DEF Laid, PhiloMoved
<1>4. SleepersEat'
  BY <1>1, <1>3, SameLines, SleepersKept DEF Laid, PhiloMoved
<1>5. ForksApart'
  BY <1>1, <1>2, ForksKept DEF Laid, PhiloMoved, PhyloTyped, tableVars
<1>. QED  BY <1>1, <1>2, <1>3, <1>4, <1>5, PhiloLaid DEF Laid, PhyloTyped, PlacesAlone

\* Leaving the table's mutex.
LEMMA PhiloPosts ==
  ASSUME Laid, NEW p \in Philosopher, NEW from \in InTable, NEW to \in PhiloLabel \ ({"none"} \cup InTable),
         PostsTable(p, from, to), UNCHANGED <<tableVars, printerPc, mainPc>>
  PROVE  Laid'
<1>1. PhiloMoved(p, from, to)
  BY PhiloStep DEF PostsTable, InTable
<1>2. sync' = AfterPost(sync, MUTEX_ID) /\ philos' = philos
  BY DEF PostsTable
<1>3. PlacesAlone /\ TokenOfTable'
  BY <1>1, <1>2, TablePosts DEF Laid, PhiloMoved
<1>4. SleepersEat'
  BY <1>1, <1>3, SameLines, SleepersKept DEF Laid, PhiloMoved
<1>5. ForksApart'
  BY <1>1, <1>2, ForksKept DEF Laid, PhiloMoved, PhyloTyped, tableVars
<1>. QED  BY <1>1, <1>2, <1>3, <1>4, <1>5, PhiloLaid DEF Laid, PhyloTyped, PlacesAlone

\* The tokens when a philosopher goes on without a call, and without entering.
LEMMA PhiloToken ==
  ASSUME Laid, NEW p \in Philosopher, NEW from, NEW to, PhiloMoved(p, from, to),
         to \in InTable => from \in InTable, UNCHANGED sync
  PROVE  TokenOfTable'
<1>1. \A q : Asleep(q)' <=> Asleep(q)
  BY AsleepIs, Zenon DEF Asleep
<1>. QED  BY <1>1, TokenKept DEF Laid, PhiloMoved

\* A philosopher changes its own state to one that does not eat.
LEMMA PhiloBecomes ==
  ASSUME Laid, NEW p \in Philosopher, NEW from \in InTable, NEW to \in InTable,
         NEW st \in {"THINKING", "HUNGRY"},
         Becomes(p, from, to, st), UNCHANGED <<tableVars, printerPc, mainPc>>
  PROVE  Laid'
<1>1. PhiloMoved(p, from, to)
  BY PhiloStep DEF Becomes, InTable, PhiloLabel
<1>2. UNCHANGED sync /\ philos' = [philos EXCEPT ![philoPc[p].i].state = st]
  BY DEF Becomes
<1>3. TokenOfTable'
  BY <1>1, <1>2, PhiloToken
<1>4. SleepersEat'
  BY <1>1, <1>2, SameLines, SleepersKept DEF Laid, PhiloMoved
<1>5. /\ philos' \in [Place -> [pid : Nat, state : {"THINKING", "HUNGRY", "EATING"}]]
      /\ \A i \in Place : philos'[i].state = "EATING" => philos[i].state = "EATING"
      /\ \A i \in Place : philos'[i].pid = philos[i].pid
  BY <1>1, <1>2 DEF Laid, PhyloTyped, PhiloMoved
<1>6. ForksApart'
  BY <1>1, <1>2, <1>5, ForksKept DEF Laid, PhiloMoved, PhyloTyped, tableVars
<1>. QED  BY <1>1, <1>2, <1>3, <1>4, <1>5, <1>6, PhiloLaid DEF Laid, PhyloTyped

\* A philosopher that leaves.
LEMMA PhiloLeaves ==
  ASSUME Laid, NEW p \in Philosopher, Leaves(p), UNCHANGED <<tableVars, printerPc, mainPc>>
  PROVE  Laid'
<1>1. PhiloMoved(p, "loop", "dead")
  BY PhiloStep DEF Leaves, PhiloLabel
<1>2. UNCHANGED sync /\ philos' = philos
  BY DEF Leaves
<1>3. TokenOfTable'
  BY <1>1, <1>2, PhiloToken DEF InTable
<1>4. SleepersEat'
  BY <1>1, <1>2, SameLines, SleepersKept DEF Laid, PhiloMoved
<1>5. ForksApart'
  BY <1>1, <1>2, ForksKept DEF Laid, PhiloMoved, PhyloTyped, tableVars
<1>. QED  BY <1>1, <1>2, <1>3, <1>4, <1>5, PhiloLaid DEF Laid, PhyloTyped

\* test, of a place of the table: it wakes who waits there for its forks.
LEMMA PhiloTests ==
  ASSUME Laid, NEW p \in Philosopher, NEW from \in InTable, NEW to \in InTable, NEW i \in Place,
         TestsAt(p, from, to, i), Undisturbed => i \in Sitting, UNCHANGED <<tableVars, printerPc, mainPc>>
  PROVE  Laid'
<1>1. PhiloMoved(p, from, to)
  BY PhiloStep DEF TestsAt, InTable, PhiloLabel
<1>2. Tests(i)
  BY DEF TestsAt
<1>3. UNCHANGED sync \/ ForkCall(Sem(i))
  BY <1>2, PhyloIds, ForkPost DEF Tests, Laid, PhyloTyped
<1>4. TokenOfTable'
  <2>1. CASE UNCHANGED sync
    BY <1>1, <2>1, PhiloToken
  <2>2. CASE ForkCall(Sem(i))
    BY <1>1, <2>2, PlaceCalled DEF Laid, PhiloMoved
  <2>. QED  BY <1>3, <2>1, <2>2
<1>5. SleepersEat'
  BY <1>1, <1>3, SameLines, SleepersKept DEF Laid, PhiloMoved
<1>6. /\ philos' \in [Place -> [pid : Nat, state : {"THINKING", "HUNGRY", "EATING"}]]
      /\ \A j \in Place : philos'[j].pid = philos[j].pid
  BY <1>2 DEF Laid, PhyloTyped, Tests
<1>7. ForksApart'
  BY <1>1, <1>2, ForksTested DEF Laid, PhiloMoved, tableVars
<1>8. sync' \in Semaphores
  BY <1>3 DEF Laid, PhyloTyped, ForkCall
<1>. QED  BY <1>1, <1>4, <1>5, <1>6, <1>7, <1>8, PhiloLaid

\* Waiting for the forks.
LEMMA PhiloWaitsForks ==
  ASSUME Laid, NEW p \in Philosopher, PhiloGoes(p, "waitForks", "eat"),
         sync' = AfterWait(sync, Sem(philoPc[p].i), p), UNCHANGED philos,
         UNCHANGED <<tableVars, printerPc, mainPc>>
  PROVE  Laid'
<1>1. PhiloMoved(p, "waitForks", "eat")
  BY PhiloStep DEF PhiloLabel
<1>2. PICK i \in Place : i = philoPc[p].i
  BY <1>1 DEF PhiloMoved
<1>3. Sem(i) \in SyncId \ {MUTEX_ID} /\ p \in Process /\ sync \in Semaphores /\ MUTEX_ID \in SyncId
  BY PhyloIds DEF Laid, PhyloTyped
<1>4. sync' = AfterWait(sync, Sem(i), p)
  BY <1>2
<1>5. /\ sync' \in Semaphores
      /\ \A t \in SyncId \ {Sem(i)} : sync'[t] = sync[t]
      /\ \A q : InLine(sync, Sem(i), q) => InLine(sync', Sem(i), q)
      /\ \A q : InLine(sync', Sem(i), q) => InLine(sync, Sem(i), q) \/ q = p
  BY <1>3, <1>4, ForkWait
<1>6. \A q : Asleep(q) => Asleep(q)'
  BY <1>3, <1>5, AsleepIs DEF InLine
<1>7. sync'[MUTEX_ID] = sync[MUTEX_ID]
  BY <1>3, <1>5
<1>8. TokenOfTable'
  <2>1. ~ HasTable(p)'
    BY <1>1 DEF PhiloMoved, InTable
  <2>. QED  BY <1>1, <1>6, <1>7, <2>1, TokenKept DEF Laid, PhiloMoved
<1>9. SleepersEat'
  <2>1. \A j \in Place : \A q : InLine(sync', Sem(j), q) => InLine(sync, Sem(j), q) \/ q = p
    <3>. SUFFICES ASSUME NEW j \in Place, NEW q, InLine(sync', Sem(j), q)
                  PROVE  InLine(sync, Sem(j), q) \/ q = p
      OBVIOUS
    <3>1. CASE Sem(j) = Sem(i)
      BY <1>5, <3>1
    <3>2. CASE Sem(j) # Sem(i)
      <4>1. sync'[Sem(j)] = sync[Sem(j)]
        BY <1>5, <3>2, PhyloIds
      <4>. QED  BY <4>1 DEF InLine
    <3>. QED  BY <3>1, <3>2
  <2>2. p \in Philosopher /\ philoPc'[p].at \in {"eat", "dead"}
    BY <1>1 DEF PhiloMoved
  <2>. QED  BY <1>1, <2>1, <2>2, SleepersKept DEF Laid, PhiloMoved
<1>10. ForksApart'
  BY <1>1, ForksKept DEF Laid, PhiloMoved, PhyloTyped, tableVars
<1>. QED  BY <1>1, <1>5, <1>8, <1>9, <1>10, PhiloLaid DEF Laid, PhyloTyped

\* Every step of a philosopher.
LEMMA PhilosophizesLaid ==
  ASSUME Laid, NEW p \in Philosopher, Philosophizes(p)
  PROVE  Laid'
<1>0. UNCHANGED <<tableVars, printerPc, mainPc>>
  BY DEF Philosophizes
<1>1. /\ philoPc[p].i \in Place /\ LEFT(philoPc[p].i) \in Sitting /\ RIGHT(philoPc[p].i) \in Sitting
      /\ (Undisturbed /\ philoPc[p].at # "none" => philoPc[p].i \in Sitting)
      /\ (philoPc[p].at # "none" => Sitting \subseteq Place)
  <2>1. philoPc[p].i \in Place
    BY DEF Laid, PhyloTyped
  <2>2. philoPc[p].at # "none"
    BY DEF Philosophizes, TakeForks, PlaceForks, Leaves, WaitsTable, PostsTable, Becomes, TestsAt,
           PhiloGoes, At
  <2>3. actualPhilosopherCount \in 1 .. MAX_PHILOS
    BY <2>2, PhyloIds DEF Laid, PhyloTyped, RoomAtTable
  <2>. QED  BY <2>1, <2>2, <2>3, Around DEF Laid, ForksApart
<1>2. CASE TakeForks(p)
  <2>1. CASE problemRunning /\ WaitsTable(p, "loop", "hungry")
    <3>1. "loop" \in PhiloLabel \ {"none"} /\ "hungry" \in PhiloLabel \ {"none"}
      BY DEF PhiloLabel
    <3>. QED  BY <1>0, <2>1, <3>1, PhiloWaits
  <2>2. CASE Becomes(p, "hungry", "test", "HUNGRY")
    <3>1. "hungry" \in InTable /\ "test" \in InTable /\ "HUNGRY" \in {"THINKING", "HUNGRY"}
      BY DEF InTable
    <3>. QED  BY <1>0, <2>2, <3>1, PhiloBecomes
  <2>3. CASE TestsAt(p, "test", "taken", philoPc[p].i)
    <3>1. "test" \in InTable /\ "taken" \in InTable
      BY DEF InTable
    <3>2. philoPc[p].at # "none"
      BY <2>3 DEF TestsAt, PhiloGoes, At
    <3>3. PICK i \in Place : i = philoPc[p].i
      BY <1>1
    <3>4. TestsAt(p, "test", "taken", i) /\ (Undisturbed => i \in Sitting)
      BY <1>1, <2>3, <3>2, <3>3
    <3>. QED  BY <1>0, <3>1, <3>4, PhiloTests
  <2>4. CASE PostsTable(p, "taken", "waitForks")
    <3>1. "taken" \in InTable /\ "waitForks" \in PhiloLabel \ ({"none"} \cup InTable)
      BY DEF InTable, PhiloLabel
    <3>. QED  BY <1>0, <2>4, <3>1, PhiloPosts
  <2>5. CASE PhiloGoes(p, "waitForks", "eat") /\ sync' = AfterWait(sync, Sem(philoPc[p].i), p) /\ UNCHANGED philos
    BY <1>0, <2>5, PhiloWaitsForks
  <2>. QED  BY <1>2, <2>1, <2>2, <2>3, <2>4, <2>5 DEF TakeForks
<1>3. CASE PlaceForks(p)
  <2>1. CASE WaitsTable(p, "eat", "thinking")
    <3>1. "eat" \in PhiloLabel \ {"none"} /\ "thinking" \in PhiloLabel \ {"none"}
      BY DEF PhiloLabel
    <3>. QED  BY <1>0, <2>1, <3>1, PhiloWaits
  <2>2. CASE Becomes(p, "thinking", "testLeft", "THINKING")
    <3>1. "thinking" \in InTable /\ "testLeft" \in InTable /\ "THINKING" \in {"THINKING", "HUNGRY"}
      BY DEF InTable
    <3>. QED  BY <1>0, <2>2, <3>1, PhiloBecomes
  <2>3. CASE TestsAt(p, "testLeft", "testRight", LEFT(philoPc[p].i))
    <3>1. "testLeft" \in InTable /\ "testRight" \in InTable
      BY DEF InTable
    <3>2. philoPc[p].at # "none"
      BY <2>3 DEF TestsAt, PhiloGoes, At
    <3>3. PICK i \in Place : i = LEFT(philoPc[p].i)
      BY <1>1, <3>2
    <3>4. TestsAt(p, "testLeft", "testRight", i) /\ (Undisturbed => i \in Sitting)
      BY <1>1, <2>3, <3>3
    <3>. QED  BY <1>0, <3>1, <3>4, PhiloTests
  <2>4. CASE TestsAt(p, "testRight", "placed", RIGHT(philoPc[p].i))
    <3>1. "testRight" \in InTable /\ "placed" \in InTable
      BY DEF InTable
    <3>2. philoPc[p].at # "none"
      BY <2>4 DEF TestsAt, PhiloGoes, At
    <3>3. PICK i \in Place : i = RIGHT(philoPc[p].i)
      BY <1>1, <3>2
    <3>4. TestsAt(p, "testRight", "placed", i) /\ (Undisturbed => i \in Sitting)
      BY <1>1, <2>4, <3>3
    <3>. QED  BY <1>0, <3>1, <3>4, PhiloTests
  <2>5. CASE PostsTable(p, "placed", "loop")
    <3>1. "placed" \in InTable /\ "loop" \in PhiloLabel \ ({"none"} \cup InTable)
      BY DEF InTable, PhiloLabel
    <3>. QED  BY <1>0, <2>5, <3>1, PhiloPosts
  <2>. QED  BY <1>3, <2>1, <2>2, <2>3, <2>4, <2>5 DEF PlaceForks
<1>4. CASE Leaves(p)
  BY <1>0, <1>4, PhiloLeaves
<1>. QED  BY <1>2, <1>3, <1>4 DEF Philosophizes

-----------------------------------------------------------------------------
\* What a step of the printer or of the main program leaves to be shown when it changes
\* neither the philosophers nor their places.
LEMMA OthersLaid ==
  ASSUME Laid, UNCHANGED <<actualPhilosopherCount, newPid, leaving, problemRunning, philos, philoPc>>,
         removals' \in Nat, RoomAtTable', Undisturbed' => Undisturbed,
         \/ PlacesAlone
         \/ UNCHANGED sync
         \/ \E i \in Place : ForkCall(Sem(i)),
         TokenOfTable'
  PROVE  Laid'
<1>1. SleepersEat'
  BY SameLines, SleepersKept DEF Laid
<1>2. ForksApart'
  BY ForksKept DEF Laid, PhyloTyped
<1>3. sync' \in Semaphores
  BY DEF Laid, PhyloTyped, PlacesAlone, ForkCall
<1>. QED  BY <1>1, <1>2, <1>3 DEF Laid, PhyloTyped

\* Every step of the printer.
LEMMA PrintsLaid ==
  ASSUME Laid, Prints
  PROVE  Laid'
<1>1. /\ UNCHANGED <<actualPhilosopherCount, newPid, leaving, problemRunning, philos, philoPc>>
      /\ UNCHANGED <<removals, mainPc>>
  BY DEF Prints, tableVars
<1>2. RoomAtTable' /\ (Undisturbed' => Undisturbed) /\ removals' \in Nat
  BY <1>1 DEF Laid, RoomAtTable, Undisturbed, PhyloTyped
<1>3. Printer \in Everybody /\ \A q \in Everybody \ {Printer} : HasTable(q)' <=> HasTable(q)
  BY <1>1 DEF Everybody, HasTable
<1>4. CASE PrinterGoes("loop", "print") /\ sync' = AfterWait(sync, MUTEX_ID, Printer)
  <2>1. PlacesAlone /\ TokenOfTable'
    BY <1>1, <1>3, <1>4, TableWaits DEF Laid
  <2>. QED  BY <1>1, <1>2, <2>1, OthersLaid
<1>5. CASE PrinterGoes("print", "loop") /\ sync' = AfterPost(sync, MUTEX_ID)
  <2>1. HasTable(Printer) /\ ~ HasTable(Printer)' /\ ~ Asleep(Printer)
    BY <1>5, PhyloIds DEF PrinterGoes, HasTable
  <2>2. PlacesAlone /\ TokenOfTable'
    BY <1>1, <1>3, <1>5, <2>1, TablePosts DEF Laid
  <2>. QED  BY <1>1, <1>2, <2>2, OthersLaid
<1>6. CASE PrinterGoes("loop", "dead") /\ UNCHANGED sync
  <2>1. ~ HasTable(Printer)'
    BY <1>6, PhyloIds DEF PrinterGoes, HasTable
  <2>2. \A q : Asleep(q)' <=> Asleep(q)
    BY <1>6, AsleepIs, Zenon DEF Asleep
  <2>3. TokenOfTable'
    BY <1>1, <1>3, <1>6, <2>1, <2>2, TokenKept DEF Laid
  <2>. QED  BY <1>1, <1>2, <1>6, <2>3, OthersLaid
<1>. QED  BY <1>4, <1>5, <1>6 DEF Prints

\* Every step of the main program that calls nothing but the table's mutex, or nothing.
MainMoved(from, to) ==
  /\ mainPc = from /\ mainPc' = to /\ ~Asleep(Main)
  /\ Main \in Everybody
  /\ \A q \in Everybody \ {Main} : HasTable(q)' => HasTable(q)
  /\ HasTable(Main) <=> from \in {"adding", "added"}
  /\ HasTable(Main)' <=> to \in {"adding", "added"}

\* The main program moves alone.
LEMMA MainStep ==
  ASSUME NEW from, NEW to, mainPc = from, mainPc' = to, ~Asleep(Main),
         UNCHANGED <<philoPc, printerPc>>
  PROVE  MainMoved(from, to)
BY PhyloIds DEF MainMoved, MainGoes, HasTable, Everybody

\* Without a call nobody enters.
LEMMA MainToken ==
  ASSUME Laid, NEW from, NEW to, MainMoved(from, to), to \notin {"adding", "added"},
         UNCHANGED <<sync, removals>>
  PROVE  TokenOfTable'
<1>1. \A q : Asleep(q)' <=> Asleep(q)
  BY AsleepIs, Zenon DEF Asleep
<1>. QED  BY <1>1, TokenKept DEF Laid, MainMoved

\* The first step opens the table's mutex with one token, and nobody sits at the table.
LEMMA StartsLaid == PhyloInit /\ Starts => Laid'
<1>. SUFFICES ASSUME PhyloInit, Starts PROVE Laid'
  OBVIOUS
<1>1. /\ sync = [s \in SyncId |-> NoSync] /\ sync' = AfterOpen(sync, MUTEX_ID, 1)
      /\ mainPc' = "add" /\ actualPhilosopherCount' = 0 /\ printerPc' = "none"
      /\ philos' = [i \in Place |-> [pid |-> Main, state |-> "THINKING"]]
      /\ philoPc' = [p \in Philosopher |-> [at |-> "none", i |-> 0]]
      /\ leaving' = 0 /\ newPid' = FirstPid /\ removals' = 0
  BY DEF PhyloInit, SyncInit, PhyloVarsInit, Starts, MainGoes
<1>2. sync \in Semaphores /\ ~ Refused(sync, MUTEX_ID) /\ sync[MUTEX_ID] = NoSync
  BY <1>1, PhyloIds DEF Semaphores, Refused
<1>3. /\ sync' \in Semaphores /\ sync'[MUTEX_ID] \in Semaphore
      /\ \A t \in SyncId \ {MUTEX_ID} : sync'[t] = sync[t]
      /\ sync'[MUTEX_ID] = [value |-> 1, listeners |-> 1, blockedPIDs |-> <<>>]
  BY <1>1, <1>2, PhyloIds, AfterOpenDoes
<1>4. PhyloTyped'
  <2>1. 0 \in Nat /\ 0 < FirstPid /\ FirstPid >= FirstPid /\ FirstPid \in Nat
    BY PhyloAssumption
  <2>2. philos' \in [Place -> [pid : Nat, state : {"THINKING", "HUNGRY", "EATING"}]]
    BY <1>1, <2>1 DEF Main
  <2>3. philoPc' \in [Philosopher -> [at : PhiloLabel, i : Place]]
    BY <1>1, PhyloIds DEF PhiloLabel
  <2>4. \A i \in Place : philos'[i].pid < newPid'
    BY <1>1, <2>1 DEF Main
  <2>. QED  BY <1>1, <1>3, <2>1, <2>2, <2>3, <2>4, PhyloIds DEF PhyloTyped
<1>5. RoomAtTable'
  BY <1>1, PhyloIds DEF RoomAtTable
<1>6. SleepersEat'
  <2>1. \A i \in Place : sync'[Sem(i)] = NoSync
    BY <1>1, <1>3, PhyloIds
  <2>. QED  BY <2>1 DEF SleepersEat
<1>7. TokenOfTable'
  <2>1. \A q \in Everybody : ~ HasTable(q)'
    BY <1>1, PhyloIds DEF HasTable, InTable
  <2>2. Critical' = {}
    BY <2>1, CriticalIsNext
  <2>3. Cardinality({}) = 0
    BY FS_EmptySet
  <2>. QED  BY <1>1, <1>3, <2>2, <2>3, SyncAssumption DEF TokenOfTable
<1>8. ForksApart'
  BY <1>1 DEF ForksApart, Sitting
<1>. QED  BY <1>4, <1>5, <1>6, <1>7, <1>8 DEF Laid

\* The steps of the main program on the table's mutex, and those that only decide.
LEMMA MainLaid ==
  ASSUME Laid, AddWaits \/ AddPosts \/ CreatesPrinter \/ PressA \/ RemovePosts
  PROVE  Laid'
<1>1. CASE AddWaits
  <2>1. /\ MainMoved("add", "adding") /\ sync' = AfterWait(sync, MUTEX_ID, Main)
        /\ UNCHANGED <<tableVars, philos, philoPc, printerPc>>
    BY <1>1, MainStep DEF AddWaits, MainGoes
  <2>2. PlacesAlone /\ TokenOfTable'
    BY <2>1, TableWaits DEF Laid, MainMoved, tableVars
  <2>3. RoomAtTable' /\ (Undisturbed' => Undisturbed) /\ removals' \in Nat
    BY <2>1 DEF MainMoved, Laid, RoomAtTable, Undisturbed, PhyloTyped, tableVars
  <2>. QED  BY <2>1, <2>2, <2>3, OthersLaid DEF tableVars
<1>2. CASE AddPosts
  <2>. DEFINE to == IF actualPhilosopherCount < BASE_PHILOS THEN "add"
                    ELSE IF printerPc = "none" THEN "print" ELSE "getchar"
  <2>1. /\ mainPc = "added" /\ mainPc' = to /\ ~Asleep(Main) /\ sync' = AfterPost(sync, MUTEX_ID)
        /\ UNCHANGED <<tableVars, philos, philoPc, printerPc>>
    BY <1>2 DEF AddPosts, MainGoes
  <2>2. /\ to \in {"add", "print", "getchar"}
        /\ to = "add" => actualPhilosopherCount < MAX_PHILOS
        /\ to # "add" => actualPhilosopherCount >= BASE_PHILOS
    BY PhyloIds DEF Laid, PhyloTyped
  <2>. HIDE DEF to
  <2>3. /\ Main \in Everybody /\ HasTable(Main) /\ ~ HasTable(Main)'
        /\ \A q \in Everybody \ {Main} : HasTable(q)' => HasTable(q)
    BY <2>1, <2>2, PhyloIds DEF HasTable, Everybody
  <2>4. PlacesAlone /\ TokenOfTable'
    BY <2>1, <2>3, TablePosts DEF Laid, tableVars
  <2>5. RoomAtTable' /\ (Undisturbed' => Undisturbed) /\ removals' \in Nat
    BY <2>1, <2>2 DEF Laid, RoomAtTable, Undisturbed, PhyloTyped, tableVars
  <2>. QED  BY <2>1, <2>4, <2>5, OthersLaid DEF tableVars
<1>3. CASE CreatesPrinter
  <2>1. /\ mainPc = "print" /\ mainPc' = "getchar" /\ printerPc' = "loop" /\ UNCHANGED sync
        /\ UNCHANGED <<tableVars, philos, philoPc>>
    BY <1>3 DEF CreatesPrinter, MainGoes
  <2>2. \A q \in Everybody : HasTable(q)' => HasTable(q)
    BY <2>1, PhyloIds DEF HasTable, Everybody
  <2>3. \A q : Asleep(q)' <=> Asleep(q)
    BY <2>1, Zenon DEF Asleep
  <2>4. TokenOfTable'
    BY <2>1, <2>2, <2>3, TokenKept DEF Laid, tableVars
  <2>5. RoomAtTable' /\ (Undisturbed' => Undisturbed) /\ removals' \in Nat
    BY <2>1 DEF Laid, RoomAtTable, Undisturbed, PhyloTyped, tableVars
  <2>. QED  BY <2>1, <2>4, <2>5, OthersLaid DEF tableVars
<1>4. CASE PressA
  <2>. DEFINE to == IF actualPhilosopherCount = MAX_PHILOS THEN "getchar" ELSE "add"
  <2>1. /\ mainPc = "getchar" /\ mainPc' = to /\ UNCHANGED sync
        /\ UNCHANGED <<actualPhilosopherCount, newPid, leaving, problemRunning, philos, philoPc>>
        /\ UNCHANGED <<removals, printerPc>>
    BY <1>4 DEF PressA, Pressed, MainGoes
  <2>2. to \in {"getchar", "add"} /\ (to = "add" => actualPhilosopherCount < MAX_PHILOS)
    BY PhyloIds DEF Laid, PhyloTyped
  <2>. HIDE DEF to
  <2>3. \A q \in Everybody : HasTable(q)' => HasTable(q)
    BY <2>1, <2>2, PhyloIds DEF HasTable, Everybody
  <2>4. \A q : Asleep(q)' <=> Asleep(q)
    BY <2>1, Zenon DEF Asleep
  <2>5. TokenOfTable'
    BY <2>1, <2>3, <2>4, TokenKept DEF Laid
  <2>6. RoomAtTable' /\ (Undisturbed' => Undisturbed) /\ removals' \in Nat
    BY <2>1, <2>2 DEF Laid, RoomAtTable, Undisturbed, PhyloTyped
  <2>. QED  BY <2>1, <2>5, <2>6, OthersLaid
<1>5. CASE RemovePosts
  <2>1. /\ mainPc = "removed" /\ mainPc' = "getchar" /\ sync' = AfterPost(sync, MUTEX_ID)
        /\ removals' = removals + 1
        /\ UNCHANGED <<actualPhilosopherCount, newPid, leaving, problemRunning, philos, philoPc>>
        /\ UNCHANGED printerPc
    BY <1>5 DEF RemovePosts, MainGoes
  <2>2. \A q \in Everybody : HasTable(q)' => HasTable(q)
    BY <2>1, PhyloIds DEF HasTable, Everybody
  <2>3. PlacesAlone /\ TokenOfTable'
    BY <2>1, <2>2, RemoverPosts DEF Laid
  <2>4. RoomAtTable' /\ (Undisturbed' => Undisturbed) /\ removals' \in Nat
    BY <2>1 DEF Laid, RoomAtTable, Undisturbed, PhyloTyped
  <2>. QED  BY <2>1, <2>3, <2>4, OthersLaid
<1>. QED  BY <1>1, <1>2, <1>3, <1>4, <1>5

\* Those who are neighbours when one more sits down were so before, but for the new one.
LEMMA OneMoreChair ==
  ASSUME actualPhilosopherCount \in Nat, actualPhilosopherCount' = actualPhilosopherCount + 1,
         NEW i \in Sitting, NEW j \in Sitting, Neighbours(i, j)'
  PROVE  Neighbours(i, j)
<1>. DEFINE n == actualPhilosopherCount
<1>0. n \in Nat \ {0} /\ i \in 0 .. n - 1 /\ j \in 0 .. n - 1 /\ actualPhilosopherCount' = n + 1
  BY DEF Sitting
<1>1. i # j /\ (j = (i + 1) % (n + 1) \/ j = (i + (n + 1) - 1) % (n + 1))
  BY <1>0 DEF Neighbours, RIGHT, LEFT
<1>2. RIGHT(i) = (i + 1) % n /\ LEFT(i) = (i + n - 1) % n
  BY DEF RIGHT, LEFT
<1>. HIDE DEF n
<1>3. (i + 1) % (n + 1) = i + 1 /\ (i + (n + 1) - 1) % (n + 1) = IF i = 0 THEN n ELSE i - 1
  BY <1>0
<1>4. (i + 1) % n = IF i = n - 1 THEN 0 ELSE i + 1
  BY <1>0
<1>5. (i + n - 1) % n = IF i = 0 THEN n - 1 ELSE i - 1
  BY <1>0
<1>6. CASE j = i + 1
  BY <1>0, <1>1, <1>2, <1>4, <1>6 DEF Neighbours
<1>7. CASE j = i - 1
  BY <1>0, <1>1, <1>2, <1>5, <1>7 DEF Neighbours
<1>. QED  BY <1>0, <1>1, <1>3, <1>6, <1>7

\* addPhilosopher: the new process sits down at the next place, which nobody eats at.
LEMMA AddsLaid == Laid /\ Adds => Laid'
<1>. SUFFICES ASSUME Laid, Adds PROVE Laid'
  OBVIOUS
<1>. DEFINE n == actualPhilosopherCount
<1>1. /\ mainPc = "adding" /\ mainPc' = "added"
      /\ sync' = AfterOpen(sync, Sem(n), 1)
      /\ philos' = [philos EXCEPT ![n] = [pid |-> newPid, state |-> "THINKING"]]
      /\ philoPc' = [philoPc EXCEPT ![newPid] = [at |-> "loop", i |-> n]]
      /\ actualPhilosopherCount' = n + 1 /\ newPid' = newPid + 1
      /\ UNCHANGED <<printerPc, leaving, problemRunning, presses, removals>>
  BY DEF Adds, MainGoes
<1>2. /\ n \in Nat /\ n < MAX_PHILOS /\ n \in Place /\ MAX_PHILOS \in Nat
      /\ newPid \in Nat /\ newPid >= FirstPid /\ FirstPid \in Nat
      /\ philos \in [Place -> [pid : Nat, state : {"THINKING", "HUNGRY", "EATING"}]]
      /\ philoPc \in [Philosopher -> [at : PhiloLabel, i : Place]]
      /\ \A i \in Place : philos[i].pid < newPid /\ philos[i].pid \in Nat
  BY <1>1, PhyloIds DEF Laid, PhyloTyped, RoomAtTable, Place
<1>3. \A p \in Philosopher : philoPc[p].at # "none" => p < newPid /\ p # newPid
  BY <1>2, PhyloIds DEF Laid, RoomAtTable
<1>4. [at |-> "loop", i |-> n] \in [at : PhiloLabel, i : Place]
  BY <1>2 DEF PhiloLabel
<1>5. /\ philoPc' \in [Philosopher -> [at : PhiloLabel, i : Place]]
      /\ \A p \in Philosopher : p # newPid => philoPc'[p] = philoPc[p]
      /\ newPid \in Philosopher => philoPc'[newPid] = [at |-> "loop", i |-> n]
  BY <1>1, <1>2, <1>4
<1>6. /\ philos' \in [Place -> [pid : Nat, state : {"THINKING", "HUNGRY", "EATING"}]]
      /\ \A i \in Place : i # n => philos'[i] = philos[i]
      /\ philos'[n] = [pid |-> newPid, state |-> "THINKING"]
  BY <1>1, <1>2
<1>7. ForkCall(Sem(n))
  BY <1>1, <1>2, PhyloIds, ForkOpen DEF Laid, PhyloTyped
<1>8. \A q \in Everybody : HasTable(q)' => HasTable(q)
  <2>1. newPid \in Philosopher => philoPc'[newPid].at \notin InTable
    BY <1>5 DEF InTable
  <2>. QED  BY <1>1, <1>5, <2>1, PhyloIds DEF HasTable, Everybody
<1>9. TokenOfTable'
  BY <1>1, <1>2, <1>7, <1>8, PlaceCalled DEF Laid
<1>10. SleepersEat'
  <2>1. \A q \in Philosopher : philoPc[q].at \in {"eat", "dead"} => philoPc'[q].at \in {"eat", "dead"}
    BY <1>3, <1>5
  <2>2. \A i \in Place : \A q : InLine(sync', Sem(i), q) => InLine(sync, Sem(i), q)
    BY <1>2, <1>7, SameLines
  <2>. QED  BY <2>1, <2>2, SleepersKept DEF Laid
<1>11. RoomAtTable'
  <2>1. \A p \in Philosopher : philoPc'[p].at # "none" => p < newPid + 1
    BY <1>2, <1>3, <1>5, PhyloIds
  <2>. QED  BY <1>1, <1>2, <2>1 DEF RoomAtTable
<1>12. PhyloTyped'
  <2>1. \A i \in Place : philos'[i].pid < newPid + 1
    BY <1>2, <1>6
  <2>2. sync' \in Semaphores
    BY <1>7 DEF ForkCall
  <2>. QED  BY <1>1, <1>2, <1>5, <1>6, <2>1, <2>2 DEF Laid, PhyloTyped
<1>13. ForksApart'
  <2>. SUFFICES ASSUME Undisturbed'
                PROVE  /\ \A p \in Philosopher : philoPc'[p].at # "none" => philoPc'[p].i \in Sitting'
                       /\ \A i, j \in Sitting' : Neighbours(i, j)' =>
                            ~(philos'[i].state = "EATING" /\ philos'[j].state = "EATING")
    BY DEF ForksApart
  <2>1. Undisturbed
    BY <1>1 DEF Undisturbed
  <2>2. Sitting' = Sitting \cup {n} /\ n \notin Sitting /\ Sitting \subseteq Place
    BY <1>1, <1>2 DEF Sitting, Place
  <2>3. \A p \in Philosopher : philoPc'[p].at # "none" => philoPc'[p].i \in Sitting'
    <3>. SUFFICES ASSUME NEW p \in Philosopher, philoPc'[p].at # "none" PROVE philoPc'[p].i \in Sitting'
      OBVIOUS
    <3>1. CASE p = newPid
      BY <1>5, <2>2, <3>1
    <3>2. CASE p # newPid
      BY <1>5, <2>1, <2>2, <3>2 DEF Laid, ForksApart
    <3>. QED  BY <3>1, <3>2
  <2>4. ASSUME NEW i \in Sitting', NEW j \in Sitting', Neighbours(i, j)',
               philos'[i].state = "EATING", philos'[j].state = "EATING"
        PROVE  FALSE
    <3>1. i \in Sitting /\ j \in Sitting
      BY <1>6, <2>2, <2>4
    <3>2. Neighbours(i, j)
      BY <1>1, <1>2, <2>4, <3>1, OneMoreChair
    <3>3. philos[i].state = "EATING" /\ philos[j].state = "EATING"
      BY <1>6, <2>2, <2>4, <3>1
    <3>. QED  BY <2>1, <3>1, <3>2, <3>3 DEF Laid, ForksApart
  <2>. QED  BY <2>3, <2>4
<1>. QED  BY <1>9, <1>10, <1>11, <1>12, <1>13 DEF Laid

\* removePhilosopher while the program runs: the table is disturbed from here on.
LEMMA RemovesLaid ==
  ASSUME Laid, problemRunning, PressD \/ ClosesPlace \/ KillsPhilosopher
  PROVE  Laid'
<1>1. CASE PressD
  <2>0. /\ mainPc = "getchar" /\ UNCHANGED <<sync, philos, philoPc, printerPc, newPid, removals>>
        /\ ~Asleep(Main)
    BY <1>1 DEF PressD, Pressed, MainGoes
  <2>1. \/ mainPc' = "getchar" /\ UNCHANGED <<actualPhilosopherCount, leaving>>
        \/ /\ mainPc' = "sClose" /\ actualPhilosopherCount # BASE_PHILOS
           /\ actualPhilosopherCount' = actualPhilosopherCount - 1
           /\ leaving' = actualPhilosopherCount - 1
    BY <1>1 DEF PressD, Pressed, MainGoes
  <2>2. actualPhilosopherCount \in Nat /\ actualPhilosopherCount >= BASE_PHILOS /\ actualPhilosopherCount <= MAX_PHILOS
    BY <2>0, PhyloIds DEF Laid, PhyloTyped, RoomAtTable
  <2>3. /\ actualPhilosopherCount' \in 0 .. MAX_PHILOS /\ leaving' \in Place
        /\ actualPhilosopherCount' >= BASE_PHILOS /\ actualPhilosopherCount' >= 1
    BY <2>1, <2>2, PhyloIds DEF Laid, PhyloTyped, Place
  <2>4. TokenOfTable'
    <3>1. \A q \in Everybody : HasTable(q)' => HasTable(q)
      BY <2>0, <2>1, PhyloIds DEF HasTable, Everybody
    <3>2. \A q : Asleep(q)' <=> Asleep(q)
      BY <2>0, Zenon DEF Asleep
    <3>. QED  BY <2>0, <3>1, <3>2, TokenKept DEF Laid
  <2>5. SleepersEat'
    BY <2>0, SameLines, SleepersKept DEF Laid
  <2>6. PhyloTyped'
    BY <2>0, <2>3 DEF Laid, PhyloTyped
  <2>7. RoomAtTable'
    BY <2>0, <2>1, <2>3 DEF Laid, RoomAtTable
  <2>8. ForksApart'
    <3>1. CASE mainPc' = "getchar" /\ UNCHANGED <<actualPhilosopherCount, leaving>>
      <4>1. Undisturbed' => Undisturbed
        BY <2>0, <3>1 DEF Undisturbed
      <4>. QED  BY <2>0, <3>1, <4>1, ForksKept DEF Laid, PhyloTyped
    <3>2. CASE mainPc' = "sClose"
      BY <3>2 DEF ForksApart, Undisturbed
    <3>. QED  BY <2>1, <3>1, <3>2
  <2>. QED  BY <2>4, <2>5, <2>6, <2>7, <2>8 DEF Laid
<1>2. CASE ClosesPlace
  <2>1. /\ mainPc = "sClose" /\ mainPc' = "kill" /\ sync' = AfterClose(sync, Sem(leaving))
        /\ UNCHANGED <<tableVars, philos, philoPc, printerPc>>
    BY <1>2 DEF ClosesPlace, MainGoes
  <2>2. PICK i \in Place : i = leaving
    BY DEF Laid, PhyloTyped
  <2>3. ForkCall(Sem(i))
    BY <2>1, <2>2, PhyloIds, ForkClose DEF Laid, PhyloTyped
  <2>4. \A q \in Everybody : HasTable(q)' => HasTable(q)
    BY <2>1, PhyloIds DEF HasTable, Everybody
  <2>5. TokenOfTable'
    BY <2>1, <2>3, <2>4, PlaceCalled DEF Laid, tableVars
  <2>6. RoomAtTable' /\ (Undisturbed' => Undisturbed) /\ removals' \in Nat
    BY <2>1 DEF Laid, RoomAtTable, Undisturbed, PhyloTyped, tableVars
  <2>. QED  BY <2>1, <2>3, <2>5, <2>6, OthersLaid DEF tableVars
<1>3. CASE KillsPhilosopher
  <2>. DEFINE k == philos[leaving].pid
  <2>1. /\ mainPc = "kill" /\ mainPc' = "removed" /\ ~Asleep(Main)
        /\ philoPc' = [philoPc EXCEPT ![k].at = "dead"]
        /\ UNCHANGED <<sync, actualPhilosopherCount, philos, printerPc, problemRunning, newPid,
                 presses, removals, leaving>>
    BY <1>3 DEF KillsPhilosopher, MainGoes
  <2>2. /\ philoPc \in [Philosopher -> [at : PhiloLabel, i : Place]]
        /\ philoPc' \in [Philosopher -> [at : PhiloLabel, i : Place]]
        /\ \A p \in Philosopher : p # k => philoPc'[p] = philoPc[p]
        /\ k \in Philosopher => philoPc'[k].at = "dead"
        /\ k \in Nat /\ k < newPid
    BY <2>1 DEF Laid, PhyloTyped, PhiloLabel
  <2>. HIDE DEF k
  <2>3. TokenOfTable'
    <3>1. \A q \in Everybody : HasTable(q)' => HasTable(q)
      <4>1. k \in Philosopher => philoPc'[k].at \notin InTable
        BY <2>2 DEF InTable
      <4>. QED  BY <2>1, <2>2, <4>1, PhyloIds DEF HasTable, Everybody
    <3>2. \A q : Asleep(q)' <=> Asleep(q)
      BY <2>1, Zenon DEF Asleep
    <3>. QED  BY <2>1, <3>1, <3>2, TokenKept DEF Laid
  <2>4. SleepersEat'
    BY <2>1, <2>2, SameLines, SleepersKept DEF Laid
  <2>5. PhyloTyped'
    BY <2>1, <2>2 DEF Laid, PhyloTyped
  <2>6. RoomAtTable'
    <3>1. actualPhilosopherCount >= BASE_PHILOS /\ actualPhilosopherCount >= 1
      BY <2>1, PhyloIds DEF Laid, PhyloTyped, RoomAtTable
    <3>. QED  BY <2>1, <2>2, <3>1 DEF Laid, RoomAtTable
  <2>7. ForksApart'
    BY <2>1 DEF ForksApart, Undisturbed
  <2>. QED  BY <2>3, <2>4, <2>5, <2>6, <2>7 DEF Laid
<1>. QED  BY <1>1, <1>2, <1>3

\* Nothing else happens before the table is laid.
LEMMA StartOnly == PhyloInit /\ PhyloNext => Starts
<1>. SUFFICES ASSUME PhyloInit, PhyloNext PROVE Starts
  OBVIOUS
<1>1. /\ mainPc = "start" /\ printerPc = "none"
      /\ \A p \in Philosopher : philoPc[p].at = "none"
  BY DEF PhyloInit, PhyloVarsInit
<1>2. \A p \in Philosopher : ~ Philosophizes(p)
  BY <1>1 DEF Philosophizes, TakeForks, PlaceForks, Leaves, WaitsTable, PostsTable, Becomes, TestsAt,
              PhiloGoes, At
<1>3. ~ Prints
  BY <1>1 DEF Prints, PrinterGoes
<1>4. ~ PressA /\ ~ PressD /\ ~ PressQ
  BY <1>1 DEF PressA, PressD, PressQ, Pressed, MainGoes
<1>5. MainRuns
  BY <1>2, <1>3, <1>4 DEF PhyloNext
<1>. QED  BY <1>1, <1>5 DEF MainRuns, AddWaits, Adds, AddPosts, CreatesPrinter, ClosesPlace,
            KillsPhilosopher, RemovePosts, KillsPrinter, ClosesTable, MainGoes

\* The invariant says that the table is safe.
LEMMA LaidIsSafe == PhyloInv => TableIsSafe
BY DEF PhyloInv, PhyloInit, PhyloVarsInit, TableIsSafe, Laid, TokenOfTable, ForksApart, Undisturbed

\* Each removal adds at most one token to the table's mutex, so that nobody shares it
\* before the first one, and until then two neighbours are never both EATING, although
\* philosophers join: for every number of philosophers at the start and at most, every
\* number of keys, and whichever keys.
THEOREM TableStaysSafe == PhyloSpec => []TableIsSafe
<1>1. PhyloInit => PhyloInv
  BY DEF PhyloInit, PhyloVarsInit, PhyloInv
<1>2. PhyloInv /\ [PhyloNext]_allPhyloVars => PhyloInv'
  <2>. SUFFICES ASSUME PhyloInv, [PhyloNext]_allPhyloVars PROVE PhyloInv'
    OBVIOUS
  <2>1. CASE UNCHANGED allPhyloVars
    <3>1. UNCHANGED <<sync, actualPhilosopherCount, philos, philoPc, printerPc, mainPc, leaving,
                      problemRunning, newPid, presses, removals>>
      BY <2>1 DEF allPhyloVars, phyloVars
    <3>2. Laid <=> Laid'
      BY <3>1 DEF Laid, PhyloTyped, RoomAtTable, SleepersEat, TokenOfTable, ForksApart, Undisturbed,
                  Sitting, Neighbours, LEFT, RIGHT, Critical, At, Asleep
    <3>. QED  BY <3>1, <3>2 DEF PhyloInv, PhyloInit, SyncInit, PhyloVarsInit
  <2>2. CASE PhyloNext /\ mainPc = "start"
    <3>1. PhyloInit /\ Starts
      BY <2>2, StartOnly DEF PhyloInv
    <3>2. Laid' /\ mainPc' # "start"
      BY <3>1, StartsLaid DEF Starts, MainGoes
    <3>. QED  BY <3>2 DEF PhyloInv
  <2>3. CASE PhyloNext /\ mainPc # "start"
    <3>1. mainPc' # "start" /\ (problemRunning' => problemRunning)
      BY <2>3 DEF PhyloNext, Philosophizes, Prints, MainRuns, Starts, AddWaits, Adds, AddPosts,
           CreatesPrinter, ClosesPlace, KillsPhilosopher, RemovePosts, KillsPrinter, ClosesTable,
           PressA, PressD, PressQ, Pressed, MainGoes, tableVars
    <3>2. SUFFICES ASSUME problemRunning, problemRunning' PROVE Laid'
      BY <3>1 DEF PhyloInv
    <3>3. Laid
      BY <2>3, <3>2 DEF PhyloInv
    <3>4. ~ Starts /\ ~ KillsPrinter /\ ~ ClosesTable /\ ~ PressQ
      BY <2>3, <3>2, <3>3 DEF Starts, KillsPrinter, ClosesTable, PressQ, MainGoes, Laid, RoomAtTable
    <3>. QED  BY <2>3, <3>2, <3>3, <3>4, PhilosophizesLaid, PrintsLaid, MainLaid, AddsLaid, RemovesLaid
              DEF PhyloNext, MainRuns
  <2>. QED  BY <2>1, <2>2, <2>3
<1>. QED  BY <1>1, <1>2, LaidIsSafe, PTL DEF PhyloSpec

-----------------------------------------------------------------------------
(***************************************************************************)
(* memtest.                                                                *)
(***************************************************************************)
\* The cells of a request, the requests that were not freed yet, and their blocks.
CellsOf(rqs, i) == rqs[i].address .. rqs[i].address + rqs[i].size - 1
Kept == {i \in DOMAIN mm_rqs : memPc = "free" => memI <= i}
BlockOf(rqs, i) == <<rqs[i].address, rqs[i].size>>

MemTypes ==
  /\ mm_rqs \in Seq([address : Nat, size : Nat \ {0}])
  /\ total \in Nat /\ (mm_rqs = <<>> => total = 0)
  /\ bytes = [c \in 0 .. Units - 1 |-> bytes[c]]
  /\ \/ memPc \in {"request", "no memory"} /\ memI = 1
     \/ memPc \in {"set", "check", "free"} /\ memI \in DOMAIN mm_rqs

\* The blocks of the round are in the heap, apart, and those not freed are in use, next to
\* what others use.
MemBlocks ==
  /\ \A i \in DOMAIN mm_rqs : CellsOf(mm_rqs, i) \subseteq 0 .. Units - 1
  /\ \A i, j \in DOMAIN mm_rqs : i # j => CellsOf(mm_rqs, i) \cap CellsOf(mm_rqs, j) = {}
  /\ \A i \in Kept : BlockOf(mm_rqs, i) \notin Other
  /\ blocks = Other \cup {BlockOf(mm_rqs, i) : i \in Kept}

\* A block that was set holds its number.
MemFilled ==
  \A i \in DOMAIN mm_rqs :
    (memPc = "set" /\ i < memI) \/ memPc = "check" => \A c \in CellsOf(mm_rqs, i) : bytes[c] = i

MemInv == MemTypes /\ MemBlocks /\ MemFilled

\* A request is a block that is not empty.
LEMMA RequestsAre ==
  ASSUME MemTypes
  PROVE  /\ Len(mm_rqs) \in Nat /\ DOMAIN mm_rqs = 1 .. Len(mm_rqs)
         /\ \A i \in DOMAIN mm_rqs :
              /\ i \in Nat /\ mm_rqs[i].address \in Nat /\ mm_rqs[i].size \in Nat \ {0}
              /\ mm_rqs[i].address \in CellsOf(mm_rqs, i)
<1>1. mm_rqs \in Seq([address : Nat, size : Nat \ {0}])
  BY DEF MemTypes
<1>2. Len(mm_rqs) \in Nat /\ DOMAIN mm_rqs = 1 .. Len(mm_rqs)
  BY <1>1
<1>3. ASSUME NEW i \in DOMAIN mm_rqs
      PROVE  mm_rqs[i].address \in Nat /\ mm_rqs[i].size \in Nat \ {0}
  <2>1. mm_rqs[i] \in [address : Nat, size : Nat \ {0}]
    BY <1>1, <1>2, ElementOfSeq
  <2>. QED  BY <2>1
<1>4. \A i \in DOMAIN mm_rqs : mm_rqs[i].address \in CellsOf(mm_rqs, i)
  BY <1>3 DEF CellsOf
<1>. QED  BY <1>2, <1>3, <1>4

\* Two blocks of a round are not the same.
LEMMA BlocksDiffer ==
  ASSUME MemTypes, MemBlocks, NEW i \in DOMAIN mm_rqs, NEW j \in DOMAIN mm_rqs, i # j
  PROVE  BlockOf(mm_rqs, i) # BlockOf(mm_rqs, j)
<1>1. mm_rqs[i].address \in CellsOf(mm_rqs, i) /\ mm_rqs[i].address \notin CellsOf(mm_rqs, j)
  BY RequestsAre DEF MemBlocks
<1>2. mm_rqs[j].address \in CellsOf(mm_rqs, j)
  BY RequestsAre
<1>. QED  BY <1>1, <1>2 DEF BlockOf

\* The invariant says that the test finds what it wrote.
LEMMA MemInvPasses == MemInv => BlocksKeepTheirBytes
<1>. SUFFICES ASSUME MemInv PROVE BlocksKeepTheirBytes
  OBVIOUS
<1>. USE DEF MemInv
<1>1. memPc = "check" => memcheck(mm_rqs[memI].address, memI, mm_rqs[memI].size)
  BY DEF MemTypes, MemFilled, CellsOf, memcheck
<1>2. ASSUME NEW i \in DOMAIN mm_rqs, NEW j \in DOMAIN mm_rqs, i # j
      PROVE  \/ mm_rqs[i].address + mm_rqs[i].size <= mm_rqs[j].address
             \/ mm_rqs[j].address + mm_rqs[j].size <= mm_rqs[i].address
  <2>1. PICK a \in Nat, s \in Nat \ {0} : a = mm_rqs[i].address /\ s = mm_rqs[i].size
    BY RequestsAre
  <2>2. PICK b \in Nat, t \in Nat \ {0} : b = mm_rqs[j].address /\ t = mm_rqs[j].size
    BY RequestsAre
  <2>3. (a .. a + s - 1) \cap (b .. b + t - 1) = {}
    BY <1>2, <2>1, <2>2 DEF MemBlocks, CellsOf
  <2>4. a \notin b .. b + t - 1 /\ b \notin a .. a + s - 1
    BY <2>3
  <2>5. a + s <= b \/ b + t <= a
    BY <2>4
  <2>. QED  BY <2>1, <2>2, <2>5
<1>3. memPc = "request" /\ mm_rqs = <<>> => blocks = Other
  BY DEF MemBlocks, Kept
<1>. QED  BY <1>1, <1>2, <1>3 DEF BlocksKeepTheirBytes

\* No block, no byte.
LEMMA MemInit == TestMemInit => MemInv
BY DEF TestMemInit, MemInv, MemTypes, MemBlocks, MemFilled, Kept

\* A new block comes from a gap: it is apart from those the round has.
LEMMA RequestBlockKeeps ==
  ASSUME MemInv, NEW size \in Sizes, RequestBlock(size)
  PROVE  MemInv'
<1>. USE DEF MemInv
<1>1. size \in Nat \ {0} /\ Units \in Nat
  BY TestMemAssumption
<1>2. PICK a \in Gaps(size) : blocks' = blocks \cup {<<a, size>>} /\ answer' = a
  BY DEF RequestBlock, Give
<1>3. /\ a \in Nat /\ a .. a + size - 1 \subseteq 0 .. Units - 1
      /\ (a .. a + size - 1) \cap Used = {} /\ a \in a .. a + size - 1
  BY <1>1, <1>2 DEF Gaps
<1>. DEFINE new == [address |-> a, size |-> size]
            n == Len(mm_rqs) + 1
<1>4. /\ memPc = "request" /\ memI = 1 /\ memPc' = memPc /\ memI' = memI /\ bytes' = bytes
      /\ mm_rqs' = Append(mm_rqs, new) /\ total' = total + size
  BY <1>2 DEF RequestBlock, MemTypes
<1>5. /\ Len(mm_rqs) \in Nat /\ DOMAIN mm_rqs = 1 .. Len(mm_rqs)
      /\ DOMAIN mm_rqs' = DOMAIN mm_rqs \cup {n} /\ n \notin DOMAIN mm_rqs
      /\ mm_rqs'[n] = new /\ \A i \in DOMAIN mm_rqs : mm_rqs'[i] = mm_rqs[i]
  <2>1. mm_rqs \in Seq([address : Nat, size : Nat \ {0}])
    BY DEF MemTypes
  <2>. HIDE DEF new
  <2>. QED  BY <1>4, <2>1
<1>6. mm_rqs' \in Seq([address : Nat, size : Nat \ {0}]) /\ mm_rqs' # <<>> /\ total' \in Nat
  BY <1>1, <1>3, <1>4, <1>5 DEF MemTypes
<1>7. MemTypes'
  BY <1>4, <1>6 DEF MemTypes
<1>8. /\ CellsOf(mm_rqs', n) = a .. a + size - 1 /\ BlockOf(mm_rqs', n) = <<a, size>>
      /\ \A i \in DOMAIN mm_rqs : CellsOf(mm_rqs', i) = CellsOf(mm_rqs, i) /\ BlockOf(mm_rqs', i) = BlockOf(mm_rqs, i)
  BY <1>5 DEF CellsOf, BlockOf
<1>9. Kept = DOMAIN mm_rqs /\ Kept' = DOMAIN mm_rqs'
  BY <1>4 DEF Kept
<1>10. \A i \in DOMAIN mm_rqs : CellsOf(mm_rqs, i) \subseteq Used
  <2>1. \A i \in DOMAIN mm_rqs : BlockOf(mm_rqs, i) \in blocks /\ Cells(BlockOf(mm_rqs, i)) = CellsOf(mm_rqs, i)
    BY <1>9 DEF MemBlocks, Cells, BlockOf, CellsOf
  <2>. QED  BY <2>1 DEF Used
<1>11. <<a, size>> \notin Other
  <2>1. ASSUME <<a, size>> \in Other PROVE FALSE
    <3>1. <<a, size>> \in blocks /\ a \in Cells(<<a, size>>)
      BY <1>3, <2>1 DEF MemBlocks, Cells
    <3>. QED  BY <1>3, <3>1 DEF Used
  <2>. QED  BY <2>1
<1>. HIDE DEF n
<1>12. MemBlocks'
  <2>1. \A i \in DOMAIN mm_rqs' : CellsOf(mm_rqs', i) \subseteq 0 .. Units - 1
    BY <1>3, <1>5, <1>8 DEF MemBlocks
  <2>2. \A i, j \in DOMAIN mm_rqs' : i # j => CellsOf(mm_rqs', i) \cap CellsOf(mm_rqs', j) = {}
    BY <1>3, <1>5, <1>8, <1>10 DEF MemBlocks
  <2>3. \A i \in Kept' : BlockOf(mm_rqs', i) \notin Other
    BY <1>5, <1>8, <1>9, <1>11 DEF MemBlocks
  <2>4. blocks' = Other \cup {BlockOf(mm_rqs', i) : i \in Kept'}
    <3>1. {BlockOf(mm_rqs', i) : i \in Kept'} = {BlockOf(mm_rqs, i) : i \in Kept} \cup {<<a, size>>}
      BY <1>5, <1>8, <1>9
    <3>. QED  BY <1>2, <3>1 DEF MemBlocks
  <2>. QED  BY <2>1, <2>2, <2>3, <2>4 DEF MemBlocks
<1>13. MemFilled'
  BY <1>4 DEF MemFilled
<1>. QED  BY <1>7, <1>12, <1>13

\* What the loops leave alone.
LEMMA RoundKeeps ==
  ASSUME MemInv, UNCHANGED <<blocks, mm_rqs, total>>, memPc # "free",
         memPc' = "free" => memI' = 1
  PROVE  MemBlocks'
<1>1. Kept = DOMAIN mm_rqs /\ Kept' = Kept
  <2>1. \A i \in DOMAIN mm_rqs : i \in Nat /\ 1 <= i
    BY RequestsAre DEF MemInv
  <2>. QED  BY <2>1 DEF Kept
<1>. QED  BY <1>1 DEF MemInv, MemBlocks

\* When the requests end there are some.
LEMMA StartSettingKeeps == MemInv /\ StartSetting => MemInv'
<1>. SUFFICES ASSUME MemInv, StartSetting PROVE MemInv'
  OBVIOUS
<1>. USE DEF MemInv
<1>1. /\ memPc = "request" /\ memI = 1 /\ memPc' = "set" /\ memI' = 1
      /\ UNCHANGED <<blocks, mm_rqs, total, bytes>>
  BY DEF StartSetting, MemTypes
<1>2. 1 \in DOMAIN mm_rqs
  <2>1. mm_rqs # <<>>
    <3>1. ASSUME mm_rqs = <<>> PROVE FALSE
      <4>1. Len(mm_rqs) = 0 /\ total = 0
        BY <3>1 DEF MemTypes
      <4>2. 0 < MAX_BLOCKS /\ 0 < MAX_MEMORY
        BY TestMemAssumption
      <4>. QED  BY <4>1, <4>2 DEF StartSetting, MoreRequests
    <3>. QED  BY <3>1
  <2>2. mm_rqs \in Seq([address : Nat, size : Nat \ {0}])
    BY DEF MemTypes
  <2>. QED  BY <2>1, <2>2
<1>3. MemTypes'
  BY <1>1, <1>2 DEF MemTypes
<1>4. MemBlocks'
  BY <1>1, RoundKeeps
<1>5. MemFilled'
  <2>1. \A i \in DOMAIN mm_rqs : i \in Nat /\ ~(i < 1)
    BY RequestsAre
  <2>. QED  BY <1>1, <2>1 DEF MemFilled
<1>. QED  BY <1>3, <1>4, <1>5

\* Setting a block leaves the others as they are.
LEMMA SetBlockKeeps == MemInv /\ SetBlock => MemInv'
<1>. SUFFICES ASSUME MemInv, SetBlock PROVE MemInv'
  OBVIOUS
<1>. USE DEF MemInv
<1>1. /\ memPc = "set" /\ memI \in DOMAIN mm_rqs
      /\ UNCHANGED <<blocks, mm_rqs, total>>
      /\ bytes' = [a \in DOMAIN bytes |-> IF a \in CellsOf(mm_rqs, memI) THEN memI ELSE bytes[a]]
      /\ (memPc' = "set" /\ memI' = memI + 1 /\ memI < Len(mm_rqs))
           \/ (memPc' = "check" /\ memI' = 1 /\ ~(memI < Len(mm_rqs)))
  BY DEF SetBlock, LoopTo, MemTypes, memoryset, CellsOf
<1>2. /\ Len(mm_rqs) \in Nat /\ DOMAIN mm_rqs = 1 .. Len(mm_rqs) /\ memI \in Nat
      /\ \A i \in DOMAIN mm_rqs : i \in Nat
  BY <1>1, RequestsAre
<1>3. memI' \in DOMAIN mm_rqs
  BY <1>1, <1>2
<1>4. DOMAIN bytes = 0 .. Units - 1 /\ bytes' = [c \in 0 .. Units - 1 |-> bytes'[c]]
  BY <1>1 DEF MemTypes
<1>5. MemTypes'
  BY <1>1, <1>3, <1>4 DEF MemTypes
<1>6. MemBlocks'
  BY <1>1, RoundKeeps
<1>7. ASSUME NEW i \in DOMAIN mm_rqs, NEW c \in CellsOf(mm_rqs, i),
             (memPc' = "set" /\ i < memI') \/ memPc' = "check"
      PROVE  bytes'[c] = i
  <2>1. c \in DOMAIN bytes
    BY <1>4 DEF MemBlocks
  <2>2. CASE i = memI
    BY <1>1, <2>1, <2>2
  <2>3. CASE i # memI
    <3>1. c \notin CellsOf(mm_rqs, memI)
      BY <1>1, <2>3 DEF MemBlocks
    <3>2. i < memI
      BY <1>1, <1>2, <1>7, <2>3
    <3>. QED  BY <1>1, <2>1, <3>1, <3>2 DEF MemFilled
  <2>. QED  BY <2>2, <2>3
<1>8. MemFilled'
  BY <1>1, <1>7 DEF MemFilled
<1>. QED  BY <1>5, <1>6, <1>8

\* Checking a block changes nothing.
LEMMA CheckBlockKeeps == MemInv /\ CheckBlock => MemInv'
<1>. SUFFICES ASSUME MemInv, CheckBlock PROVE MemInv'
  OBVIOUS
<1>. USE DEF MemInv
<1>1. /\ memPc = "check" /\ memI \in DOMAIN mm_rqs
      /\ UNCHANGED <<blocks, mm_rqs, total, bytes>>
      /\ (memPc' = "check" /\ memI' = memI + 1 /\ memI < Len(mm_rqs))
           \/ (memPc' = "free" /\ memI' = 1 /\ ~(memI < Len(mm_rqs)))
  BY DEF CheckBlock, LoopTo, MemTypes
<1>2. memI' \in DOMAIN mm_rqs
  BY <1>1, RequestsAre
<1>3. MemTypes'
  BY <1>1, <1>2 DEF MemTypes
<1>4. MemBlocks'
  BY <1>1, RoundKeeps
<1>5. MemFilled'
  BY <1>1 DEF MemFilled
<1>. QED  BY <1>3, <1>4, <1>5

\* A block that is given back is that one and no other; after the last a round begins.
LEMMA FreeBlockKeeps == MemInv /\ FreeBlock => MemInv'
<1>. SUFFICES ASSUME MemInv, FreeBlock PROVE MemInv'
  OBVIOUS
<1>. USE DEF MemInv
<1>1. /\ memPc = "free" /\ memI \in DOMAIN mm_rqs /\ bytes' = bytes
      /\ blocks' = blocks \ {BlockOf(mm_rqs, memI)}
  BY DEF FreeBlock, Free, MemTypes, BlockOf
<1>2. /\ Len(mm_rqs) \in Nat /\ DOMAIN mm_rqs = 1 .. Len(mm_rqs) /\ memI \in Nat
  BY <1>1, RequestsAre
<1>3. /\ memI \in Kept /\ BlockOf(mm_rqs, memI) \notin Other
      /\ \A i \in Kept : i # memI => BlockOf(mm_rqs, i) # BlockOf(mm_rqs, memI)
  <2>1. memI \in Kept /\ Kept \subseteq DOMAIN mm_rqs
    BY <1>1, <1>2 DEF Kept
  <2>. QED  BY <1>1, <2>1, BlocksDiffer DEF MemBlocks
<1>4. blocks' = Other \cup {BlockOf(mm_rqs, i) : i \in Kept \ {memI}}
  BY <1>1, <1>3 DEF MemBlocks
<1>5. CASE memI < Len(mm_rqs)
  <2>1. memI' = memI + 1 /\ UNCHANGED <<mm_rqs, total, memPc>>
    BY <1>5 DEF FreeBlock
  <2>2. MemTypes'
    BY <1>1, <1>2, <1>5, <2>1 DEF MemTypes
  <2>3. Kept' = Kept \ {memI}
    BY <1>1, <1>2, <2>1 DEF Kept
  <2>4. MemBlocks'
    BY <1>4, <2>1, <2>3 DEF MemBlocks
  <2>5. MemFilled'
    BY <1>1, <2>1 DEF MemFilled
  <2>. QED  BY <2>2, <2>4, <2>5
<1>6. CASE ~(memI < Len(mm_rqs))
  <2>1. memI' = 1 /\ mm_rqs' = <<>> /\ total' = 0 /\ memPc' = "request"
    BY <1>6 DEF FreeBlock
  <2>2. MemTypes'
    BY <1>1, <2>1 DEF MemTypes
  <2>3. Kept \ {memI} = {}
    BY <1>1, <1>2, <1>6 DEF Kept
  <2>4. MemBlocks' /\ MemFilled'
    BY <1>4, <2>1, <2>3 DEF MemBlocks, MemFilled, Kept
  <2>. QED  BY <2>2, <2>4
<1>. QED  BY <1>5, <1>6

\* Every step keeps the invariant.
LEMMA MemStepKeeps == MemInv /\ [TestMemNext]_memTestVars => MemInv'
<1>. SUFFICES ASSUME MemInv, [TestMemNext]_memTestVars PROVE MemInv'
  OBVIOUS
<1>1. ASSUME NEW size \in Sizes, NoMemory(size) PROVE MemInv'
  <2>1. /\ memPc = "request" /\ memI = 1 /\ memPc' = "no memory"
        /\ UNCHANGED <<blocks, mm_rqs, total, bytes, memI>>
    BY <1>1 DEF NoMemory, Refuse, MemInv, MemTypes
  <2>2. MemTypes' /\ MemFilled'
    BY <2>1 DEF MemInv, MemTypes, MemFilled
  <2>. QED  BY <2>1, <2>2, RoundKeeps DEF MemInv
<1>2. CASE UNCHANGED memTestVars
  BY <1>2 DEF memTestVars, MemInv, MemTypes, MemBlocks, MemFilled, Kept
<1>. QED  BY <1>1, <1>2, RequestBlockKeeps, StartSettingKeeps, SetBlockKeeps, CheckBlockKeeps,
             FreeBlockKeeps DEF TestMemNext

-----------------------------------------------------------------------------
(***************************************************************************)
(* schedtest.                                                              *)
(***************************************************************************)
\* Those of the processes that the program takes for alive, and those that are.
Mine   == {i \in Index : p_rqs[i].state \in {"RUNNING", "BLOCKED"}}
Living == {pid \in DOMAIN table : table[pid] # "KILLED"}

ProcTypes ==
  /\ table \in [DOMAIN table -> {"READY", "BLOCKED", "KILLED"}]
  /\ DOMAIN table \subseteq FirstTestPid .. nextPid - 1 /\ nextPid \in Nat /\ nextPid >= FirstTestPid
  /\ p_rqs \in [Index -> [pid : Nat, state : {"ERROR", "RUNNING", "BLOCKED", "KILLED"}]]
  /\ rq \in Index
  /\ testPc \in {"create", "act", "unblock", "Error creating process"}

\* Each of them is a process of its own, in that state; there are no others, and those that
\* are yet to be created in this round are none of the last.
ProcAccount ==
  /\ \A i \in Mine : /\ p_rqs[i].pid \in Living
                     /\ table[p_rqs[i].pid] = IF p_rqs[i].state = "RUNNING" THEN "READY" ELSE "BLOCKED"
  /\ \A i, j \in Mine : p_rqs[i].pid = p_rqs[j].pid => i = j
  /\ \A pid \in Living : \E i \in Mine : p_rqs[i].pid = pid
  /\ alive = Cardinality(Living)
  /\ testPc = "create" => \A i \in Mine : i < rq

ProcInv == ProcTypes /\ ProcAccount

\* The process table is finite.
LEMMA LivingFinite == ProcTypes => IsFiniteSet(Living) /\ Cardinality(Living) \in Nat
<1>. SUFFICES ASSUME ProcTypes PROVE IsFiniteSet(Living) /\ Cardinality(Living) \in Nat
  OBVIOUS
<1>1. IsFiniteSet(FirstTestPid .. nextPid - 1)
  <2>1. PICK n \in Nat : n = nextPid
    BY DEF ProcTypes
  <2>2. FirstTestPid \in Int /\ nextPid - 1 \in Int
    BY <2>1 DEF FirstTestPid
  <2>. QED  BY <2>2, FS_Interval
<1>2. Living \subseteq FirstTestPid .. nextPid - 1
  BY DEF ProcTypes, Living
<1>. QED  BY <1>1, <1>2, FS_Subset, FS_CardinalityType

\* The invariant says that the account is true.
LEMMA ProcInvPasses == ProcInv => AccountIsTrue
BY DEF ProcInv, ProcTypes, ProcAccount, AccountIsTrue, Mine, Living

\* No process, no account.
LEMMA ProcInit == TestProcessesInit => ProcInv
<1>. SUFFICES ASSUME TestProcessesInit PROVE ProcInv
  OBVIOUS
<1>1. Living = {} /\ Mine = {} /\ DOMAIN table = {}
  BY DEF TestProcessesInit, Living, Mine
<1>2. Cardinality({}) = 0 /\ 0 \in Index
  BY FS_EmptySet, TestProcessesAssumption DEF Index
<1>3. ProcTypes
  BY <1>1, <1>2 DEF TestProcessesInit, ProcTypes, FirstTestPid
<1>4. ProcAccount
  BY <1>1, <1>2 DEF TestProcessesInit, ProcAccount
<1>. QED  BY <1>3, <1>4 DEF ProcInv

\* The loop goes on with the next process, or from the first in another one.
LEMMA NextIndexIs ==
  ASSUME ProcTypes, NEW to, NextIndex(to)
  PROVE  /\ rq' \in Index
         /\ (rq' = rq + 1 /\ testPc' = testPc) \/ (rq' = 0 /\ testPc' = to)
<1>1. rq \in Int /\ 0 <= rq /\ rq <= MAX_PROCESSES - 1 /\ MAX_PROCESSES \in Nat \ {0}
  <2>1. rq \in Index
    BY DEF ProcTypes
  <2>2. MAX_PROCESSES \in 1 .. 255
    BY TestProcessesAssumption
  <2>. QED  BY <2>1, <2>2 DEF Index
<1>2. CASE rq < MAX_PROCESSES - 1
  <2>1. rq' = rq + 1 /\ testPc' = testPc
    BY <1>2 DEF NextIndex
  <2>. QED  BY <1>1, <1>2, <2>1 DEF Index
<1>3. CASE ~ (rq < MAX_PROCESSES - 1)
  <2>1. rq' = 0 /\ testPc' = to
    BY <1>3 DEF NextIndex
  <2>. QED  BY <1>1, <2>1 DEF Index
<1>. QED  BY <1>2, <1>3

\* Nobody is alive when alive is 0.
LEMMA NobodyLives ==
  ASSUME ProcInv, Mine # {}
  PROVE  alive > 0
<1>1. Living # {}
  BY DEF ProcInv, ProcAccount
<1>2. IsFiniteSet(Living) /\ Cardinality(Living) \in Nat /\ Cardinality(Living) # 0
  BY <1>1, LivingFinite, FS_EmptySet DEF ProcInv
<1>. QED  BY <1>2 DEF ProcInv, ProcAccount

\* A process that is created is a new one.
LEMMA CreatesKeeps == ProcInv /\ Creates => ProcInv'
<1>. SUFFICES ASSUME ProcInv, Creates PROVE ProcInv'
  OBVIOUS
<1>. USE DEF ProcInv
<1>1. /\ testPc = "create" /\ nextPid \in Nat /\ rq \in Index /\ nextPid \notin DOMAIN table
      /\ table' = [pid \in DOMAIN table \cup {nextPid} |->
                     IF pid = nextPid THEN "READY" ELSE table[pid]]
      /\ p_rqs' = [p_rqs EXCEPT ![rq] = [pid |-> nextPid, state |-> "RUNNING"]]
      /\ nextPid' = nextPid + 1 /\ alive' = alive + 1
      /\ rq' \in Index /\ testPc' \in {"create", "act"} /\ (testPc' = "create" => rq' = rq + 1)
  BY NextIndexIs DEF Creates, ProcTypes
<1>2. ProcTypes'
  <2>1. table' \in [DOMAIN table' -> {"READY", "BLOCKED", "KILLED"}]
    BY <1>1 DEF ProcTypes
  <2>2. DOMAIN table' \subseteq FirstTestPid .. nextPid' - 1 /\ nextPid' \in Nat /\ nextPid' >= FirstTestPid
    BY <1>1 DEF ProcTypes, FirstTestPid
  <2>3. p_rqs' \in [Index -> [pid : Nat, state : {"ERROR", "RUNNING", "BLOCKED", "KILLED"}]]
    BY <1>1 DEF ProcTypes
  <2>. QED  BY <1>1, <2>1, <2>2, <2>3 DEF ProcTypes
<1>3. \A i \in Mine : i \in Index /\ i < rq /\ i # rq
  BY <1>1 DEF ProcAccount, Mine, Index
<1>4. /\ \A i \in Index : i # rq => p_rqs'[i] = p_rqs[i]
      /\ p_rqs'[rq].pid = nextPid /\ p_rqs'[rq].state = "RUNNING"
  BY <1>1 DEF ProcTypes
<1>5. Mine' = Mine \cup {rq}
  BY <1>1, <1>3, <1>4 DEF Mine
<1>6. Living' = Living \cup {nextPid} /\ nextPid \notin Living
  BY <1>1 DEF Living
<1>7. alive' = Cardinality(Living')
  BY <1>1, <1>6, LivingFinite, FS_AddElement DEF ProcAccount
<1>8. ASSUME NEW i \in Mine
      PROVE  /\ p_rqs'[i] = p_rqs[i] /\ p_rqs[i].pid \in Living
             /\ table'[p_rqs[i].pid] = table[p_rqs[i].pid]
  BY <1>1, <1>3, <1>4 DEF ProcAccount, Living
<1>9. table'[nextPid] = "READY"
  BY <1>1
<1>10. ProcAccount'
  <2>1. \A i \in Mine' : /\ p_rqs'[i].pid \in Living'
          /\ table'[p_rqs'[i].pid] = IF p_rqs'[i].state = "RUNNING" THEN "READY" ELSE "BLOCKED"
    BY <1>4, <1>5, <1>6, <1>8, <1>9 DEF ProcAccount
  <2>2. \A i, j \in Mine' : p_rqs'[i].pid = p_rqs'[j].pid => i = j
    BY <1>4, <1>5, <1>6, <1>8 DEF ProcAccount
  <2>3. \A pid \in Living' : \E i \in Mine' : p_rqs'[i].pid = pid
    BY <1>4, <1>5, <1>6, <1>8 DEF ProcAccount
  <2>4. testPc' = "create" => \A i \in Mine' : i < rq'
    <3>1. \A i \in Index : i \in Int
      BY DEF Index
    <3>. QED  BY <1>1, <1>3, <1>5, <3>1
  <2>. QED  BY <1>7, <2>1, <2>2, <2>3, <2>4 DEF ProcAccount
<1>. QED  BY <1>2, <1>10

\* A call on one of its processes changes the state of that one, here and there.
LEMMA ChangeKeeps ==
  ASSUME ProcInv, NEW there, NEW here, rq \in Mine,
         <<here, there>> \in {<<"RUNNING", "READY">>, <<"BLOCKED", "BLOCKED">>, <<"KILLED", "KILLED">>},
         SetState(there), SetOf(here), UNCHANGED nextPid,
         alive' = IF here = "KILLED" THEN alive - 1 ELSE alive,
         rq' \in Index, testPc' \in {"act", "unblock"}
  PROVE  ProcInv'
<1>. USE DEF ProcInv
<1>. DEFINE pid == p_rqs[rq].pid
<1>1. /\ rq \in Index /\ pid \in DOMAIN table /\ pid \in Living
      /\ here \in {"RUNNING", "BLOCKED", "KILLED"} /\ there \in {"READY", "BLOCKED", "KILLED"}
      /\ (here = "KILLED" <=> there = "KILLED")
      /\ (there = IF here = "RUNNING" THEN "READY" ELSE here)
  BY DEF ProcTypes, ProcAccount, Living
<1>2. /\ table' = [table EXCEPT ![pid] = there] /\ p_rqs' = [p_rqs EXCEPT ![rq].state = here]
  BY DEF SetState, SetOf
<1>3. /\ DOMAIN table' = DOMAIN table /\ table'[pid] = there
      /\ \A p \in DOMAIN table : p # pid => table'[p] = table[p]
  BY <1>1, <1>2 DEF ProcTypes
<1>4. /\ p_rqs' \in [Index -> [pid : Nat, state : {"ERROR", "RUNNING", "BLOCKED", "KILLED"}]]
      /\ \A i \in Index : p_rqs'[i].pid = p_rqs[i].pid
      /\ p_rqs'[rq].state = here
      /\ \A i \in Index : i # rq => p_rqs'[i].state = p_rqs[i].state
  BY <1>1, <1>2 DEF ProcTypes
<1>5. ProcTypes'
  BY <1>1, <1>2, <1>3, <1>4 DEF ProcTypes
<1>6. Mine' = IF here = "KILLED" THEN Mine \ {rq} ELSE Mine
  BY <1>1, <1>4 DEF Mine
<1>7. Living' = IF here = "KILLED" THEN Living \ {pid} ELSE Living
  BY <1>1, <1>3 DEF Living
<1>8. alive' = Cardinality(Living')
  BY <1>1, <1>7, LivingFinite, FS_RemoveElement DEF ProcAccount
<1>9. \A i \in Mine : i \in Index /\ p_rqs[i].pid \in Living /\ p_rqs[i].pid \in DOMAIN table
                        /\ (i # rq => p_rqs[i].pid # pid)
  BY DEF ProcAccount, Mine, Living
<1>10. ProcAccount'
  <2>1. \A i \in Mine' : /\ p_rqs'[i].pid \in Living'
          /\ table'[p_rqs'[i].pid] = IF p_rqs'[i].state = "RUNNING" THEN "READY" ELSE "BLOCKED"
    <3>1. ASSUME NEW i \in Mine', i # rq
          PROVE  /\ p_rqs'[i].pid \in Living'
                 /\ table'[p_rqs'[i].pid] = IF p_rqs'[i].state = "RUNNING" THEN "READY" ELSE "BLOCKED"
      BY <1>3, <1>4, <1>6, <1>7, <1>9, <3>1 DEF ProcAccount
    <3>2. ASSUME rq \in Mine'
          PROVE  /\ p_rqs'[rq].pid \in Living'
                 /\ table'[p_rqs'[rq].pid] = IF p_rqs'[rq].state = "RUNNING" THEN "READY" ELSE "BLOCKED"
      BY <1>1, <1>3, <1>4, <1>6, <1>7, <1>9, <3>2
    <3>. QED  BY <3>1, <3>2
  <2>2. \A i, j \in Mine' : p_rqs'[i].pid = p_rqs'[j].pid => i = j
    BY <1>4, <1>6, <1>9 DEF ProcAccount
  <2>3. \A p \in Living' : \E i \in Mine' : p_rqs'[i].pid = p
    <3>1. ASSUME NEW p \in Living' PROVE \E i \in Mine' : p_rqs'[i].pid = p
      <4>1. PICK i \in Mine : p_rqs[i].pid = p
        BY <1>7, <3>1 DEF ProcAccount
      <4>2. i \in Mine'
        BY <1>6, <1>7, <3>1, <4>1
      <4>. QED  BY <1>4, <1>9, <4>1, <4>2
    <3>. QED  BY <3>1
  <2>. QED  BY <1>8, <2>1, <2>2, <2>3 DEF ProcAccount
<1>. QED  BY <1>5, <1>10

\* A step that changes neither the table nor the account.
LEMMA LoopKeeps ==
  ASSUME ProcInv, UNCHANGED <<table, nextPid, p_rqs, alive>>, rq' \in Index,
         testPc' \in {"act", "unblock", "Error creating process"} \/ (testPc' = "create" /\ Mine = {})
  PROVE  ProcInv'
<1>1. Mine' = Mine /\ Living' = Living
  BY DEF Mine, Living
<1>. QED  BY <1>1 DEF ProcInv, ProcTypes, ProcAccount

\* Freeing a dead process is nothing to the program.
LEMMA FreesKeeps == ASSUME ProcInv, NEW pid, Frees(pid) PROVE ProcInv'
<1>1. /\ pid \in DOMAIN table /\ table[pid] = "KILLED"
      /\ table' = [p \in DOMAIN table \ {pid} |-> table[p]]
      /\ UNCHANGED <<nextPid, p_rqs, rq, alive, testPc>>
  BY DEF Frees
<1>2. Mine' = Mine /\ Living' = Living
  BY <1>1 DEF Mine, Living
<1>3. \A p \in Living : table'[p] = table[p]
  BY <1>1 DEF Living
<1>4. ProcTypes'
  BY <1>1 DEF ProcInv, ProcTypes
<1>5. ProcAccount'
  BY <1>1, <1>2, <1>3 DEF ProcInv, ProcAccount
<1>. QED  BY <1>4, <1>5 DEF ProcInv

\* One of its processes, as the table has it, answers.
LEMMA MineAnswer == ASSUME ProcInv, rq \in Mine PROVE Answers(p_rqs[rq].pid)
BY DEF ProcInv, ProcAccount, Living, Answers

\* Every step keeps the invariant.
LEMMA ProcStepKeeps == ProcInv /\ [TestProcessesNext]_procTestVars => ProcInv'
<1>. SUFFICES ASSUME ProcInv, [TestProcessesNext]_procTestVars PROVE ProcInv'
  OBVIOUS
<1>1. ProcTypes /\ rq \in Index
  BY DEF ProcInv, ProcTypes
<1>2. CASE Creates
  BY <1>2, CreatesKeeps
<1>3. CASE CreationFails
  BY <1>1, <1>3, LoopKeeps DEF CreationFails, Ends
<1>4. CASE Kills
  <2>1. rq \in Mine
    BY <1>1, <1>4 DEF Kills, Mine
  <2>2. /\ SetState("KILLED") /\ SetOf("KILLED") /\ alive' = alive - 1 /\ UNCHANGED nextPid
        /\ NextIndex("unblock") /\ testPc = "act"
    BY <1>4, <2>1, MineAnswer DEF Kills
  <2>3. rq' \in Index /\ testPc' \in {"act", "unblock"}
    BY <1>1, <2>2, NextIndexIs
  <2>. QED  BY <2>1, <2>2, <2>3, ChangeKeeps
<1>5. CASE Blocks
  <2>1. rq \in Mine
    BY <1>1, <1>5 DEF Blocks, Mine
  <2>2. /\ SetState("BLOCKED") /\ SetOf("BLOCKED") /\ UNCHANGED <<nextPid, alive>>
        /\ NextIndex("unblock") /\ testPc = "act"
    BY <1>5, <2>1, MineAnswer DEF Blocks
  <2>3. rq' \in Index /\ testPc' \in {"act", "unblock"}
    BY <1>1, <2>2, NextIndexIs
  <2>. QED  BY <2>1, <2>2, <2>3, ChangeKeeps
<1>6. CASE PassesBy
  <2>1. testPc = "act" /\ NextIndex("unblock") /\ UNCHANGED <<table, nextPid, p_rqs, alive>>
    BY <1>6 DEF PassesBy
  <2>2. rq' \in Index /\ testPc' \in {"act", "unblock"}
    BY <1>1, <2>1, NextIndexIs
  <2>. QED  BY <2>1, <2>2, LoopKeeps
<1>7. CASE Unblocks
  <2>1. rq \in Mine
    BY <1>1, <1>7 DEF Unblocks, Mine
  <2>2. /\ SetState("READY") /\ SetOf("RUNNING") /\ UNCHANGED <<nextPid, alive>>
        /\ NextIndex("act") /\ testPc = "unblock"
    BY <1>7, <2>1, MineAnswer, NobodyLives DEF Unblocks, AfterRound
  <2>3. rq' \in Index /\ testPc' \in {"act", "unblock"}
    BY <1>1, <2>2, NextIndexIs
  <2>. QED  BY <2>1, <2>2, <2>3, ChangeKeeps
<1>8. CASE LeavesBlocked
  <2>1. testPc = "unblock" /\ NextIndex(AfterRound) /\ UNCHANGED <<table, nextPid, p_rqs, alive>>
    BY <1>8 DEF LeavesBlocked
  <2>2. rq' \in Index /\ testPc' \in {"unblock", AfterRound}
    BY <1>1, <2>1, NextIndexIs
  <2>3. AfterRound = "act" \/ (AfterRound = "create" /\ Mine = {})
    BY NobodyLives DEF AfterRound
  <2>. QED  BY <2>1, <2>2, <2>3, LoopKeeps
<1>9. CASE UNCHANGED procTestVars
  BY <1>9 DEF procTestVars, ProcInv, ProcTypes, ProcAccount, Mine, Living
<1>. QED  BY <1>2, <1>3, <1>4, <1>5, <1>6, <1>7, <1>8, <1>9, FreesKeeps DEF TestProcessesNext

\* memtest never finds a block that it did not write or cannot give back, and schedtest
\* never a process in another state than it left it in, whatever the sizes, the number of
\* processes and the time at which the dead are freed: neither prints its error messages.
THEOREM TestsNeverFail == TestMemSpec /\ TestProcessesSpec => []TestsPass
<1>1. TestMemSpec => []MemInv
  BY MemInit, MemStepKeeps, PTL DEF TestMemSpec
<1>2. TestProcessesSpec => []ProcInv
  BY ProcInit, ProcStepKeeps, PTL DEF TestProcessesSpec
<1>3. MemInv /\ ProcInv => TestsPass
  BY MemInvPasses, ProcInvPasses DEF TestsPass
<1>. QED  BY <1>1, <1>2, <1>3, PTL

(***************************************************************************)
(* The image.  Each module is where the sizes before it say, in the packed *)
(* file and, until its turn comes, in memory: the copies of the earlier    *)
(* ones go above all of it.                                                *)
(***************************************************************************)
Modules == 1 .. extraBinaries
IsReadable == readable = DOMAIN files

\* The cell with the size of the n-th module, when all are packed.
SizeCell(n) == KernelSize + n + (IF n > 1 THEN Len(files[2]) ELSE 0)
                              + (IF n > 2 THEN Len(files[3]) ELSE 0)

FilesOK ==
  /\ files \in Seq(Seq(Nat)) /\ Len(files) \in 1 .. 3
  /\ Len(files[1]) = KernelSize
  /\ \A n \in Modules : Len(files[n + 1]) <= MaxModule

PackedOK ==
  /\ packed \in Seq(Nat)
  /\ appended \in 0 .. extraBinaries
  /\ stage \in {"pack", "no image"} => packed = <<>> /\ appended = 0
  /\ stage \notin {"pack", "no image"} => IsReadable /\ Len(packed) = SizeCell(appended + 1)
  /\ stage \notin {"pack", "no image", "append"} => appended = extraBinaries

\* What the packed file says, in n modules, of the cells of m, offset cells further on.
Holds(m, offset, n) ==
  /\ \A i \in 1 .. KernelSize : m[i - 1 + offset] = files[1][i]
  /\ m[KernelSize + offset] = extraBinaries
  /\ \A k \in 1 .. n :
       /\ m[SizeCell(k) + offset] = Len(files[k + 1])
       /\ \A i \in 1 .. Len(files[k + 1]) : m[SizeCell(k) + i + offset] = files[k + 1][i]

PackedHolds == stage \notin {"pack", "no image"} => Holds(packed, 1, appended)

MemoryOK ==
  /\ memory \in [0 .. MemorySize - 1 -> Nat]
  /\ stage \in {"count", "load"} => Holds(memory, 0, extraBinaries)

\* The n-th module is where it runs.
Arrived(n) == \A i \in 1 .. Len(files[n + 1]) : memory[moduleAddresses[n] + i - 1] = files[n + 1][i]

LoadOK ==
  /\ loaded \in Nat /\ left \in Nat /\ current \in Nat
  /\ stage \in {"pack", "no image", "append", "count"} => loaded = 0
  /\ stage = "count" => current = KernelSize
  /\ stage \in {"load", "main"} => loaded + left = extraBinaries
  /\ stage = "load" => current = SizeCell(loaded + 1)
  /\ \A n \in 1 .. loaded : Arrived(n)

StageOK ==
  /\ stage \in {"pack", "no image", "append", "count", "load", "main"}
  /\ stage = "main" =>
       /\ left = 0
       /\ \A i \in 1 .. KernelSize : memory[i - 1] = files[1][i]
       /\ \A a \in Bss .. EndOfKernel - 1 : memory[a] = 0

ImageInv == FilesOK /\ PackedOK /\ PackedHolds /\ MemoryOK /\ LoadOK /\ StageOK

-----------------------------------------------------------------------------
\* The sizes are where the modules end, one after the other, below the first target.
LEMMA SizeCells ==
  ASSUME FilesOK
  PROVE  /\ extraBinaries \in 0 .. 2
         /\ \A n \in Modules :
              /\ Len(files[n + 1]) \in 0 .. MaxModule
              /\ SizeCell(n + 1) = SizeCell(n) + 1 + Len(files[n + 1])
         /\ SizeCell(extraBinaries + 1) \in Nat
         /\ \A n \in 1 .. extraBinaries + 1 :
              /\ SizeCell(n) \in KernelSize + 1 .. SizeCell(extraBinaries + 1)
              /\ SizeCell(n) <= sampleCodeModuleAddress
<1>1. extraBinaries \in 0 .. 2 /\ Len(files) = extraBinaries + 1
  BY DEF FilesOK, extraBinaries
<1>2. \A n \in Modules : Len(files[n + 1]) \in 0 .. MaxModule
  <2>. SUFFICES ASSUME NEW n \in Modules PROVE Len(files[n + 1]) \in 0 .. MaxModule
    OBVIOUS
  <2>1. n + 1 \in 1 .. Len(files)
    BY <1>1 DEF Modules
  <2>2. files[n + 1] \in Seq(Nat)
    BY <2>1, ElementOfSeq DEF FilesOK
  <2>. QED  BY <2>2, LenProperties, ImageAssumption DEF FilesOK
<1>3. 1 \in Modules => Len(files[2]) \in 0 .. MaxModule
  BY <1>2
<1>4. 2 \in Modules => Len(files[3]) \in 0 .. MaxModule
  BY <1>2
<1>5. /\ SizeCell(1) = KernelSize + 1
      /\ 1 \in Modules => SizeCell(2) = KernelSize + 2 + Len(files[2])
      /\ 2 \in Modules => SizeCell(3) = KernelSize + 3 + Len(files[2]) + Len(files[3])
  <2>1. 2 \in Modules => 1 \in Modules
    BY <1>1 DEF Modules
  <2>. QED  BY <1>3, <1>4, <2>1, ImageAssumption DEF SizeCell
<1>6. CASE extraBinaries = 0
  <2>1. Modules = {} /\ 1 .. extraBinaries + 1 = {1}
    BY <1>6 DEF Modules
  <2>. QED  BY <1>5, <1>6, <2>1, ImageAssumption
<1>7. CASE extraBinaries = 1
  <2>1. Modules = {1} /\ 1 .. extraBinaries + 1 = {1, 2} /\ extraBinaries + 1 = 2
    BY <1>7 DEF Modules
  <2>2. 1 \in Modules /\ 1 + 1 = 2
    BY <2>1
  <2>3. PICK l \in 0 .. MaxModule : l = Len(files[2])
    BY <1>3, <2>2
  <2>4. SizeCell(1) = KernelSize + 1 /\ SizeCell(2) = KernelSize + 2 + l
    BY <1>5, <2>2, <2>3
  <2>5. /\ SizeCell(2) \in Nat /\ SizeCell(2) = SizeCell(1) + 1 + l
        /\ \A n \in {1, 2} : SizeCell(n) \in KernelSize + 1 .. SizeCell(2) /\ SizeCell(n) <= sampleCodeModuleAddress
    BY <2>4, ImageAssumption
  <2>. QED  BY <1>1, <1>2, <2>1, <2>2, <2>3, <2>5
<1>8. CASE extraBinaries = 2
  <2>1. Modules = {1, 2} /\ 1 .. extraBinaries + 1 = {1, 2, 3} /\ extraBinaries + 1 = 3
    BY <1>8 DEF Modules
  <2>2. 1 \in Modules /\ 2 \in Modules /\ 1 + 1 = 2 /\ 2 + 1 = 3
    BY <2>1
  <2>3. PICK l \in 0 .. MaxModule : l = Len(files[2])
    BY <1>3, <2>2
  <2>4. PICK k \in 0 .. MaxModule : k = Len(files[3])
    BY <1>4, <2>2
  <2>5. SizeCell(1) = KernelSize + 1 /\ SizeCell(2) = KernelSize + 2 + l /\ SizeCell(3) = KernelSize + 3 + l + k
    BY <1>5, <2>2, <2>3, <2>4
  <2>6. /\ SizeCell(3) \in Nat /\ SizeCell(2) = SizeCell(1) + 1 + l /\ SizeCell(3) = SizeCell(2) + 1 + k
        /\ \A n \in {1, 2, 3} : SizeCell(n) \in KernelSize + 1 .. SizeCell(3) /\ SizeCell(n) <= sampleCodeModuleAddress
    BY <2>5, ImageAssumption
  <2>. QED  BY <1>1, <1>2, <2>1, <2>2, <2>3, <2>4, <2>6
<1>. QED  BY <1>1, <1>6, <1>7, <1>8

\* The files do not change.
LEMMA SameFiles ==
  ASSUME FilesOK, UNCHANGED <<files, readable>>
  PROVE  /\ FilesOK' /\ extraBinaries' = extraBinaries /\ Modules' = Modules
         /\ (IsReadable <=> IsReadable') /\ \A n : SizeCell(n)' = SizeCell(n)
BY DEF FilesOK, extraBinaries, Modules, IsReadable, SizeCell

\* The files are as they are chosen.
LEMMA InitImage == ImageInit => ImageInv
<1>. SUFFICES ASSUME ImageInit PROVE ImageInv
  OBVIOUS
<1>1. PICK m \in UNION {[1 .. n -> FileContents(0 .. MaxModule)] : n \in 0 .. Len(moduleAddresses)} :
        files = <<KernelBinary>> \o m
  BY DEF ImageInit
<1>2. PICK n \in 0 .. 2 : m \in [1 .. n -> FileContents(0 .. MaxModule)]
  BY <1>1 DEF moduleAddresses
<1>3. \A c \in FileContents(0 .. MaxModule) : c \in Seq(Nat) /\ Len(c) <= MaxModule
  <2>. SUFFICES ASSUME NEW c \in FileContents(0 .. MaxModule) PROVE c \in Seq(Nat) /\ Len(c) <= MaxModule
    OBVIOUS
  <2>1. PICK k \in 0 .. MaxModule : c \in [1 .. k -> Byte]
    BY DEF FileContents
  <2>2. k \in Nat /\ c \in [1 .. k -> Nat]
    <3>1. k \in Nat
      BY ImageAssumption
    <3>2. [1 .. k -> Byte] \subseteq [1 .. k -> Nat]
      BY ByteAssumption
    <3>. QED  BY <2>1, <3>1, <3>2
  <2>3. c \in Seq(Nat)
    BY <2>2
  <2>4. Len(c) = k
    BY <2>1, <2>3, LenProperties, ImageAssumption
  <2>. QED  BY <2>1, <2>3, <2>4
<1>4. KernelBinary \in Seq(Nat) /\ Len(KernelBinary) = KernelSize
  BY ImageAssumption DEF KernelBinary
<1>5. m \in Seq(Seq(Nat)) /\ Len(m) = n
  <2>1. m \in [1 .. n -> Seq(Nat)] /\ n \in Nat
    BY <1>2, <1>3
  <2>2. m \in Seq(Seq(Nat))
    BY <2>1
  <2>. QED  BY <2>1, <2>2, LenProperties
<1>6. FilesOK
  <2>1. files \in Seq(Seq(Nat)) /\ Len(files) = 1 + n
    BY <1>1, <1>4, <1>5
  <2>2. files[1] = KernelBinary
    BY <1>1, <1>4, <1>5
  <2>3. \A k \in 1 .. n : files[k + 1] = m[k]
    BY <1>1, <1>2, <1>4, <1>5
  <2>4. \A k \in 1 .. n : Len(m[k]) <= MaxModule
    BY <1>2, <1>3
  <2>5. extraBinaries = n /\ Len(files) \in 1 .. 3
    BY <2>1 DEF extraBinaries
  <2>6. \A k \in Modules : Len(files[k + 1]) <= MaxModule
    BY <2>3, <2>4, <2>5 DEF Modules
  <2>. QED  BY <1>4, <2>1, <2>2, <2>5, <2>6 DEF FilesOK
<1>7. extraBinaries \in 0 .. 2
  BY <1>6, SizeCells
<1>. QED
  BY <1>6, <1>7, ImageAssumption, ByteAssumption
  DEF ImageInv, ImageInit, ImageStart, PackedOK, PackedHolds, MemoryOK, LoadOK, StageOK

\* The kernel and the number of modules.
LEMMA BuildsImage == ImageInv /\ buildImage => ImageInv'
<1>. SUFFICES ASSUME ImageInv, buildImage PROVE ImageInv'
  OBVIOUS
<1>. USE DEF ImageInv, buildImage
<1>1. FilesOK' /\ extraBinaries' = extraBinaries /\ (IsReadable <=> IsReadable')
        /\ \A n : SizeCell(n)' = SizeCell(n)
  BY SameFiles
<1>2. extraBinaries \in Nat /\ SizeCell(1) = KernelSize + 1
  BY SizeCells, ImageAssumption DEF SizeCell
<1>3. files[1] \in Seq(Nat) /\ Len(files[1]) = KernelSize
  BY DEF FilesOK
<1>4. packed' = files[1] \o <<extraBinaries>>
  BY DEF write_file, write_uint32
<1>5. /\ packed' \in Seq(Nat) /\ Len(packed') = KernelSize + 1
      /\ \A i \in 1 .. KernelSize : packed'[i] = files[1][i]
      /\ packed'[KernelSize + 1] = extraBinaries
  BY <1>2, <1>3, <1>4
<1>6. PackedOK'
  BY <1>1, <1>2, <1>5 DEF PackedOK, checkFiles, IsReadable
<1>7. PackedHolds'
  <2>1. appended' = 0
    BY DEF PackedOK
  <2>2. \A i \in 1 .. KernelSize : packed'[i - 1 + 1] = files[1][i]
    <3>1. \A i \in 1 .. KernelSize : i - 1 + 1 = i
      BY ImageAssumption
    <3>. QED  BY <1>5, <3>1
  <2>3. Holds(packed', 1, 0)
    <3>1. 1 .. 0 = {}
      OBVIOUS
    <3>. QED  BY <1>5, <2>2, <3>1 DEF Holds
  <2>. QED  BY <2>1, <2>3 DEF PackedHolds, Holds, SizeCell, extraBinaries
<1>8. MemoryOK' /\ LoadOK' /\ StageOK'
  BY <1>1 DEF MemoryOK, LoadOK, StageOK, Arrived, kernelVars
<1>. QED  BY <1>1, <1>6, <1>7, <1>8

\* A number and a file at the end of another one.
LEMMA Concatenated ==
  ASSUME NEW s \in Seq(Nat), NEW x \in Nat, NEW f \in Seq(Nat)
  PROVE  LET r == s \o <<x>> \o f IN
           /\ r \in Seq(Nat) /\ Len(r) = Len(s) + 1 + Len(f)
           /\ \A i \in 1 .. Len(s) : r[i] = s[i]
           /\ r[Len(s) + 1] = x
           /\ \A i \in 1 .. Len(f) : r[Len(s) + i + 1] = f[i]
<1>. DEFINE h == s \o <<x>>
            r == h \o f
<1>1. /\ h \in Seq(Nat) /\ Len(h) = Len(s) + 1
      /\ \A i \in 1 .. Len(s) : h[i] = s[i]
      /\ h[Len(s) + 1] = x
  OBVIOUS
<1>. HIDE DEF h
<1>2. r \in Seq(Nat) /\ Len(r) = Len(h) + Len(f)
  BY <1>1, ConcatProperties
<1>3. \A i \in 1 .. Len(h) : r[i] = h[i]
  BY <1>1, ConcatProperties
<1>4. \A i \in 1 .. Len(f) : r[Len(h) + i] = f[i]
  BY <1>1, ConcatProperties
<1>5. Len(s) \in Nat /\ Len(f) \in Nat
  OBVIOUS
<1>6. \A i \in 1 .. Len(f) : Len(h) + i = Len(s) + i + 1
  BY <1>1, <1>5
<1>7. \A i \in 1 .. Len(f) : r[Len(s) + i + 1] = f[i]
  BY <1>4, <1>6
<1>8. \A i \in 1 .. Len(s) : r[i] = s[i]
  BY <1>1, <1>3, <1>5
<1>9. r[Len(s) + 1] = x
  BY <1>1, <1>3, <1>5
<1>. HIDE DEF r
<1>10. s \o <<x>> \o f = r
  BY DEF r, h
<1>. QED  BY <1>1, <1>2, <1>5, <1>7, <1>8, <1>9, <1>10

\* One module more.
LEMMA AppendsModule == ImageInv /\ AppendModule => ImageInv'
<1>. SUFFICES ASSUME ImageInv, AppendModule PROVE ImageInv'
  OBVIOUS
<1>. USE DEF ImageInv, AppendModule
<1>1. FilesOK' /\ extraBinaries' = extraBinaries /\ (IsReadable <=> IsReadable')
        /\ \A n : SizeCell(n)' = SizeCell(n)
  BY SameFiles
<1>. DEFINE n == appended + 1
            module == files[n + 1]
<1>2. n \in Modules /\ extraBinaries \in Nat /\ appended \in Nat
  BY SizeCells DEF Modules, PackedOK
<1>3. module \in Seq(Nat) /\ SizeCell(n + 1) = SizeCell(n) + 1 + Len(module)
  BY <1>2, SizeCells DEF FilesOK, Modules, extraBinaries
<1>4. packed \in Seq(Nat) /\ Len(packed) = SizeCell(n) /\ IsReadable
  BY DEF PackedOK
<1>5. packed' = packed \o <<Len(module)>> \o module
  <2>1. appended + 2 = n + 1
    BY <1>2
  <2>. QED  BY <2>1 DEF write_size, write_file, write_uint32
<1>. HIDE DEF module
<1>6. /\ packed' \in Seq(Nat) /\ Len(packed') = SizeCell(n + 1)
      /\ \A i \in 1 .. SizeCell(n) : packed'[i] = packed[i]
      /\ packed'[SizeCell(n) + 1] = Len(module)
      /\ \A i \in 1 .. Len(module) : packed'[SizeCell(n) + i + 1] = module[i]
  <2>1. Len(module) \in Nat
    BY <1>3
  <2>2. /\ packed' \in Seq(Nat) /\ Len(packed') = Len(packed) + 1 + Len(module)
        /\ \A i \in 1 .. Len(packed) : packed'[i] = packed[i]
        /\ packed'[Len(packed) + 1] = Len(module)
        /\ \A i \in 1 .. Len(module) : packed'[Len(packed) + i + 1] = module[i]
    <3>. HIDE DEF n
    <3>1. packed \in Seq(Nat) /\ module \in Seq(Nat)
      BY <1>3, <1>4
    <3>. QED  BY <1>5, <2>1, <3>1, Concatenated
  <2>. QED  BY <1>3, <1>4, <2>2
<1>7. PackedOK'
  BY <1>1, <1>2, <1>4, <1>6 DEF PackedOK, Modules
<1>8. PackedHolds'
  <2>1. Holds(packed, 1, appended) /\ appended' = n
    BY DEF PackedHolds
  <2>2. \A i \in 1 .. KernelSize : packed'[i - 1 + 1] = files[1][i]
    <3>1. SizeCell(n) \in Nat /\ KernelSize + 1 <= SizeCell(n)
      BY <1>2, SizeCells, ImageAssumption DEF Modules
    <3>2. \A i \in 1 .. KernelSize : i - 1 + 1 = i /\ i \in 1 .. SizeCell(n)
      BY <3>1, ImageAssumption
    <3>3. \A i \in 1 .. KernelSize : packed[i - 1 + 1] = files[1][i]
      BY <2>1 DEF Holds
    <3>. QED  BY <1>6, <3>2, <3>3
  <2>3. packed'[KernelSize + 1] = extraBinaries
    <3>1. SizeCell(n) \in Nat /\ KernelSize + 1 <= SizeCell(n)
      BY <1>2, SizeCells, ImageAssumption DEF Modules
    <3>2. KernelSize + 1 \in 1 .. SizeCell(n)
      BY <3>1, ImageAssumption
    <3>3. packed[KernelSize + 1] = extraBinaries
      BY <2>1 DEF Holds
    <3>. QED  BY <1>6, <3>2, <3>3
  <2>4. ASSUME NEW k \in 1 .. appended
        PROVE  /\ packed'[SizeCell(k) + 1] = Len(files[k + 1])
               /\ \A i \in 1 .. Len(files[k + 1]) : packed'[SizeCell(k) + i + 1] = files[k + 1][i]
    <3>1. /\ SizeCell(k) \in Nat /\ Len(files[k + 1]) \in Nat
          /\ SizeCell(k) + 1 + Len(files[k + 1]) <= SizeCell(n)
      <4>1. k \in Modules /\ k \in 1 .. 2 /\ n \in 1 .. 2 /\ k < n
        BY <1>2, SizeCells DEF Modules
      <4>2. k = 1 /\ n = 2 /\ 1 \in Modules
        BY <4>1
      <4>. QED  BY <4>2, <1>2, SizeCells, ImageAssumption DEF Modules
    <3>2. /\ packed[SizeCell(k) + 1] = Len(files[k + 1])
          /\ \A i \in 1 .. Len(files[k + 1]) : packed[SizeCell(k) + i + 1] = files[k + 1][i]
      BY <2>1 DEF Holds
    <3>3. /\ SizeCell(k) + 1 \in 1 .. SizeCell(n)
          /\ \A i \in 1 .. Len(files[k + 1]) : SizeCell(k) + i + 1 \in 1 .. SizeCell(n)
      <4>1. \A i \in 1 .. Len(files[k + 1]) : SizeCell(k) + i + 1 \in 1 .. SizeCell(n)
        <5>. SUFFICES ASSUME NEW i \in 1 .. Len(files[k + 1]) PROVE SizeCell(k) + i + 1 \in 1 .. SizeCell(n)
          OBVIOUS
        <5>1. SizeCell(n) \in Nat
          BY <1>4
        <5>. QED  BY <3>1, <5>1
      <4>2. SizeCell(n) \in Nat
        BY <1>4
      <4>. QED  BY <3>1, <4>1, <4>2
    <3>. QED  BY <1>6, <3>2, <3>3
  <2>5. ASSUME NEW k \in 1 .. n
        PROVE  /\ packed'[SizeCell(k) + 1] = Len(files[k + 1])
               /\ \A i \in 1 .. Len(files[k + 1]) : packed'[SizeCell(k) + i + 1] = files[k + 1][i]
    <3>1. CASE k = n
      <4>1. files[k + 1] = module
        BY <3>1 DEF module
      <4>. QED  BY <1>6, <3>1, <4>1
    <3>2. CASE k \in 1 .. appended
      BY <2>4, <3>2
    <3>3. k = n \/ k \in 1 .. appended
      BY <1>2
    <3>. QED  BY <3>1, <3>2, <3>3
  <2>. QED  BY <1>1, <2>1, <2>2, <2>3, <2>5 DEF PackedHolds, Holds
<1>9. MemoryOK' /\ LoadOK' /\ StageOK'
  BY <1>1 DEF MemoryOK, LoadOK, StageOK, Arrived, kernelVars
<1>. QED  BY <1>1, <1>7, <1>8, <1>9

\* The packed file fits below the targets, hence into memory.
LEMMA Boots == ImageInv /\ Boot => ImageInv'
<1>. SUFFICES ASSUME ImageInv, Boot PROVE ImageInv'
  OBVIOUS
<1>. USE DEF ImageInv, Boot, packerVars
<1>1. FilesOK' /\ extraBinaries' = extraBinaries /\ (IsReadable <=> IsReadable')
        /\ \A n : SizeCell(n)' = SizeCell(n)
  BY SameFiles
<1>2. /\ packed \in Seq(Nat) /\ Len(packed) = SizeCell(extraBinaries + 1)
      /\ Holds(packed, 1, extraBinaries)
  BY DEF PackedOK, PackedHolds
<1>3. Len(packed) \in Nat /\ Len(packed) <= MemorySize /\ KernelSize < Len(packed)
  <2>1. extraBinaries + 1 \in 1 .. extraBinaries + 1
    BY SizeCells
  <2>. QED  BY <1>2, <2>1, SizeCells, ImageAssumption
<1>4. \A a \in 0 .. Len(packed) - 1 : memory'[a] = packed[a + 1]
  BY <1>3, ImageAssumption DEF MemoryOK
<1>5. memory' \in [0 .. MemorySize - 1 -> Nat]
  <2>1. \A a \in 0 .. MemorySize - 1 : a < Len(packed) => packed[a + 1] \in Nat
    BY <1>2, <1>3, ImageAssumption
  <2>. QED  BY <2>1 DEF MemoryOK
<1>6. Holds(memory', 0, extraBinaries)
  <2>1. \A i \in 1 .. KernelSize : memory'[i - 1 + 0] = files[1][i]
    BY <1>2, <1>3, <1>4, ImageAssumption DEF Holds
  <2>2. memory'[KernelSize + 0] = extraBinaries
    BY <1>2, <1>3, <1>4, ImageAssumption DEF Holds
  <2>3. ASSUME NEW k \in 1 .. extraBinaries
        PROVE  /\ memory'[SizeCell(k) + 0] = Len(files[k + 1])
               /\ \A i \in 1 .. Len(files[k + 1]) : memory'[SizeCell(k) + i + 0] = files[k + 1][i]
    <3>1. /\ SizeCell(k) \in Nat /\ Len(files[k + 1]) \in Nat
          /\ SizeCell(k) + 1 + Len(files[k + 1]) <= Len(packed)
      <4>1. k \in Modules /\ k \in 1 .. extraBinaries + 1 /\ k + 1 \in 1 .. extraBinaries + 1
        BY SizeCells DEF Modules
      <4>2. Len(files[k + 1]) \in Nat /\ SizeCell(k + 1) = SizeCell(k) + 1 + Len(files[k + 1])
        BY <4>1, SizeCells, ImageAssumption
      <4>3. SizeCell(k) \in Nat /\ SizeCell(k + 1) <= SizeCell(extraBinaries + 1)
        BY <4>1, SizeCells, ImageAssumption
      <4>. QED  BY <4>2, <4>3, <1>2
    <3>2. /\ packed[SizeCell(k) + 1] = Len(files[k + 1])
          /\ \A i \in 1 .. Len(files[k + 1]) : packed[SizeCell(k) + i + 1] = files[k + 1][i]
      BY <1>2 DEF Holds
    <3>3. /\ SizeCell(k) + 0 \in 0 .. Len(packed) - 1 /\ SizeCell(k) + 0 + 1 = SizeCell(k) + 1
          /\ \A i \in 1 .. Len(files[k + 1]) :
               /\ SizeCell(k) + i + 0 \in 0 .. Len(packed) - 1
               /\ SizeCell(k) + i + 0 + 1 = SizeCell(k) + i + 1
      BY <1>3, <3>1
    <3>. QED  BY <1>4, <3>2, <3>3
  <2>. QED  BY <2>1, <2>2, <2>3 DEF Holds
<1>7. PackedOK' /\ PackedHolds'
  BY <1>1 DEF PackedOK, PackedHolds, Holds
<1>8. MemoryOK'
  BY <1>5, <1>6 DEF MemoryOK, Holds, SizeCell, extraBinaries
<1>9. LoadOK' /\ StageOK'
  BY <1>1, ImageAssumption DEF LoadOK, StageOK, Arrived
<1>. QED  BY <1>1, <1>7, <1>8, <1>9

\* The first number after the kernel.
LEMMA CountsModules == ImageInv /\ loadModules => ImageInv'
<1>. SUFFICES ASSUME ImageInv, loadModules PROVE ImageInv'
  OBVIOUS
<1>. USE DEF ImageInv, loadModules, packerVars
<1>1. FilesOK' /\ extraBinaries' = extraBinaries /\ (IsReadable <=> IsReadable')
        /\ \A n : SizeCell(n)' = SizeCell(n)
  BY SameFiles
<1>2. PackedOK' /\ PackedHolds' /\ MemoryOK'
  BY <1>1 DEF PackedOK, PackedHolds, MemoryOK, Holds
<1>3. left' = extraBinaries /\ current' = KernelSize + 1 /\ loaded' = 0 /\ extraBinaries \in Nat
  <2>1. memory[KernelSize + 0] = extraBinaries /\ current = KernelSize /\ loaded = 0
    BY DEF MemoryOK, Holds, LoadOK
  <2>. QED  BY <2>1, SizeCells, ImageAssumption DEF readUint32
<1>4. SizeCell(1) = KernelSize + 1
  BY ImageAssumption DEF SizeCell
<1>5. LoadOK' /\ StageOK'
  BY <1>1, <1>3, <1>4, ImageAssumption DEF LoadOK, StageOK, Arrived
<1>. QED  BY <1>1, <1>2, <1>5

\* One module arrives, above what is packed and apart from the others.
LEMMA LoadsModule == ImageInv /\ loadModule => ImageInv'
<1>. SUFFICES ASSUME ImageInv, loadModule PROVE ImageInv'
  OBVIOUS
<1>. USE DEF ImageInv, loadModule, packerVars
<1>1. FilesOK' /\ extraBinaries' = extraBinaries /\ (IsReadable <=> IsReadable')
        /\ \A n : SizeCell(n)' = SizeCell(n)
  BY SameFiles
<1>a. PICK n \in Nat : n = loaded + 1
  BY DEF LoadOK
<1>. DEFINE size == Len(files[n + 1])
            target == moduleAddresses[n]
<1>2. /\ loaded + left = extraBinaries /\ loaded \in Nat /\ left \in Nat
      /\ current = SizeCell(n) /\ Holds(memory, 0, extraBinaries)
  BY <1>a DEF LoadOK, MemoryOK
<1>3. n \in Modules /\ n \in 1 .. 2 /\ n + 1 \in 1 .. extraBinaries + 1
  BY <1>a, <1>2, SizeCells DEF Modules
<1>4. size \in 0 .. MaxModule /\ SizeCell(n + 1) = SizeCell(n) + 1 + size
  BY <1>3, SizeCells
<1>5. SizeCell(n) \in Nat /\ SizeCell(n) + 1 + size <= SizeCell(extraBinaries + 1)
  BY <1>3, <1>4, SizeCells, ImageAssumption
<1>6. SizeCell(extraBinaries + 1) \in Nat /\ SizeCell(extraBinaries + 1) <= sampleCodeModuleAddress
  BY SizeCells, ImageAssumption
<1>7. target \in Nat /\ sampleCodeModuleAddress <= target /\ target + MaxModule <= MemorySize
  BY <1>3, ImageAssumption DEF moduleAddresses
<1>8. /\ memory[SizeCell(n)] = size
      /\ \A i \in 1 .. size : memory[SizeCell(n) + i] = files[n + 1][i]
  BY <1>2, <1>3, <1>4, <1>5 DEF Holds, Modules
<1>9. /\ memory' = memcpy(memory, target, SizeCell(n) + 1, size)
      /\ current' = SizeCell(n) + 1 + size /\ loaded' = n /\ left' = left - 1
  BY <1>a, <1>2, <1>8 DEF readUint32
<1>. HIDE DEF size, target
<1>10. memory \in [0 .. MemorySize - 1 -> Nat]
  BY DEF MemoryOK
<1>11. \A a \in 0 .. MemorySize - 1 :
         memory'[a] = IF a \in target .. target + size - 1 THEN memory[SizeCell(n) + 1 + a - target] ELSE memory[a]
  BY <1>9, <1>10 DEF memcpy
<1>12. memory' \in [0 .. MemorySize - 1 -> Nat]
  <2>1. \A a \in target .. target + size - 1 : SizeCell(n) + 1 + a - target \in 0 .. MemorySize - 1
    BY <1>4, <1>5, <1>6, <1>7, ImageAssumption
  <2>. QED  BY <2>1, <1>9, <1>10 DEF memcpy
<1>13. \A a \in 0 .. SizeCell(extraBinaries + 1) - 1 : memory'[a] = memory[a]
  BY <1>4, <1>6, <1>7, <1>11, ImageAssumption
<1>14. Arrived(n)'
  <2>. SUFFICES ASSUME NEW i \in 1 .. size PROVE memory'[target + i - 1] = files[n + 1][i]
    BY <1>9 DEF Arrived, size, target, moduleAddresses
  <2>1. target + i - 1 \in target .. target + size - 1 /\ target + i - 1 \in 0 .. MemorySize - 1
    BY <1>4, <1>7, ImageAssumption
  <2>2. SizeCell(n) + 1 + (target + i - 1) - target = SizeCell(n) + i
    BY <1>5, <1>7
  <2>. QED  BY <1>8, <1>11, <2>1, <2>2
<1>15. ASSUME NEW k \in 1 .. loaded PROVE Arrived(k)'
  <2>1. k = 1 /\ n = 2 /\ 1 \in Modules
    BY <1>a, <1>2, <1>3 DEF Modules
  <2>2. Arrived(1)
    BY <2>1 DEF LoadOK
  <2>3. Len(files[2]) \in 0 .. MaxModule
    BY <2>1, SizeCells
  <2>4. target = sampleDataModuleAddress
    BY <2>1 DEF target, moduleAddresses
  <2>5. \A i \in 1 .. Len(files[2]) :
          memory'[sampleCodeModuleAddress + i - 1] = memory[sampleCodeModuleAddress + i - 1]
    BY <1>4, <1>11, <2>3, <2>4, ImageAssumption
  <2>6. Arrived(1)'
    <3>1. moduleAddresses[1] = sampleCodeModuleAddress /\ 1 + 1 = 2
      BY DEF moduleAddresses
    <3>2. \A i \in 1 .. Len(files[2]) : memory'[sampleCodeModuleAddress + i - 1] = files[2][i]
      BY <2>2, <2>5, <3>1 DEF Arrived
    <3>3. moduleAddresses' = moduleAddresses /\ files' = files
      BY DEF moduleAddresses
    <3>. QED  BY <3>1, <3>2, <3>3 DEF Arrived
  <2>. QED  BY <2>1, <2>6
<1>16. Holds(memory', 0, extraBinaries)
  <2>1. KernelSize < SizeCell(extraBinaries + 1)
    BY SizeCells, ImageAssumption
  <2>2. \A i \in 1 .. KernelSize : memory'[i - 1 + 0] = files[1][i]
    <3>1. \A i \in 1 .. KernelSize : i - 1 + 0 \in 0 .. SizeCell(extraBinaries + 1) - 1
      BY <1>6, <2>1, ImageAssumption
    <3>. QED  BY <1>2, <1>13, <3>1 DEF Holds
  <2>3. memory'[KernelSize + 0] = extraBinaries
    <3>1. KernelSize + 0 \in 0 .. SizeCell(extraBinaries + 1) - 1
      BY <1>6, <2>1, ImageAssumption
    <3>. QED  BY <1>2, <1>13, <3>1 DEF Holds
  <2>4. ASSUME NEW k \in 1 .. extraBinaries
        PROVE  /\ memory'[SizeCell(k) + 0] = Len(files[k + 1])
               /\ \A i \in 1 .. Len(files[k + 1]) : memory'[SizeCell(k) + i + 0] = files[k + 1][i]
    <3>1. k \in Modules /\ k \in 1 .. extraBinaries + 1 /\ k + 1 \in 1 .. extraBinaries + 1
      BY SizeCells DEF Modules
    <3>2. Len(files[k + 1]) \in Nat /\ SizeCell(k + 1) = SizeCell(k) + 1 + Len(files[k + 1])
      BY <3>1, SizeCells, ImageAssumption
    <3>3. SizeCell(k) \in Nat /\ SizeCell(k + 1) <= SizeCell(extraBinaries + 1)
      BY <3>1, SizeCells, ImageAssumption
    <3>4. /\ memory[SizeCell(k) + 0] = Len(files[k + 1])
          /\ \A i \in 1 .. Len(files[k + 1]) : memory[SizeCell(k) + i + 0] = files[k + 1][i]
      BY <1>2 DEF Holds
    <3>5. /\ SizeCell(k) + 0 \in 0 .. SizeCell(extraBinaries + 1) - 1
          /\ \A i \in 1 .. Len(files[k + 1]) : SizeCell(k) + i + 0 \in 0 .. SizeCell(extraBinaries + 1) - 1
      BY <1>6, <3>2, <3>3
    <3>. QED  BY <1>13, <3>4, <3>5
  <2>. QED  BY <2>2, <2>3, <2>4 DEF Holds
<1>17. PackedOK' /\ PackedHolds'
  BY <1>1 DEF PackedOK, PackedHolds, Holds
<1>18. MemoryOK'
  BY <1>12, <1>16 DEF MemoryOK, Holds, SizeCell, extraBinaries
<1>19. \A k \in 1 .. n : Arrived(k)'
  <2>. SUFFICES ASSUME NEW k \in 1 .. n PROVE Arrived(k)'
    OBVIOUS
  <2>1. k = n \/ k \in 1 .. loaded
    BY <1>a, <1>2
  <2>. QED  BY <2>1, <1>14, <1>15
<1>20. LoadOK' /\ StageOK'
  BY <1>a, <1>1, <1>2, <1>4, <1>5, <1>9, <1>19 DEF LoadOK, StageOK
<1>. QED  BY <1>1, <1>17, <1>18, <1>20

\* The bss ends below the first target and begins above the kernel.
LEMMA ClearsBSS == ImageInv /\ clearBSS => ImageInv'
<1>. SUFFICES ASSUME ImageInv, clearBSS PROVE ImageInv'
  OBVIOUS
<1>. USE DEF ImageInv, clearBSS, packerVars
<1>1. FilesOK' /\ extraBinaries' = extraBinaries /\ (IsReadable <=> IsReadable')
        /\ \A n : SizeCell(n)' = SizeCell(n)
  BY SameFiles
<1>2. memory \in [0 .. MemorySize - 1 -> Nat] /\ Holds(memory, 0, extraBinaries)
  BY DEF MemoryOK
<1>3. \A a \in 0 .. MemorySize - 1 : memory'[a] = IF a \in Bss .. EndOfKernel - 1 THEN 0 ELSE memory[a]
  BY <1>2, ImageAssumption DEF memset, BssSize
<1>4. memory' \in [0 .. MemorySize - 1 -> Nat]
  BY <1>2 DEF memset
<1>5. \A i \in 1 .. KernelSize : memory'[i - 1] = files[1][i]
  BY <1>2, <1>3, ImageAssumption DEF Holds
<1>6. \A a \in Bss .. EndOfKernel - 1 : memory'[a] = 0
  BY <1>3, ImageAssumption
<1>7. loaded = extraBinaries /\ extraBinaries \in 0 .. 2
  BY SizeCells DEF LoadOK
<1>8. ASSUME NEW n \in 1 .. loaded PROVE Arrived(n)'
  <2>1. Arrived(n) /\ n \in Modules /\ n \in 1 .. 2
    BY <1>7 DEF LoadOK, Modules
  <2>2. /\ moduleAddresses[n] \in Nat /\ EndOfKernel <= moduleAddresses[n]
        /\ moduleAddresses[n] + MaxModule <= MemorySize
    BY <2>1, ImageAssumption DEF moduleAddresses
  <2>3. Len(files[n + 1]) \in 0 .. MaxModule
    BY <2>1, SizeCells
  <2>4. \A i \in 1 .. Len(files[n + 1]) :
          memory'[moduleAddresses[n] + i - 1] = memory[moduleAddresses[n] + i - 1]
    BY <1>3, <2>2, <2>3, ImageAssumption
  <2>. QED  BY <2>1, <2>4 DEF Arrived, moduleAddresses
<1>9. PackedOK' /\ PackedHolds'
  BY <1>1 DEF PackedOK, PackedHolds, Holds
<1>10. MemoryOK' /\ StageOK'
  BY <1>1, <1>4, <1>5, <1>6 DEF MemoryOK, StageOK
<1>11. LoadOK'
  BY <1>1, <1>8 DEF LoadOK
<1>. QED  BY <1>1, <1>9, <1>10, <1>11

\* Every step keeps the invariant.
LEMMA ImageStep == ImageInv /\ [ImageNext]_imageVars => ImageInv'
<1>. SUFFICES ASSUME ImageInv, [ImageNext]_imageVars PROVE ImageInv'
  OBVIOUS
<1>1. CASE PackerFails
  <2>1. FilesOK' /\ extraBinaries' = extraBinaries
    BY <1>1, SameFiles DEF ImageInv, PackerFails
  <2>. QED
    BY <1>1, <2>1
    DEF ImageInv, PackerFails, packerVars, kernelVars, PackedOK, PackedHolds, MemoryOK, LoadOK, Arrived, StageOK
<1>2. CASE UNCHANGED imageVars
  <2>. USE <1>2 DEF ImageInv, imageVars, packerVars, kernelVars
  <2>1. FilesOK' /\ extraBinaries' = extraBinaries /\ (IsReadable <=> IsReadable')
          /\ \A n : SizeCell(n)' = SizeCell(n)
    BY SameFiles
  <2>2. PackedOK' /\ PackedHolds' /\ MemoryOK'
    BY <2>1 DEF PackedOK, PackedHolds, MemoryOK, Holds
  <2>3. LoadOK' /\ StageOK'
    BY <2>1 DEF LoadOK, Arrived, StageOK
  <2>. QED  BY <2>1, <2>2, <2>3
<1>. QED
  BY <1>1, <1>2, BuildsImage, AppendsModule, Boots, CountsModules, LoadsModule, ClearsBSS DEF ImageNext

\* Whatever the sizes of kernel and modules and wherever the bss is, if the targets lie
\* above kernel, bss and packed file and a module's length apart: when the kernel's main
\* begins each module is at its address as it was packed, the kernel's code and data are
\* as they were and its bss is zero; files that cannot be read make no image.
THEOREM ModulesAlwaysArrive == ImageSpec => []ModulesArriveWhole
<1>1. ImageInv => ModulesArriveWhole
  <2>. SUFFICES ASSUME ImageInv PROVE ModulesArriveWhole
    OBVIOUS
  <2>1. ASSUME stage = "main"
        PROVE  /\ loaded = Len(files) - 1
               /\ \A n \in 1 .. loaded : \A i \in DOMAIN files[n + 1] :
                    memory[moduleAddresses[n] + i - 1] = files[n + 1][i]
               /\ \A a \in 0 .. KernelSize - 1 : memory[a] = files[1][a + 1]
               /\ \A a \in Bss .. EndOfKernel - 1 : memory[a] = 0
    <3>1. loaded = Len(files) - 1 /\ loaded \in Nat
      BY <2>1, SizeCells DEF ImageInv, LoadOK, StageOK, extraBinaries
    <3>2. \A n \in 1 .. loaded : DOMAIN files[n + 1] = 1 .. Len(files[n + 1])
      <4>. SUFFICES ASSUME NEW n \in 1 .. loaded PROVE DOMAIN files[n + 1] = 1 .. Len(files[n + 1])
        OBVIOUS
      <4>1. n + 1 \in 1 .. Len(files) /\ files \in Seq(Seq(Nat))
        BY <3>1, SizeCells DEF ImageInv, FilesOK, extraBinaries
      <4>2. files[n + 1] \in Seq(Nat)
        BY <4>1, ElementOfSeq
      <4>. QED  BY <4>2, LenProperties
    <3>3. \A a \in 0 .. KernelSize - 1 : memory[a] = files[1][a + 1]
      <4>1. \A i \in 1 .. KernelSize : memory[i - 1] = files[1][i]
        BY <2>1 DEF ImageInv, StageOK
      <4>2. \A a \in 0 .. KernelSize - 1 : a + 1 \in 1 .. KernelSize /\ (a + 1) - 1 = a
        BY ImageAssumption
      <4>. QED  BY <4>1, <4>2
    <3>. QED  BY <2>1, <3>1, <3>2, <3>3 DEF ImageInv, LoadOK, Arrived, StageOK
  <2>2. readable # DOMAIN files => packed = <<>>
    BY DEF ImageInv, PackedOK, IsReadable
  <2>. QED  BY <2>1, <2>2 DEF ModulesArriveWhole
<1>. QED  BY <1>1, InitImage, ImageStep, PTL DEF ImageSpec

(***************************************************************************)
(* The screen.  What is on it is the sequence of its cells, row after row: *)
(* a character changes one place of that sequence, a scroll drops the      *)
(* first row of it.                                                        *)
(***************************************************************************)
Shade == Glyph \cup {Blank}
Places == 0 .. Width * Height - 1

ScreenType ==
  [cells : [0 .. Height - 1 -> [0 .. Width - 1 -> Shade]], currentX : 0 .. Width, currentY : 0 .. Height - 1]

ScreenInv ==
  /\ screen \in ScreenType /\ echoed \in Seq(Glyph) /\ output \in Seq(Character)
  /\ Shows(screen, echoed)

-----------------------------------------------------------------------------
\* A row and a column make one place, and a place has one row and one column.
LEMMA RowAndColumn ==
  ASSUME NEW x \in 0 .. Width - 1, NEW y \in 0 .. Height - 1
  PROVE  /\ y * Width + x \in Places
         /\ (y * Width + x) \div Width = y /\ (y * Width + x) % Width = x
<1>1. Width \in Nat /\ Width > 0 /\ Height \in Nat
  BY ScreenAssumption
<1>2. y * Width \in Nat /\ (y + 1) * Width = y * Width + Width
  BY <1>1
<1>3. (y + 1) * Width <= Height * Width
  BY <1>1
<1>4. Height * Width = Width * Height /\ Width * Height \in Nat
  BY <1>1
<1>5. y * Width + x \in Places
  BY <1>1, <1>2, <1>3, <1>4 DEF Places
<1>6. (y * Width + x) \div Width = y
  BY <1>1, <1>2
<1>7. (y * Width + x) % Width = x
  BY <1>1, <1>2, <1>6
<1>. QED  BY <1>5, <1>6, <1>7

\* Every place is of that form.
LEMMA PlaceIs ==
  ASSUME NEW p \in Places
  PROVE  /\ p \div Width \in 0 .. Height - 1 /\ p % Width \in 0 .. Width - 1
         /\ p = (p \div Width) * Width + (p % Width)
<1>1. Width \in Nat /\ Width > 0 /\ Height \in Nat /\ Height > 0 /\ p \in Nat
  BY ScreenAssumption DEF Places
<1>. DEFINE y == p \div Width
            x == p % Width
<1>2. x \in 0 .. Width - 1 /\ y \in Int /\ p = y * Width + x
  BY <1>1
<1>. HIDE DEF x, y
<1>3. y >= 0
  <2>1. CASE y < 0
    <3>1. y * Width <= -1 * Width
      BY <1>1, <1>2, <2>1
    <3>. QED  BY <1>1, <1>2, <3>1
  <2>. QED  BY <1>2, <2>1
<1>4. y < Height
  <2>1. CASE y >= Height
    <3>1. Width * Height <= y * Width
      BY <1>1, <1>2, <2>1
    <3>2. Width * Height \in Int /\ y * Width \in Int
      BY <1>1, <1>2
    <3>. QED  BY <1>1, <1>2, <3>1, <3>2 DEF Places
  <2>2. y \in Int /\ Height \in Int
    BY <1>1, <1>2
  <2>. QED  BY <2>1, <2>2
<1>. QED  BY <1>1, <1>2, <1>3, <1>4 DEF x, y

\* A row further down.
LEMMA NextRow ==
  ASSUME NEW p \in Places, p + Width \in Places
  PROVE  (p + Width) \div Width = p \div Width + 1 /\ (p + Width) % Width = p % Width
<1>1. Width \in Nat /\ Width > 0 /\ p \in Nat
  BY ScreenAssumption DEF Places
<1>. DEFINE y == p \div Width
            x == p % Width
<1>2. x \in 0 .. Width - 1 /\ y \in 0 .. Height - 1 /\ p = y * Width + x
  BY PlaceIs
<1>3. (p + Width) \div Width \in 0 .. Height - 1
  BY PlaceIs
<1>. HIDE DEF x, y
<1>4. p + Width = (y + 1) * Width + x
  BY <1>1, <1>2
<1>5. y + 1 < Height
  <2>1. CASE y + 1 >= Height
    <3>1. Width * Height <= (y + 1) * Width
      BY <1>1, <1>2, <2>1, ScreenAssumption
    <3>2. Width * Height \in Int /\ (y + 1) * Width \in Int
      BY <1>1, <1>2, ScreenAssumption
    <3>. QED  BY <1>1, <1>2, <1>4, <3>1, <3>2 DEF Places
  <2>. QED  BY <1>2, <2>1, ScreenAssumption
<1>6. y + 1 \in 0 .. Height - 1
  BY <1>2, <1>5, ScreenAssumption
<1>. QED  BY <1>2, <1>4, <1>6, RowAndColumn DEF x, y

\* Where the cursor may be.
LEMMA CursorIs ==
  ASSUME NEW s \in ScreenType
  PROVE  /\ s.currentX \in 0 .. Width /\ s.currentY \in 0 .. Height - 1
         /\ Position(s) \in 0 .. Width * Height
         /\ s.currentX < Width => Position(s) \in Places
         /\ \A p \in Places : CellAt(s, p) \in Shade
<1>1. Width \in Nat /\ Width > 0 /\ Height \in Nat /\ Height > 0
  BY ScreenAssumption
<1>2. s.currentX \in 0 .. Width /\ s.currentY \in 0 .. Height - 1
  BY DEF ScreenType
<1>3. s.currentX < Width => Position(s) \in Places
  <2>1. s.currentX < Width => s.currentX \in 0 .. Width - 1
    BY <1>1, <1>2
  <2>. QED  BY <1>2, <2>1, RowAndColumn, Zenon DEF Position
<1>4. s.currentX = Width => Position(s) \in 0 .. Width * Height
  <2>1. s.currentY * Width + Width = (s.currentY + 1) * Width
    BY <1>1, <1>2
  <2>2. (s.currentY + 1) * Width <= Width * Height /\ (s.currentY + 1) * Width \in Nat
    BY <1>1, <1>2
  <2>3. Width * Height \in Nat
    BY <1>1
  <2>. QED  BY <2>1, <2>2, <2>3 DEF Position
<1>5. Width * Height \in Nat
  BY <1>1
<1>6. \A p \in Places : CellAt(s, p) \in Shade
  BY PlaceIs DEF CellAt, ScreenType
<1>. QED  BY <1>1, <1>2, <1>3, <1>4, <1>5, <1>6 DEF Places

\* Drawing changes the place of the cursor and no other.
LEMMA DrawnIs ==
  ASSUME NEW s \in ScreenType, s.currentX < Width, NEW c \in Shade
  PROVE  /\ Drawn(s, c) \in ScreenType
         /\ Drawn(s, c).currentX = s.currentX /\ Drawn(s, c).currentY = s.currentY
         /\ \A p \in Places : CellAt(Drawn(s, c), p) = IF p = Position(s) THEN c ELSE CellAt(s, p)
<1>1. s.currentX \in 0 .. Width - 1 /\ s.currentY \in 0 .. Height - 1
  BY ScreenAssumption DEF ScreenType
<1>2. /\ Drawn(s, c) \in ScreenType
      /\ Drawn(s, c).currentX = s.currentX /\ Drawn(s, c).currentY = s.currentY
      /\ \A y \in 0 .. Height - 1, x \in 0 .. Width - 1 :
           Drawn(s, c).cells[y][x] = IF y = s.currentY /\ x = s.currentX THEN c ELSE s.cells[y][x]
  BY <1>1 DEF Drawn, ScreenType
<1>3. ASSUME NEW p \in Places
      PROVE  CellAt(Drawn(s, c), p) = IF p = Position(s) THEN c ELSE CellAt(s, p)
  <2>1. /\ p \div Width \in 0 .. Height - 1 /\ p % Width \in 0 .. Width - 1
        /\ p = (p \div Width) * Width + (p % Width)
    BY PlaceIs
  <2>2. p = Position(s) <=> p \div Width = s.currentY /\ p % Width = s.currentX
    <3>1. /\ (s.currentY * Width + s.currentX) \div Width = s.currentY
          /\ (s.currentY * Width + s.currentX) % Width = s.currentX
      BY <1>1, RowAndColumn, Zenon
    <3>. QED  BY <2>1, <3>1, Zenon DEF Position
  <2>. QED  BY <1>2, <2>1, <2>2 DEF CellAt
<1>. QED  BY <1>2, <1>3

\* A scroll moves every cell up by a row.
LEMMA ScrolledIs ==
  ASSUME NEW s \in ScreenType, s.currentY = Height - 1
  PROVE  /\ scrollDownScreen(s) \in ScreenType
         /\ scrollDownScreen(s).currentX = s.currentX /\ scrollDownScreen(s).currentY = s.currentY
         /\ \A p \in Places : CellAt(scrollDownScreen(s), p) =
              IF p + Width \in Places THEN CellAt(s, p + Width) ELSE Blank
<1>1. Width \in Nat /\ Width > 0 /\ Height \in Nat /\ Height > 0
  BY ScreenAssumption
<1>2. /\ scrollDownScreen(s).currentX = s.currentX /\ scrollDownScreen(s).currentY = s.currentY
      /\ scrollDownScreen(s).cells
           = [y \in 0 .. Height - 1 |-> IF y = s.currentY THEN BlankRow ELSE s.cells[y + 1]]
      /\ scrollDownScreen(s) \in [cells : {scrollDownScreen(s).cells}, currentX : {s.currentX}, currentY : {s.currentY}]
  BY DEF scrollDownScreen, ScreenType
<1>3. BlankRow \in [0 .. Width - 1 -> Shade]
  BY DEF BlankRow, Shade
<1>4. scrollDownScreen(s).cells \in [0 .. Height - 1 -> [0 .. Width - 1 -> Shade]]
  <2>1. \A y \in 0 .. Height - 1 : y # s.currentY => y + 1 \in 0 .. Height - 1
    BY <1>1
  <2>2. s.cells \in [0 .. Height - 1 -> [0 .. Width - 1 -> Shade]]
    BY DEF ScreenType
  <2>. QED  BY <1>2, <1>3, <2>1, <2>2
<1>5. scrollDownScreen(s) \in ScreenType
  BY <1>2, <1>4 DEF ScreenType
<1>6. ASSUME NEW p \in Places
      PROVE  CellAt(scrollDownScreen(s), p) = IF p + Width \in Places THEN CellAt(s, p + Width) ELSE Blank
  <2>. DEFINE y == p \div Width
              x == p % Width
  <2>1. y \in 0 .. Height - 1 /\ x \in 0 .. Width - 1 /\ p = y * Width + x
    BY PlaceIs
  <2>2. CASE p + Width \in Places
    <3>1. (p + Width) \div Width = y + 1 /\ (p + Width) % Width = x
      BY <2>2, NextRow
    <3>2. y + 1 \in 0 .. Height - 1
      BY <2>2, <3>1, PlaceIs
    <3>3. y # s.currentY
      BY <1>1, <2>1, <3>2
    <3>. QED  BY <1>2, <2>1, <2>2, <3>1, <3>3 DEF CellAt
  <2>3. CASE p + Width \notin Places
    <3>. HIDE DEF x, y
    <3>1. y = Height - 1
      <4>1. CASE y + 1 \in 0 .. Height - 1
        <5>1. (y + 1) * Width + x \in Places
          BY <2>1, <4>1, RowAndColumn
        <5>2. (y + 1) * Width + x = p + Width
          BY <1>1, <2>1
        <5>. QED  BY <2>3, <5>1, <5>2
      <4>. QED  BY <1>1, <2>1, <4>1
    <3>. QED  BY <1>2, <2>1, <2>3, <3>1 DEF CellAt, BlankRow, x, y
  <2>. QED  BY <2>2, <2>3
<1>. QED  BY <1>2, <1>5, <1>6

-----------------------------------------------------------------------------
\* The first cell is before every other.
LEMMA ScreenSizes == Width \in Nat /\ Width > 0 /\ Height \in Nat /\ Height > 0 /\ Width * Height \in Nat
<1>1. Width \in Nat /\ Width > 0 /\ Height \in Nat /\ Height > 0
  BY ScreenAssumption
<1>. QED  BY <1>1

\* The cursor elsewhere on its row, the cells the same.
LEMMA MovedAlong ==
  ASSUME NEW s \in ScreenType, NEW x \in 0 .. Width, NEW t, t = [s EXCEPT !.currentX = x]
  PROVE  /\ t \in ScreenType /\ t.cells = s.cells /\ t.currentX = x /\ t.currentY = s.currentY
         /\ \A p : CellAt(t, p) = CellAt(s, p)
BY DEF ScreenType, CellAt

\* A scroll takes what is shown with it.
LEMMA ScrollShows ==
  ASSUME NEW s \in ScreenType, s.currentY = Height - 1, NEW e \in Seq(Glyph), Shows(s, e),
         NEW t, t = scrollDownScreen([s EXCEPT !.currentX = 0])
  PROVE  /\ t \in ScreenType /\ t.currentX = 0
         /\ \A p \in Places : p >= Position(t) => CellAt(t, p) = Blank
         /\ s.currentX = Width => Shows(t, e)
<1>. DEFINE r == [s EXCEPT !.currentX = 0]
<1>1. /\ r \in ScreenType /\ r.currentX = 0 /\ r.currentY = Height - 1
      /\ \A p : CellAt(r, p) = CellAt(s, p)
  <2>1. 0 \in 0 .. Width
    BY ScreenSizes
  <2>. QED  BY <2>1, MovedAlong
<1>. HIDE DEF r
<1>2. /\ t \in ScreenType /\ t.currentX = 0 /\ t.currentY = Height - 1
      /\ \A p \in Places : CellAt(t, p) = IF p + Width \in Places THEN CellAt(s, p + Width) ELSE Blank
  BY <1>1, ScrolledIs DEF r
<1>. DEFINE n == Width * Height
<1>3. n \in Nat /\ Position(t) = n - Width /\ (s.currentX = Width => Position(s) = n)
  <2>1. (Height - 1) * Width = n - Width
    BY ScreenSizes
  <2>. QED  BY ScreenSizes, <1>2, <2>1 DEF Position
<1>4. Places = 0 .. n - 1
  BY DEF Places
<1>. HIDE DEF n
<1>5. \A p \in Places : p >= Position(t) => CellAt(t, p) = Blank
  BY <1>2, <1>3, <1>4, ScreenSizes
<1>6. ASSUME s.currentX = Width PROVE Shows(t, e)
  <2>1. ASSUME NEW i \in DOMAIN e, Position(t) - i >= 0
        PROVE  CellAt(t, Position(t) - i) = e[Len(e) + 1 - i]
    <3>1. i \in Nat /\ i > 0
      BY LenProperties
    <3>2. Position(t) - i \in Places /\ Position(t) - i + Width = Position(s) - i /\ Position(s) - i \in Places
      BY <1>3, <1>4, <1>6, <2>1, <3>1, ScreenSizes
    <3>3. CellAt(t, Position(t) - i) = CellAt(s, Position(s) - i)
      BY <1>2, <3>2
    <3>4. Position(s) - i >= 0
      BY <1>4, <3>2, <1>3
    <3>. QED  BY <2>1, <3>3, <3>4 DEF Shows
  <2>2. ASSUME NEW p \in Position(t) .. Width * Height - 1 PROVE CellAt(t, p) = Blank
    <3>1. p \in Places /\ p >= Position(t)
      <4>1. Position(t) >= 0
        BY <1>2, CursorIs, ScreenSizes
      <4>. QED  BY <1>3, <4>1, ScreenSizes DEF Places
    <3>. QED  BY <1>5, <3>1
  <2>. QED  BY <2>1, <2>2 DEF Shows
<1>. QED  BY <1>2, <1>5, <1>6

\* A full row wraps without losing what is shown, unless it scrolls away.
LEMMA WrapShows ==
  ASSUME NEW s \in ScreenType, NEW e \in Seq(Glyph), Shows(s, e)
  PROVE  Wrapped(s) \in ScreenType /\ Wrapped(s).currentX < Width /\ Shows(Wrapped(s), e)
<1>1. s.currentX \in 0 .. Width /\ s.currentY \in 0 .. Height - 1
  BY CursorIs
<1>2. CASE s.currentX # Width
  BY <1>1, <1>2, ScreenSizes DEF Wrapped
<1>3. CASE s.currentX = Width /\ s.currentY + 1 < Height
  <2>. DEFINE t == [s EXCEPT !.currentX = 0, !.currentY = @ + 1]
  <2>1. Wrapped(s) = t
    BY <1>3 DEF Wrapped, changeLineOnScreen
  <2>2. t \in ScreenType /\ t.currentX = 0 /\ t.currentY = s.currentY + 1 /\ t.cells = s.cells
    <3>1. 0 \in 0 .. Width /\ s.currentY + 1 \in 0 .. Height - 1
      BY <1>1, <1>3, ScreenSizes
    <3>. QED  BY <3>1 DEF ScreenType
  <2>. HIDE DEF t
  <2>3. Position(t) = Position(s)
    <3>1. (s.currentY + 1) * Width + 0 = s.currentY * Width + Width
      BY <1>1, ScreenSizes
    <3>. QED  BY <1>3, <2>2, <3>1 DEF Position
  <2>4. Shows(t, e)
    BY <2>2, <2>3 DEF Shows, CellAt
  <2>. QED  BY <2>1, <2>2, <2>4, ScreenSizes
<1>4. CASE s.currentX = Width /\ ~(s.currentY + 1 < Height)
  <2>1. Wrapped(s) = scrollDownScreen([s EXCEPT !.currentX = 0])
    BY <1>4 DEF Wrapped, changeLineOnScreen
  <2>2. s.currentY = Height - 1
    BY <1>1, <1>4, ScreenSizes
  <2>. QED  BY <1>4, <2>1, <2>2, ScrollShows, ScreenSizes
<1>. QED  BY <1>2, <1>3, <1>4

\* A character is drawn behind what is shown.
LEMMA PrintShows ==
  ASSUME NEW s \in ScreenType, NEW e \in Seq(Glyph), Shows(s, e), NEW c \in Glyph
  PROVE  printCharOnScreen(s, c) \in ScreenType /\ Shows(printCharOnScreen(s, c), Append(e, c))
<1>1. PICK w \in ScreenType : w = Wrapped(s) /\ w.currentX < Width /\ Shows(w, e)
  BY WrapShows
<1>2. PICK d \in ScreenType :
        /\ d = Drawn(w, c) /\ d.currentX = w.currentX /\ d.currentY = w.currentY
        /\ \A p \in Places : CellAt(d, p) = IF p = Position(w) THEN c ELSE CellAt(w, p)
  BY <1>1, DrawnIs DEF Shade
<1>3. PICK t : t = [d EXCEPT !.currentX = w.currentX + 1]
  OBVIOUS
<1>4. printCharOnScreen(s, c) = t
  BY <1>1, <1>2, <1>3 DEF printCharOnScreen
<1>5. w.currentX \in 0 .. Width - 1 /\ w.currentY \in 0 .. Height - 1 /\ Position(w) \in Places
  BY <1>1, CursorIs, ScreenSizes
<1>6. t \in ScreenType /\ t.cells = d.cells /\ t.currentX = w.currentX + 1 /\ t.currentY = w.currentY
  <2>1. w.currentX + 1 \in 0 .. Width
    BY <1>5, ScreenSizes
  <2>. QED  BY <1>2, <1>3, <2>1, MovedAlong
<1>7. Position(t) = Position(w) + 1
  <2>1. w.currentY * Width \in Int /\ w.currentX \in Int
    BY <1>5, ScreenSizes
  <2>. QED  BY <1>6, <2>1 DEF Position
<1>8. \A p \in Places : CellAt(t, p) = IF p = Position(w) THEN c ELSE CellAt(w, p)
  BY <1>2, <1>6 DEF CellAt
<1>. DEFINE n == Width * Height
            f == Append(e, c)
<1>9. n \in Nat /\ Places = 0 .. n - 1
  BY ScreenSizes DEF Places
<1>10. f \in Seq(Glyph) /\ Len(f) = Len(e) + 1 /\ Len(e) \in Nat /\ f[Len(e) + 1] = c
         /\ \A i \in 1 .. Len(e) : f[i] = e[i]
  OBVIOUS
<1>11. DOMAIN f = 1 .. Len(e) + 1 /\ DOMAIN e = 1 .. Len(e)
  BY <1>10, LenProperties
<1>. HIDE DEF n, f
<1>12. ASSUME NEW i \in DOMAIN f, Position(t) - i >= 0
       PROVE  CellAt(t, Position(t) - i) = f[Len(f) + 1 - i]
  <2>1. i \in 1 .. Len(e) + 1 /\ Position(t) - i = Position(w) - (i - 1)
    BY <1>5, <1>7, <1>9, <1>11, <1>10
  <2>2. CASE i = 1
    <3>1. Position(t) - i = Position(w) /\ Len(f) + 1 - i = Len(e) + 1
      BY <1>5, <1>7, <1>9, <1>10, <2>2
    <3>. QED  BY <1>5, <1>8, <1>10, <3>1
  <2>3. CASE i # 1
    <3>1. i - 1 \in 1 .. Len(e) /\ Len(f) + 1 - i = Len(e) + 1 - (i - 1) /\ Len(f) + 1 - i \in 1 .. Len(e)
      BY <1>10, <2>1, <2>3
    <3>2. Position(w) - (i - 1) \in Places /\ Position(w) - (i - 1) # Position(w)
            /\ Position(w) - (i - 1) >= 0
      BY <1>5, <1>9, <1>12, <2>1, <3>1, <1>10
    <3>3. CellAt(w, Position(w) - (i - 1)) = e[Len(e) + 1 - (i - 1)]
      BY <1>1, <1>11, <3>1, <3>2 DEF Shows
    <3>. QED  BY <1>8, <1>10, <2>1, <3>1, <3>2, <3>3
  <2>. QED  BY <2>2, <2>3
<1>13. ASSUME NEW p \in Position(t) .. Width * Height - 1 PROVE CellAt(t, p) = Blank
  <2>1. p \in Places /\ p # Position(w) /\ p \in Position(w) .. Width * Height - 1
    BY <1>5, <1>7, <1>9 DEF n
  <2>2. CellAt(w, p) = Blank
    BY <1>1, <2>1 DEF Shows
  <2>. QED  BY <1>8, <2>1, <2>2
<1>14. Shows(t, f)
  BY <1>12, <1>13 DEF Shows
<1>. QED  BY <1>4, <1>6, <1>14 DEF f

\* Back from anywhere but the first place, over the end of a row too.
LEMMA RemoveShows ==
  ASSUME NEW s \in ScreenType, NEW e \in Seq(Glyph), Shows(s, e), ~Home(s)
  PROVE  /\ removeCharFromScreen(s) \in ScreenType
         /\ Shows(removeCharFromScreen(s), IF e = <<>> THEN e ELSE SubSeq(e, 1, Len(e) - 1))
<1>1. s.currentX \in 0 .. Width /\ s.currentY \in 0 .. Height - 1
  BY CursorIs
<1>2. PICK b \in ScreenType :
        /\ b.cells = s.cells /\ b.currentX < Width /\ Position(b) = Position(s) - 1
        /\ removeCharFromScreen(s) = Drawn(b, Blank)
  <2>1. CASE s.currentX > 0
    <3>. DEFINE b == [s EXCEPT !.currentX = @ - 1]
    <3>1. b \in ScreenType /\ b.cells = s.cells /\ b.currentX = s.currentX - 1 /\ b.currentY = s.currentY
      <4>1. s.currentX - 1 \in 0 .. Width
        BY <1>1, <2>1, ScreenSizes
      <4>2. b = [s EXCEPT !.currentX = s.currentX - 1]
        BY DEF ScreenType
      <4>. QED  BY <4>1, <4>2, MovedAlong
    <3>2. removeCharFromScreen(s) = Drawn(b, Blank)
      BY <2>1 DEF removeCharFromScreen
    <3>. HIDE DEF b
    <3>3. s.currentY * Width \in Int
      BY <1>1, ScreenSizes
    <3>4. Position(b) = Position(s) - 1 /\ b.currentX < Width
      BY <1>1, <3>1, <3>3, ScreenSizes DEF Position
    <3>. QED  BY <3>1, <3>2, <3>4
  <2>2. CASE s.currentX = 0 /\ s.currentY > 0
    <3>. DEFINE b == [s EXCEPT !.currentY = @ - 1, !.currentX = Width - 1]
    <3>1. b \in ScreenType /\ b.cells = s.cells /\ b.currentX = Width - 1 /\ b.currentY = s.currentY - 1
      <4>1. Width - 1 \in 0 .. Width /\ s.currentY - 1 \in 0 .. Height - 1
        BY <1>1, <2>2, ScreenSizes
      <4>. QED  BY <4>1 DEF ScreenType
    <3>2. removeCharFromScreen(s) = Drawn(b, Blank)
      BY <2>2 DEF removeCharFromScreen
    <3>. HIDE DEF b
    <3>3. (s.currentY - 1) * Width + (Width - 1) = (s.currentY * Width + 0) - 1
      BY <1>1, ScreenSizes
    <3>4. Position(b) = Position(s) - 1 /\ b.currentX < Width
      <4>1. Position(b) = (s.currentY - 1) * Width + (Width - 1) /\ Position(s) = s.currentY * Width + 0
        BY <2>2, <3>1 DEF Position
      <4>2. Position(b) = Position(s) - 1
        BY <3>3, <4>1
      <4>. QED  BY <3>1, <4>2, ScreenSizes
    <3>. QED  BY <3>1, <3>2, <3>4
  <2>. QED  BY <1>1, <2>1, <2>2, ScreenSizes DEF Home
<1>3. PICK t \in ScreenType :
        /\ t = Drawn(b, Blank) /\ t.currentX = b.currentX /\ t.currentY = b.currentY
        /\ \A p \in Places : CellAt(t, p) = IF p = Position(b) THEN Blank ELSE CellAt(b, p)
  BY <1>2, DrawnIs DEF Shade
<1>. DEFINE n == Width * Height
            f == IF e = <<>> THEN e ELSE SubSeq(e, 1, Len(e) - 1)
<1>4. Position(t) = Position(b) /\ Position(b) \in Places
  BY <1>2, <1>3, CursorIs DEF Position
<1>5. n \in Nat /\ Places = 0 .. n - 1
  BY ScreenSizes DEF Places
<1>6. \A p \in Places : CellAt(b, p) = CellAt(s, p)
  BY <1>2 DEF CellAt
<1>7. Len(e) \in Nat /\ DOMAIN e = 1 .. Len(e)
  BY LenProperties
<1>8. /\ \A i \in DOMAIN f : i + 1 \in 1 .. Len(e) /\ i \in Nat /\ i > 0
      /\ \A i \in DOMAIN f : f[Len(f) + 1 - i] = e[Len(e) + 1 - (i + 1)]
  <2>1. CASE e = <<>>
    BY <2>1
  <2>2. CASE e # <<>>
    <3>1. Len(e) \in Nat \ {0}
      BY <2>2, EmptySeq
    <3>2. f \in Seq(Glyph) /\ Len(f) = Len(e) - 1 /\ \A i \in 1 .. Len(e) - 1 : f[i] = e[i]
      <4>1. f = SubSeq(e, 1, Len(e) - 1)
        BY <2>2
      <4>. HIDE DEF f
      <4>2. \A i \in 1 .. Len(e) - 1 : e[i] \in Glyph
        BY <3>1, ElementOfSeq
      <4>3. /\ f \in Seq(Glyph) /\ Len(f) = IF 1 <= Len(e) - 1 THEN Len(e) - 1 - 1 + 1 ELSE 0
            /\ \A i \in 1 .. Len(e) - 1 - 1 + 1 : f[i] = e[1 + i - 1]
        BY <3>1, <4>1, <4>2, SubSeqProperties
      <4>0. PICK l \in Nat : Len(e) - 1 = l
        BY <3>1
      <4>4. /\ (IF 1 <= l THEN l - 1 + 1 ELSE 0) = l
            /\ l - 1 + 1 = l
            /\ \A i \in 1 .. l : 1 + i - 1 = i
        OBVIOUS
      <4>5. \A i \in 1 .. Len(e) - 1 : f[i] = e[i]
        BY <4>0, <4>3, <4>4
      <4>. QED  BY <4>0, <4>3, <4>4, <4>5
    <3>3. DOMAIN f = 1 .. Len(e) - 1
      BY <3>2, LenProperties
    <3>. QED  BY <3>1, <3>2, <3>3
  <2>. QED  BY <2>1, <2>2
<1>. HIDE DEF n, f
<1>9. ASSUME NEW i \in DOMAIN f, Position(t) - i >= 0
      PROVE  CellAt(t, Position(t) - i) = f[Len(f) + 1 - i]
  <2>1. i \in Nat /\ i > 0 /\ i + 1 \in DOMAIN e
    BY <1>7, <1>8
  <2>2. Position(t) - i = Position(s) - (i + 1) /\ Position(t) - i \in Places /\ Position(t) - i # Position(b)
    <3>1. Position(s) \in Int
      BY CursorIs, ScreenSizes
    <3>. QED  BY <1>2, <1>4, <1>5, <1>9, <2>1, <3>1
  <2>3. CellAt(s, Position(s) - (i + 1)) = e[Len(e) + 1 - (i + 1)]
    BY <1>9, <2>1, <2>2 DEF Shows
  <2>. QED  BY <1>3, <1>6, <1>8, <2>2, <2>3
<1>10. ASSUME NEW p \in Position(t) .. Width * Height - 1 PROVE CellAt(t, p) = Blank
  <2>1. p \in Places
    BY <1>4, <1>5 DEF n
  <2>2. CASE p = Position(b)
    BY <1>3, <2>1, <2>2
  <2>3. CASE p # Position(b)
    <3>1. Position(s) \in Int
      BY CursorIs, ScreenSizes
    <3>2. p \in Position(s) .. Width * Height - 1
      BY <1>2, <1>4, <1>5, <2>1, <2>3, <3>1 DEF n
    <3>. QED  BY <1>3, <1>6, <2>1, <2>3, <3>2 DEF Shows
  <2>. QED  BY <2>2, <2>3
<1>11. Shows(t, f)
  BY <1>9, <1>10 DEF Shows
<1>. QED  BY <1>2, <1>3, <1>11 DEF f

\* A new line begins empty.
LEMMA LineShows ==
  ASSUME NEW s \in ScreenType, NEW e \in Seq(Glyph), Shows(s, e)
  PROVE  changeLineOnScreen(s) \in ScreenType /\ Shows(changeLineOnScreen(s), <<>>)
<1>1. s.currentX \in 0 .. Width /\ s.currentY \in 0 .. Height - 1
  BY CursorIs
<1>2. CASE s.currentY + 1 < Height
  <2>. DEFINE t == [s EXCEPT !.currentX = 0, !.currentY = @ + 1]
  <2>1. changeLineOnScreen(s) = t
    BY <1>2 DEF changeLineOnScreen
  <2>2. t \in ScreenType /\ t.currentX = 0 /\ t.currentY = s.currentY + 1 /\ t.cells = s.cells
    <3>1. 0 \in 0 .. Width /\ s.currentY + 1 \in 0 .. Height - 1
      BY <1>1, <1>2, ScreenSizes
    <3>. QED  BY <3>1 DEF ScreenType
  <2>. HIDE DEF t
  <2>3. Position(t) \in Int /\ Position(s) \in Int /\ Position(t) >= Position(s)
    <3>1. (s.currentY + 1) * Width + 0 = s.currentY * Width + Width /\ s.currentY * Width \in Int
      BY <1>1, ScreenSizes
    <3>. QED  BY <1>1, <2>2, <3>1, ScreenSizes DEF Position
  <2>4. \A p : CellAt(t, p) = CellAt(s, p)
    BY <2>2 DEF CellAt
  <2>5. \A p \in Position(t) .. Width * Height - 1 : p \in Position(s) .. Width * Height - 1
    BY <2>3, ScreenSizes
  <2>. QED  BY <2>1, <2>2, <2>4, <2>5 DEF Shows
<1>3. CASE ~(s.currentY + 1 < Height)
  <2>1. PICK t : t = scrollDownScreen([s EXCEPT !.currentX = 0])
    OBVIOUS
  <2>2. changeLineOnScreen(s) = t
    BY <1>3, <2>1 DEF changeLineOnScreen
  <2>3. s.currentY = Height - 1
    BY <1>1, <1>3, ScreenSizes
  <2>4. t \in ScreenType /\ \A p \in Places : p >= Position(t) => CellAt(t, p) = Blank
    BY <2>1, <2>3, ScrollShows
  <2>5. \A p \in Position(t) .. Width * Height - 1 : p \in Places /\ p >= Position(t)
    BY <2>4, CursorIs, ScreenSizes DEF Places
  <2>. QED  BY <2>2, <2>4, <2>5 DEF Shows
<1>. QED  BY <1>2, <1>3

\* A blank screen shows nothing.
LEMMA BlankShows == initVideoDriver \in ScreenType /\ Shows(initVideoDriver, <<>>)
<1>1. initVideoDriver \in ScreenType
  BY ScreenSizes DEF initVideoDriver, ScreenType, BlankRow, Shade
<1>2. \A p \in Places : CellAt(initVideoDriver, p) = Blank
  BY PlaceIs DEF initVideoDriver, CellAt, BlankRow
<1>3. Position(initVideoDriver) .. Width * Height - 1 = Places
  <2>1. 0 * Width + 0 = 0
    BY ScreenSizes
  <2>. QED  BY <2>1 DEF initVideoDriver, Position, Places
<1>4. DOMAIN <<>> = {}
  OBVIOUS
<1>. QED  BY <1>1, <1>2, <1>3, <1>4 DEF Shows

\* One character of a write.
LEMMA WritesKeeps == ScreenInv /\ Writes => ScreenInv'
<1>. SUFFICES ASSUME ScreenInv, Writes PROVE ScreenInv'
  OBVIOUS
<1>. USE DEF ScreenInv
<1>1. PICK c \in Character : c = Head(output)
  BY DEF Writes
<1>2. output' \in Seq(Character) /\ screen' = Written(screen, c) /\ echoed' = Told(c)
  BY <1>1 DEF Writes
<1>3. CASE c = "newline"
  <2>1. screen' = changeLineOnScreen(screen) /\ echoed' = <<>>
    BY <1>2, <1>3 DEF Written, Told
  <2>. QED  BY <1>2, <2>1, LineShows
<1>4. CASE c = "backspace" /\ Home(screen)
  <2>1. screen' = screen /\ echoed' = echoed
    BY <1>2, <1>4 DEF Written, Told, removeCharFromScreen, Home
  <2>. QED  BY <1>2, <2>1
<1>5. CASE c = "backspace" /\ ~Home(screen)
  <2>1. /\ screen' = removeCharFromScreen(screen)
        /\ echoed' = IF echoed = <<>> THEN echoed ELSE SubSeq(echoed, 1, Len(echoed) - 1)
    BY <1>2, <1>5 DEF Written, Told
  <2>2. echoed' \in Seq(Glyph)
    BY <2>1
  <2>3. screen' \in ScreenType /\ Shows(screen', echoed')
    BY <1>5, <2>1, RemoveShows
  <2>. QED  BY <1>2, <2>2, <2>3
<1>6. CASE c \in Glyph
  <2>1. c # "newline" /\ c # "backspace"
    BY <1>6, ScreenAssumption
  <2>2. screen' = printCharOnScreen(screen, c) /\ echoed' = Append(echoed, c)
    BY <1>2, <2>1 DEF Written, Told
  <2>3. echoed' \in Seq(Glyph)
    BY <1>6, <2>2
  <2>. QED  BY <1>2, <1>6, <2>2, <2>3, PrintShows
<1>. QED  BY <1>1, <1>3, <1>4, <1>5, <1>6 DEF Character

\* Every step keeps the invariant.
LEMMA ScreenStep == ScreenInv /\ [ScreenNext]_screenVars => ScreenInv'
<1>. SUFFICES ASSUME ScreenInv, [ScreenNext]_screenVars PROVE ScreenInv'
  OBVIOUS
<1>1. ASSUME NEW text \in Text, sys_write(text) PROVE ScreenInv'
  <2>1. text \in Seq(Character) /\ Len(text) \in Nat
    <3>1. PICK n \in 0 .. MaxWrite : text \in [1 .. n -> Character]
      BY DEF Text
    <3>2. n \in Nat
      BY ScreenAssumption
    <3>. QED  BY <3>1, <3>2
  <2>2. Len(text) % LENGTH_MOD \in 0 .. Len(text)
    BY <2>1, ScreenAssumption
  <2>3. output' \in Seq(Character)
    BY <1>1, <2>1, <2>2, SubSeqProperties DEF sys_write
  <2>. QED  BY <1>1, <2>3 DEF sys_write, ScreenInv
<1>2. CASE Clears
  BY <1>2, BlankShows DEF Clears, clearScreen, ScreenInv
<1>3. CASE UNCHANGED screenVars
  BY <1>3 DEF screenVars, ScreenInv
<1>. QED  BY <1>1, <1>2, <1>3, WritesKeeps DEF ScreenNext

\* On a screen of any size, however much is written, wrapped, scrolled and removed, also
\* between two characters of a write: what was written since the last newline and not
\* removed is before the cursor, as far as it did not scroll away, and behind it is nothing.
THEOREM EchoStaysTheLine == ScreenSpec => []EchoIsTheLine
<1>1. ScreenInit => ScreenInv
  BY BlankShows DEF ScreenInit, ScreenInv
<1>2. ScreenInv => EchoIsTheLine
  BY DEF ScreenInv, EchoIsTheLine
<1>. QED  BY <1>1, <1>2, ScreenStep, PTL DEF ScreenSpec
================================================================================
