------------------------------ MODULE SyncProofs ------------------------------
(***************************************************************************)
(* What the calls of Sync do to the list of semaphores: the lemmas on      *)
(* which the proofs about the programs rest.                               *)
(***************************************************************************)
EXTENDS Sync, DataLemmas, TLAPS

Semaphores == [SyncId -> Semaphore \cup {NoSync}]

\* A post changes the count or the line of a semaphore.
LEMMA GivenSemaphore ==
  ASSUME NEW r \in Semaphore
  PROVE  /\ Given(r) \in Semaphore /\ Given(r).listeners = r.listeners
         /\ r.blockedPIDs = <<>> => Given(r).value = r.value + 1 /\ Given(r).blockedPIDs = <<>>
         /\ r.blockedPIDs # <<>> => Given(r).value = r.value /\ Given(r).blockedPIDs = Tail(r.blockedPIDs)
<1>1. CASE r.blockedPIDs = <<>>
  <2>1. Given(r) = [r EXCEPT !.value = r.value + 1]
    BY <1>1 DEF Given
  <2>. QED  BY <1>1, <2>1 DEF Semaphore
<1>2. CASE r.blockedPIDs # <<>>
  <2>1. Given(r) = [r EXCEPT !.blockedPIDs = Tail(r.blockedPIDs)] /\ Tail(r.blockedPIDs) \in Seq(Process)
    BY <1>2 DEF Given, Semaphore
  <2>. QED  BY <1>2, <2>1 DEF Semaphore
<1>. QED  BY <1>1, <1>2

\* sOpen, on a semaphore that has room.
LEMMA AfterOpenDoes ==
  ASSUME NEW S \in Semaphores, NEW s \in SyncId, NEW v \in Nat, ~ Refused(S, s)
  PROVE  LET T == AfterOpen(S, s, v) IN
         /\ T \in Semaphores /\ T[s] \in Semaphore
         /\ \A t \in SyncId \ {s} : T[t] = S[t]
         /\ S[s] = NoSync => T[s] = [value |-> v, listeners |-> 1, blockedPIDs |-> <<>>]
         /\ S[s] # NoSync => /\ T[s].listeners = S[s].listeners + 1
                             /\ T[s].value = S[s].value /\ T[s].blockedPIDs = S[s].blockedPIDs
<1>1. CASE S[s] = NoSync
  <2>1. AfterOpen(S, s, v) = [S EXCEPT ![s] = [value |-> v, listeners |-> 1, blockedPIDs |-> <<>>]]
    BY <1>1 DEF AfterOpen, Refused
  <2>2. [value |-> v, listeners |-> 1, blockedPIDs |-> <<>>] \in Semaphore
    BY SyncAssumption DEF Semaphore
  <2>. QED  BY <1>1, <2>1, <2>2 DEF Semaphores
<1>2. CASE S[s] # NoSync
  BY <1>2, SyncAssumption DEF AfterOpen, Refused, Semaphore, Semaphores
<1>. QED  BY <1>1, <1>2

\* sWait, on a semaphore that exists.
LEMMA AfterWaitDoes ==
  ASSUME NEW S \in Semaphores, NEW s \in SyncId, NEW p \in Process, S[s] # NoSync
  PROVE  LET T == AfterWait(S, s, p) IN
         /\ T \in Semaphores /\ T[s] \in Semaphore
         /\ \A t \in SyncId \ {s} : T[t] = S[t]
         /\ T[s].listeners = S[s].listeners
         /\ S[s].value = 0 => T[s].value = 0 /\ T[s].blockedPIDs = Append(S[s].blockedPIDs, p)
         /\ S[s].value # 0 => T[s].value = S[s].value - 1 /\ T[s].blockedPIDs = S[s].blockedPIDs
<1>1. CASE S[s].value = 0
  <2>1. S[s] \in Semaphore /\ Append(S[s].blockedPIDs, p) \in Seq(Process)
    BY DEF Semaphores, Semaphore
  <2>2. AfterWait(S, s, p) = [S EXCEPT ![s] = [S[s] EXCEPT !.blockedPIDs = Append(S[s].blockedPIDs, p)]]
    BY <1>1 DEF AfterWait, Sleeps
  <2>3. LET r == [S[s] EXCEPT !.blockedPIDs = Append(S[s].blockedPIDs, p)] IN
        /\ r \in Semaphore /\ r.listeners = S[s].listeners /\ r.value = S[s].value
        /\ r.blockedPIDs = Append(S[s].blockedPIDs, p)
    BY <2>1 DEF Semaphore
  <2>. QED  BY <1>1, <2>2, <2>3 DEF Semaphores
<1>2. CASE S[s].value # 0
  BY <1>2 DEF AfterWait, Sleeps, Semaphore, Semaphores
<1>. QED  BY <1>1, <1>2

\* sPost, on a semaphore that exists.
LEMMA AfterPostDoes ==
  ASSUME NEW S \in Semaphores, NEW s \in SyncId, S[s] # NoSync
  PROVE  LET T == AfterPost(S, s) IN
         /\ T \in Semaphores /\ T[s] \in Semaphore
         /\ \A t \in SyncId \ {s} : T[t] = S[t]
         /\ T[s].listeners = S[s].listeners
         /\ S[s].blockedPIDs = <<>> => T[s].value = S[s].value + 1 /\ T[s].blockedPIDs = <<>>
         /\ S[s].blockedPIDs # <<>> => T[s].value = S[s].value /\ T[s].blockedPIDs = Tail(S[s].blockedPIDs)
<1>1. S[s] \in Semaphore
  BY DEF Semaphores
<1>2. AfterPost(S, s) = [S EXCEPT ![s] = Given(S[s])]
  BY DEF AfterPost
<1>. QED  BY <1>1, <1>2, GivenSemaphore DEF Semaphores

\* sClose, on a semaphore that exists.
LEMMA AfterCloseDoes ==
  ASSUME NEW S \in Semaphores, NEW s \in SyncId, S[s] # NoSync
  PROVE  LET T == AfterClose(S, s) IN
         /\ T \in Semaphores
         /\ \A t \in SyncId \ {s} : T[t] = S[t]
         /\ S[s].listeners = 1 => T[s] = NoSync
         /\ S[s].listeners # 1 => /\ T[s] \in Semaphore /\ T[s].listeners = S[s].listeners - 1
                                  /\ T[s].value = S[s].value /\ T[s].blockedPIDs = S[s].blockedPIDs
<1>1. CASE S[s].listeners = 1
  BY <1>1 DEF AfterClose, Semaphores
<1>2. CASE S[s].listeners # 1
  BY <1>2, SyncAssumption DEF AfterClose, Semaphore, Semaphores
<1>. QED  BY <1>1, <1>2
=============================================================================
