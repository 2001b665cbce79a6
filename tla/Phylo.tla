--------------------------------- MODULE Phylo ---------------------------------
(***************************************************************************)
(* The dining philosophers of applications/phylo.c: one process per        *)
(* philosopher, one that prints the table, and the main program, which     *)
(* adds ('a') and removes ('d') philosophers and quits ('q').              *)
(*                                                                         *)
(* They share the table in memory and run with interrupts on: a step is a  *)
(* system call or one update of the table.  Places are numbered, and a     *)
(* philosopher that takes the place of a removed one is a new process.     *)
(***************************************************************************)
EXTENDS Sync, FiniteSets

CONSTANTS MUTEX_ID, BASE_SEM_ID, BASE_PHILOS, MAX_PHILOS,
          FirstPid,    \* of the philosophers
          MaxKeyPresses,  \* bound: keys pressed, besides the last 'q'
          Keys         \* the keys that are pressed

ASSUME PhyloAssumption ==
  /\ BASE_PHILOS \in Nat \ {0} /\ MAX_PHILOS \in Nat /\ BASE_PHILOS <= MAX_PHILOS
  /\ FirstPid \in Nat \ {0, 1} /\ MaxKeyPresses \in Nat
  /\ Keys \subseteq {"a", "d", "q"}
  /\ BASE_SEM_ID \in Nat /\ MUTEX_ID \notin BASE_SEM_ID .. BASE_SEM_ID + MAX_PHILOS - 1
  /\ {MUTEX_ID} \cup (BASE_SEM_ID .. BASE_SEM_ID + MAX_PHILOS - 1) \subseteq SyncId
  /\ {0} \cup (FirstPid - 1 .. FirstPid + BASE_PHILOS + MaxKeyPresses - 1) \subseteq Process

VARIABLES
  actualPhilosopherCount,
  philos,          \* pid and state at each place
  philoPc,         \* where each philosopher is
  printerPc,       \* where printTable is
  mainPc,          \* where philosopherProblem is
  leaving,         \* the place that main is clearing
  problemRunning,
  newPid,          \* the pid of the next philosopher
  presses,         \* keys pressed
  removals         \* history: philosophers removed

phyloVars == <<actualPhilosopherCount, philos, philoPc, printerPc, mainPc, leaving,
               problemRunning, newPid, presses, removals>>
allPhyloVars == <<sync, phyloVars>>

Place == 0 .. MAX_PHILOS - 1
Philosopher == FirstPid .. FirstPid + BASE_PHILOS + MaxKeyPresses - 1
Printer == FirstPid - 1
Main == 0
Sem(i) == BASE_SEM_ID + i

RIGHT(i) == (i + 1) % actualPhilosopherCount
LEFT(i) == (i + actualPhilosopherCount - 1) % actualPhilosopherCount

PhyloVarsInit ==
  /\ actualPhilosopherCount = 0
  /\ philos = [i \in Place |-> [pid |-> Main, state |-> "THINKING"]]
  /\ philoPc = [p \in Philosopher |-> [at |-> "none", i |-> 0]]
  /\ printerPc = "none"
  /\ mainPc = "start" /\ leaving = 0
  /\ problemRunning = FALSE
  /\ newPid = FirstPid
  /\ presses = 0 /\ removals = 0

PhyloInit == SyncInit /\ PhyloVarsInit

tableVars == <<actualPhilosopherCount, newPid, leaving, problemRunning, presses, removals>>

(***************************************************************************)
(* A philosopher.                                                          *)
(***************************************************************************)
At(p, place) == philoPc[p].at = place /\ ~Asleep(p)
PhiloGoes(p, from, to) == At(p, from) /\ philoPc' = [philoPc EXCEPT ![p].at = to]

\* test: whoever is hungry between two who do not eat gets the forks.
CanEat_LooksLeft(i) == philos[i].state = "HUNGRY" /\ philos[LEFT(i)].state # "EATING"
CanEat(i) == /\ philos[i].state = "HUNGRY"
             /\ philos[LEFT(i)].state # "EATING" /\ philos[RIGHT(i)].state # "EATING"
Tests_NoPost(i) ==
  /\ philos' = [philos EXCEPT ![i].state = IF CanEat(i) THEN "EATING" ELSE @]
  /\ UNCHANGED sync
Tests(i) ==
  IF CanEat(i)
  THEN /\ philos' = [philos EXCEPT ![i].state = "EATING"]
       /\ sync' = AfterPost(sync, Sem(i))
  ELSE UNCHANGED <<philos, sync>>

\* A wait that sleeps does so at the place where it goes on.
WaitsTable(p, from, to) ==
  /\ PhiloGoes(p, from, to)
  /\ sync' = AfterWait(sync, MUTEX_ID, p)
  /\ UNCHANGED philos
PostsTable(p, from, to) ==
  /\ PhiloGoes(p, from, to)
  /\ sync' = AfterPost(sync, MUTEX_ID)
  /\ UNCHANGED philos
Becomes(p, from, to, newState) ==
  /\ PhiloGoes(p, from, to)
  /\ philos' = [philos EXCEPT ![philoPc[p].i].state = newState]
  /\ UNCHANGED sync
TestsAt(p, from, to, i) == PhiloGoes(p, from, to) /\ Tests(i)

TakeForks(p) ==
  \/ problemRunning /\ WaitsTable(p, "loop", "hungry")
  \/ Becomes(p, "hungry", "test", "HUNGRY")
  \/ TestsAt(p, "test", "taken", philoPc[p].i)
  \/ PostsTable(p, "taken", "waitForks")
  \/ /\ PhiloGoes(p, "waitForks", "eat")
     /\ sync' = AfterWait(sync, Sem(philoPc[p].i), p)
     /\ UNCHANGED philos

PlaceForks(p) ==
  \/ WaitsTable(p, "eat", "thinking")
  \/ Becomes(p, "thinking", "testLeft", "THINKING")
  \/ TestsAt(p, "testLeft", "testRight", LEFT(philoPc[p].i))
  \/ TestsAt(p, "testRight", "placed", RIGHT(philoPc[p].i))
  \/ PostsTable(p, "placed", "loop")

Leaves(p) == ~problemRunning /\ PhiloGoes(p, "loop", "dead") /\ UNCHANGED <<sync, philos>>

Philosophizes(p) ==
  /\ TakeForks(p) \/ PlaceForks(p) \/ Leaves(p)
  /\ UNCHANGED <<tableVars, printerPc, mainPc>>

(***************************************************************************)
(* printTable.                                                             *)
(***************************************************************************)
PrinterGoes(from, to) == printerPc = from /\ ~Asleep(Printer) /\ printerPc' = to

Prints ==
  /\ \/ problemRunning /\ PrinterGoes("loop", "print") /\ sync' = AfterWait(sync, MUTEX_ID, Printer)
     \/ PrinterGoes("print", "loop") /\ sync' = AfterPost(sync, MUTEX_ID)
     \/ ~problemRunning /\ PrinterGoes("loop", "dead") /\ UNCHANGED sync
  /\ UNCHANGED <<tableVars, philos, philoPc, mainPc>>

(***************************************************************************)
(* philosopherProblem.                                                     *)
(***************************************************************************)
MainGoes(from, to) == mainPc = from /\ ~Asleep(Main) /\ mainPc' = to

Starts ==
  /\ MainGoes("start", "add")
  /\ problemRunning' = TRUE
  /\ sync' = AfterOpen(sync, MUTEX_ID, 1)
  /\ UNCHANGED <<actualPhilosopherCount, philos, philoPc, printerPc, leaving, newPid, presses,
                 removals>>

\* addPhilosopher: under the mutex, a semaphore with one token and a process.
AddWaits ==
  /\ MainGoes("add", "adding")
  /\ sync' = AfterWait(sync, MUTEX_ID, Main)
  /\ UNCHANGED <<tableVars, philos, philoPc, printerPc>>
Adds ==
  /\ MainGoes("adding", "added")
  /\ LET i == actualPhilosopherCount IN
       /\ sync' = AfterOpen(sync, Sem(i), 1)
       /\ philos' = [philos EXCEPT ![i] = [pid |-> newPid, state |-> "THINKING"]]
       /\ philoPc' = [philoPc EXCEPT ![newPid] = [at |-> "loop", i |-> i]]
       /\ actualPhilosopherCount' = i + 1
  /\ newPid' = newPid + 1
  /\ UNCHANGED <<printerPc, leaving, problemRunning, presses, removals>>
AddPosts ==
  /\ MainGoes("added", IF actualPhilosopherCount < BASE_PHILOS THEN "add"
                       ELSE IF printerPc = "none" THEN "print" ELSE "getchar")
  /\ sync' = AfterPost(sync, MUTEX_ID)
  /\ UNCHANGED <<tableVars, philos, philoPc, printerPc>>
CreatesPrinter ==
  /\ MainGoes("print", "getchar")
  /\ printerPc' = "loop"
  /\ UNCHANGED <<sync, tableVars, philos, philoPc>>

\* A key.
Pressed(key, to) ==
  /\ key \in Keys
  /\ MainGoes("getchar", to)
  /\ UNCHANGED <<sync, philos, philoPc, printerPc, newPid, removals>>
PressA ==
  /\ Pressed("a", IF actualPhilosopherCount = MAX_PHILOS THEN "getchar" ELSE "add")
  /\ presses < MaxKeyPresses /\ presses' = presses + 1
  /\ UNCHANGED <<actualPhilosopherCount, leaving, problemRunning>>
\* removePhilosopher takes the place away first, and never waits for the mutex.
PressD ==
  /\ presses < MaxKeyPresses /\ presses' = presses + 1
  /\ IF actualPhilosopherCount = BASE_PHILOS
     THEN Pressed("d", "getchar") /\ UNCHANGED <<actualPhilosopherCount, leaving>>
     ELSE /\ Pressed("d", "sClose")
          /\ actualPhilosopherCount' = actualPhilosopherCount - 1
          /\ leaving' = actualPhilosopherCount - 1
  /\ UNCHANGED problemRunning
PressQ ==
  /\ Pressed("q", "sClose")
  /\ problemRunning' = FALSE
  /\ leaving' = 0
  /\ UNCHANGED <<actualPhilosopherCount, presses>>

\* One place is cleared: its semaphore, then its process.
ClosesPlace ==
  /\ MainGoes("sClose", "kill")
  /\ sync' = AfterClose(sync, Sem(leaving))
  /\ UNCHANGED <<tableVars, philos, philoPc, printerPc>>
KillsPhilosopher ==
  /\ mainPc = "kill"
  /\ philoPc' = [philoPc EXCEPT ![philos[leaving].pid].at = "dead"]
  /\ IF problemRunning
     THEN MainGoes("kill", "removed") /\ UNCHANGED leaving
     ELSE IF leaving + 1 < actualPhilosopherCount
     THEN MainGoes("kill", "sClose") /\ leaving' = leaving + 1
     ELSE MainGoes("kill", "end") /\ UNCHANGED leaving
  /\ UNCHANGED <<sync, actualPhilosopherCount, philos, printerPc, problemRunning, newPid,
                 presses, removals>>
RemovePosts ==
  /\ MainGoes("removed", "getchar")
  /\ sync' = AfterPost(sync, MUTEX_ID)
  /\ removals' = removals + 1
  /\ UNCHANGED <<actualPhilosopherCount, leaving, problemRunning, newPid, presses, philos,
                 philoPc, printerPc>>
KillsPrinter ==
  /\ MainGoes("end", "last")
  /\ actualPhilosopherCount' = 0
  /\ printerPc' = "dead"
  /\ UNCHANGED <<sync, philos, philoPc, leaving, problemRunning, newPid, presses, removals>>
ClosesTable ==
  /\ MainGoes("last", "done")
  /\ sync' = AfterClose(sync, MUTEX_ID)
  /\ UNCHANGED <<tableVars, philos, philoPc, printerPc>>

MainRuns == Starts \/ AddWaits \/ Adds \/ AddPosts \/ CreatesPrinter \/ ClosesPlace
              \/ KillsPhilosopher \/ RemovePosts \/ KillsPrinter \/ ClosesTable

PhyloNext == \/ \E p \in Philosopher : Philosophizes(p)
             \/ Prints
             \/ MainRuns
             \/ PressA \/ PressD \/ PressQ

\* Round robin; the user need not press a key.
PhyloFairness ==
  /\ \A p \in Philosopher : WF_allPhyloVars(Philosophizes(p))
  /\ WF_allPhyloVars(Prints)
  /\ WF_allPhyloVars(MainRuns)
PhyloSpec == PhyloInit /\ [][PhyloNext]_allPhyloVars /\ PhyloFairness

(***************************************************************************)
(* Properties                                                              *)
(***************************************************************************)
Running == problemRunning /\ mainPc # "start"

\* Who is between a wait and a post of the table's mutex.
Critical ==
  {p \in Philosopher : At(p, "hungry") \/ At(p, "test") \/ At(p, "taken") \/ At(p, "thinking")
                         \/ At(p, "testLeft") \/ At(p, "testRight") \/ At(p, "placed")}
  \cup {p \in {Printer} : printerPc = "print" /\ ~Asleep(p)}
  \cup {p \in {Main} : mainPc \in {"adding", "added"} /\ ~Asleep(p)}

Neighbours(i, j) == i # j /\ (j = RIGHT(i) \/ j = LEFT(i))
Sitting == 0 .. actualPhilosopherCount - 1

\* The table: each removal adds at most one token to the mutex, so that nobody shares
\* it before the first one; until then two neighbours are never both EATING, also
\* while philosophers join.
TableIsSafe ==
  problemRunning =>
    /\ sync[MUTEX_ID].value + Cardinality(Critical) <= 1 + removals
    /\ removals = 0 /\ mainPc \notin {"sClose", "kill", "removed"} =>
         \A i, j \in Sitting : Neighbours(i, j) =>
            ~(philos[i].state = "EATING" /\ philos[j].state = "EATING")

\* Somebody at the table eats again and again: the philosophers never all wait for
\* each other, for the mutex or for their forks.  (Until one is removed: the neighbours
\* of one that is removed while it eats are never tested again.)
Eats(p) == At(p, "eat")
SomebodyEats == []<>(Running /\ removals = 0 => \E p \in Philosopher : Eats(p))

\* "dining philosophers": neighbours do not eat at the same time.
NeighboursDoNotEat ==
  problemRunning /\ removals = 0 /\ mainPc \notin {"sClose", "kill", "removed"} =>
    \A i, j \in Sitting : Neighbours(i, j) =>
      ~(Eats(philos[i].pid) /\ Eats(philos[j].pid))
==============================================================================
