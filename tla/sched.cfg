\* Every call of schedule.c, by any program, in any order, and the
\* round-robin line they implement.  The kernel runs on, and the timer ticks.
CONSTANTS
  MaxPid = 4
  PRIO_CAP = 1
  INIT_PRIO = 0
  INIT_PRIO_AUG = 1
  Calls = {"add", "addFails", "kill", "ctrlC", "fault", "block", "unblock",
           "nice", "yield", "waitAny", "exit"}
SPECIFICATION ListSpec
INVARIANTS
  TypeOK
  InOnePlace
  ReadyCount
  OnlyReadyRuns
  ListIsTheQueue
PROPERTIES
  IdleOnlyWhenNobodyCanRun
  DeadStayDead
  ImplementsRoundRobin
  NoStarvation
  DeadAreFreed
