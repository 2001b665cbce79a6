\* Programs that share a semaphore somebody opened, and nobody is killed.
CONSTANTS
  MaxPid = 5
  PRIO_CAP = 0
  INIT_PRIO = 0
  INIT_PRIO_AUG = 0
  Calls = {"add", "exit"}
  SemId = {s1}
  InitValues = {0, 2}
  MAX_BLOCKED_PIDS = 2
  MAX_VALUE = 2
  SemCalls = {"sOpen", "sWaitAny", "sPostAny"}
  NoSem = NoSem
SPECIFICATION SemFairSpec
INVARIANTS
  TokensConserved
PROPERTIES
  WaitersAreServed
