CONSTANTS
  SyncId = {999, 1000, 1001, 1002}
  Process = {0, 10, 11, 12, 13, 14}
  InitialValues = {1}
  MAX_LISTENERS = 16
  NoSync = NoSync
  MUTEX_ID = 999
  BASE_SEM_ID = 1000
  BASE_PHILOS = 2
  MAX_PHILOS = 3
  FirstPid = 11
  MaxKeyPresses = 2
  Keys = {"a", "d", "q"}
SPECIFICATION PhyloSpec
INVARIANTS
  TableIsSafe
PROPERTIES
  SomebodyEats
CHECK_DEADLOCK FALSE
