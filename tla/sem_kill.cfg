\* Programs that open what they use, and are killed at any moment.
CONSTANTS
  MaxPid = 5
  PRIO_CAP = 0
  INIT_PRIO = 0
  INIT_PRIO_AUG = 0
  Calls = {"add", "kill", "ctrlC", "exit"}
  SemId = {s1}
  InitValues = {0, 2}
  MAX_BLOCKED_PIDS = 2
  MAX_VALUE = 2
  SemCalls = {"sOpen", "sWait", "sPost", "sClose"}
  NoSem = NoSem
SPECIFICATION SemSpec
INVARIANTS
  SemTypeOK
  WaitersAreListed
  ArrayFits
  NoTokenWhileWaiting
  NoTokenForged
PROPERTIES
  ImplementsSync
