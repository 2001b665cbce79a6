\* A foreground program that blocks (a program that waits for a key).
CONSTANTS
  MaxPid = 4
  PRIO_CAP = 1
  INIT_PRIO = 0
  INIT_PRIO_AUG = 1
  Calls = {"add", "block", "ctrlC"}
SPECIFICATION Spec
INVARIANT CtrlCFindsForeground
