\* No program kills another one, and programs wait only for their own children.
CONSTANTS
  MaxPid = 7
  PRIO_CAP = 1
  INIT_PRIO = 0
  INIT_PRIO_AUG = 1
  Calls = {"add", "addFails", "ctrlC", "fault", "yield", "wait", "exit"}
SPECIFICATION ListSpec
INVARIANT BlockedParentHasChild
PROPERTY WokenByAwaitedChild
