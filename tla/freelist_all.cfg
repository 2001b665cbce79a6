\* The same heap, when a request may take all that is left at the base.
CONSTANTS
  MemSize = 208
  Requests = {1, 17, 48}
  TakesAllOfBase = TRUE
SPECIFICATION Spec
INVARIANT BlocksAreDisjoint
