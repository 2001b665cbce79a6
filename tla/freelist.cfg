\* Fourteen units (thirteen, and the one memInit adds), blocks of two, three and four.
CONSTANTS
  MemSize = 208
  Requests = {1, 17, 48}
  TakesAllOfBase = FALSE
SPECIFICATION Spec
INVARIANTS
  HeapIsTiled
  ListIsOrdered
PROPERTY ImplementsHeap
