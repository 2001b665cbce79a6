\* Sixteen blocks of 16 bytes, requests for blocks of 32, 64 and 128 bytes.
CONSTANTS
  Levels = 5
  Requests = {8, 40, 41}
  Exhausts = FALSE
SPECIFICATION Spec
INVARIANTS
  HeadersMatchLists
  HeapIsTiled
  NoHiddenBlock
