\* The same heap, when a request may come that it cannot serve.
CONSTANTS
  Levels = 5
  Requests = {8, 40, 41}
  Exhausts = TRUE
SPECIFICATION Spec
INVARIANT NoMemoryIsAnswered
