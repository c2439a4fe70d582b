SPECIFICATION Spec
CONSTANTS
  Callers = {c1, c2, c3}
  maxConcurrent = 1
INVARIANTS
  WithinLimit
CHECK_DEADLOCK FALSE
