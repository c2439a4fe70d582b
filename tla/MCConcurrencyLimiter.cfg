SPECIFICATION FairSpec
CONSTANTS
  Callers = {c1, c2, c3, c4, c5}
  maxConcurrent = 2
INVARIANTS
  NoIdleSlot
PROPERTIES
  CallsEnd
CHECK_DEADLOCK FALSE
