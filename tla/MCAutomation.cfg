SPECIFICATION FairSpec
CONSTANTS
  Steps <- SkipActionGateAction
  Keys = {"lead"}
  Skips <- SkipsFirst
  MaxRuns = 2
  Slots = {w1, w2}
  MaxRetries = 1
  MaxRestarts = 1
  None = None
INVARIANTS
  OneRunPerTrigger
  ExecutedOnce
  StepsDealtWith
  WaitingIsAsked
PROPERTIES
  EndedStays
  RunsSettle
CHECK_DEADLOCK FALSE
