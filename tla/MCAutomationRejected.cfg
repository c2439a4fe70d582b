SPECIFICATION FairSpec
CONSTANTS
  Steps <- GateAction
  Keys = {"lead"}
  Skips <- NothingSkipped
  MaxRuns = 1
  Slots = {w1}
  MaxRetries = 0
  MaxRestarts = 1
  None = None
PROPERTIES
  RejectedNeverRuns
CHECK_DEADLOCK FALSE
