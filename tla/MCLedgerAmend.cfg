SPECIFICATION FairSpec
CONSTANTS
  Schedule <- OneAndThree
  Fraction = 1
  Payable = {1}
  NewPrices = {2, 5}
  MaxCollected = 2
  MaxRefunded = 1
  MaxRestarts = 1
  Slots = {w1}
  None = None
INVARIANTS
  ScheduleAddsUp
PROPERTIES
  AmendLeavesPaidLines
  DueLinesFlagged
CHECK_DEADLOCK FALSE
