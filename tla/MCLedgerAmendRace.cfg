SPECIFICATION Spec
CONSTANTS
  Schedule <- OneAndThree
  Fraction = 1
  Payable = {1}
  NewPrices = {3}
  MaxCollected = 1
  MaxRefunded = 0
  MaxRestarts = 0
  Slots = {w1, w2}
  None = None
PROPERTIES
  AmendLeavesPaidLines
CHECK_DEADLOCK FALSE
