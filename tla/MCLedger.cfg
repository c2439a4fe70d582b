SPECIFICATION Spec
CONSTANTS
  Schedule <- OneAndTwo
  Fraction = 1
  Payable = {1, 2}
  NewPrices = {}
  MaxCollected = 2
  MaxRefunded = 1
  Slots = {w1, w2}
  MaxRestarts = 1
  None = None
SYMMETRY Symmetry
INVARIANTS
  LedgerAgrees
  SweptOnce
  ReceiptNumbersUnique
PROPERTIES
  MoneyStays
CHECK_DEADLOCK FALSE
