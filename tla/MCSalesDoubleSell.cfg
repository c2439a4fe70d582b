SPECIFICATION Spec
CONSTANTS
  Units = {u1}
  Holds = {}
  Reservations = {r1, r2}
  Opportunities = {}
  Contracts = {c1, c2}
  Slots = {w1}
  Faults = {"expiry", "planFailure"}
  None = None
INVARIANTS
  NoDoubleSell
CHECK_DEADLOCK FALSE
