SPECIFICATION FairSpec
CONSTANTS
  Units = {u1}
  Holds = {h1, h2}
  Reservations = {r1, r2}
  Opportunities = {}
  Contracts = {c1, c2}
  Slots = {w1, w2, w3}
  Faults = {"holdExpiry", "planFailure"}
  None = None
INVARIANTS
  NoDoubleSell
PROPERTIES
  ImplementsUnitMarket
  RequestsEnd
CHECK_DEADLOCK FALSE
