SPECIFICATION Spec
CONSTANTS
  Units = {u1}
  Holds = {}
  Reservations = {r1, r2}
  Opportunities = {o1}
  Contracts = {c1, c2}
  Slots = {w1, w2}
  Faults = {"expiry", "edit", "crash", "planFailure", "cancel"}
  None = None
SYMMETRY Symmetry
INVARIANTS
  OneContractPerReservation
  SaleBacked
PROPERTIES
  SoldStaysSold
CHECK_DEADLOCK FALSE
