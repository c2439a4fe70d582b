---------------------------- MODULE SalesProofs ----------------------------
(***************************************************************************)
(* Proofs about Sales, for any set of units, rows and requests and under    *)
(* any faults: its type, that a reservation never gets a second contract,   *)
(* that a sold unit is reopened only by a cancellation or an edit, and that *)
(* what the last writes of a signature say is backed by the first ones.     *)
(*                                                                          *)
(* None is inductive.  Why a signer about to save a contract is the only    *)
(* one for its reservation, and why a request about to free a unit does not *)
(* free a sold one, follows from the locks it holds.  Inv adds that each    *)
(* place in the code holds the locks it should (Owns) and refers to rows    *)
(* that exist (Refers).                                                     *)
(*                                                                          *)
(* Each action of a slot w has one lemma, which gives its Effects: the      *)
(* global parts of Inv, the part of Inv about w itself, and a frame that    *)
(* says what the step leaves alone of the others.  StepKeepsInv shows once  *)
(* that a step within its frame keeps the part of Inv about every other     *)
(* slot.  AllBacked, at the end, relies on Inv: the opportunity a signer    *)
(* writes is that of its reservation, and its contract has its schedule.    *)
(*                                                                          *)
(* The last part is about the quiet faults: a unit is sold once, has one    *)
(* live hold, and its rows are those of the abstract market (UnitMarket).   *)
(***************************************************************************)
EXTENDS Sales, TLAPS

(* The places of the code that share an obligation. *)
Signing == {"signSave", "signPlan", "signUnit", "signReservation", "signWon"}
Signed == {"signPlan", "signUnit", "signReservation", "signWon"}
Taking == {"lock", "sweepHolds", "freeHeld", "saveUnit"}
Sweeping == {"sweep", "sweepLock", "sweepFree"}
Cancelling == {"cancelSave", "cancelUnit", "cancelReservation"}

(* A row with this id has been saved. *)
HoldExists(h) == h \in Holds /\ holds[h] # None
ReservationExists(r) == r \in Reservations /\ reservations[r] # None
ContractExists(c) == c \in Contracts /\ contracts[c] # None

(* What a request refers to has been saved. *)
Refers(w) ==
  /\ req[w].pc \in Taking => req[w].unit \in Units
  /\ req[w].pc \in {"sweepHolds", "freeHeld"} => \A h \in req[w].todo : HoldExists(h)
  /\ req[w].pc \in Sweeping => \A r \in req[w].todo : ReservationExists(r)
  /\ req[w].pc \in Sweeping \ {"sweep"} => req[w].unit \in Units
  /\ req[w].pc \in Signing \cup {"signLock"} => ReservationExists(req[w].res)
  /\ req[w].pc \in Signing => req[w].unit \in Units
  /\ req[w].pc \in Signed =>
       ContractExists(req[w].con) /\ contracts[req[w].con].reservation = req[w].res
  /\ req[w].pc \in Cancelling =>
       ContractExists(req[w].con) /\ ReservationExists(req[w].res) /\ req[w].unit \in Units
  /\ req[w].pc = "amendSave" => ContractExists(req[w].con)

(* A request holds the locks its place in the code says it holds. *)
Owns(w) ==
  /\ req[w].pc \in {"sweepHolds", "freeHeld", "saveUnit", "sweepFree"} => unitLock[req[w].unit] = w
  /\ req[w].pc \in {"freeHeld", "saveUnit", "sweepFree"} => units[req[w].unit] # "contracted"
  /\ req[w].pc \in Signing => signLock[req[w].res] = w
  /\ req[w].pc = "signSave" => ContractsFor(req[w].res) = {}

(* The reservation of a contract exists. *)
ContractsRefer ==
  \A c \in Contracts : contracts[c] # None => ReservationExists(contracts[c].reservation)

(* The inductive invariant. *)
Inv ==
  /\ TypeOK
  /\ ContractsRefer
  /\ OneContractPerReservation
  /\ \A w \in Slots : Refers(w) /\ Owns(w)

(* Rows are never deleted. *)
Grow ==
  /\ \A h \in Holds : holds[h] # None => holds'[h] # None
  /\ \A r \in Reservations : reservations[r] # None => reservations'[r] # None
  /\ \A c \in Contracts : contracts[c] # None =>
       contracts'[c] # None /\ contracts'[c].reservation = contracts[c].reservation

(* What a step of w leaves alone of the others' belongings. *)
Frame(w) ==
  /\ \A u \in Units : unitLock[u] \notin {None, w} => unitLock'[u] = unitLock[u]
  /\ \A r \in Reservations : signLock[r] \notin {None, w} => signLock'[r] = signLock[r]
  /\ \A u \in Units : units'[u] = "contracted" => units[u] = "contracted" \/ unitLock[u] = None
  /\ \A c \in Contracts : contracts[c] = None /\ contracts'[c] # None =>
       signLock[contracts'[c].reservation] = w

(* The requests of the others are untouched. *)
Others(w) == req' \in [Slots -> Request] /\ \A v \in Slots : v # w => req'[v] = req[v]

(* What the lemma of each action establishes. *)
Effects(w) ==
  /\ TypeOK' /\ ContractsRefer' /\ OneContractPerReservation'
  /\ Grow /\ Frame(w) /\ Others(w)
  /\ Refers(w)' /\ Owns(w)'

(* The slot of a request that has ended is a request record like any other. *)
LEMMA IdleRequest == Idle \in Request /\ Idle.pc = "idle"
BY DEF Idle, Request, Ops, Pcs

(* holdUnit and reserveUnit begin: nothing is locked yet. *)
LEMMA StartEffects ==
  ASSUME Inv, NEW w \in Slots, NEW op \in Ops, NEW u \in Units,
         NEW o \in Opportunities \cup {None}, Start(w, op, u, o), UNCHANGED salesVars
  PROVE  Effects(w)
<1>1. Others(w) /\ req'[w].pc = "lock" /\ req'[w].unit = u
  <2>1. req \in [Slots -> Request] /\ req[w] \in Request /\ "lock" \in Pcs /\ op \in Ops
    BY DEF Inv, TypeOK, Pcs
  <2>2. Become(w, [Idle EXCEPT !.op = op, !.pc = "lock", !.unit = u, !.opp = o])
    BY DEF Start, Goto, Finish
  <2> QED
    BY <2>1, <2>2, IdleRequest DEF Goto, Finish, Become, Others, Request
<1>2. TypeOK'
  BY <1>1 DEF Others, Start, Inv, TypeOK, salesVars
<1>3. Grow /\ Frame(w)
  BY NoneAssumption DEF Start, Inv, TypeOK, Grow, Frame, salesVars
<1>4. ContractsRefer' /\ OneContractPerReservation'
  BY <1>3 DEF Start, Grow, Inv, TypeOK, ContractsRefer, OneContractPerReservation,
     ReservationExists, salesVars
<1>5. Refers(w)' /\ Owns(w)'
  BY <1>1, NoneAssumption DEF Start, Inv, TypeOK, Refers, Owns, HoldExists,
     ReservationExists, ContractExists, Signing, Signed, Taking, Sweeping, Cancelling,
     salesVars
<1> QED
  BY <1>1, <1>2, <1>3, <1>4, <1>5 DEF Effects, Others

(* The lock was free, so nobody else believes to hold it. *)
LEMMA AcquireUnitEffects ==
  ASSUME Inv, NEW w \in Slots, AcquireUnit(w), UNCHANGED salesVars
  PROVE  Effects(w)
<1>1. Others(w) /\ req'[w].pc = "sweepHolds" /\ req'[w].unit = req[w].unit
        /\ req'[w].todo = ExpiredHolds(req[w].unit)
  <2>1. req \in [Slots -> Request] /\ req[w] \in Request /\ "sweepHolds" \in Pcs
          /\ ExpiredHolds(req[w].unit) \in SUBSET Holds
    BY DEF Inv, TypeOK, Pcs, ExpiredHolds
  <2>2. Become(w, [req[w] EXCEPT !.pc = "sweepHolds", !.todo = ExpiredHolds(req[w].unit)])
    BY DEF AcquireUnit, Goto, Finish
  <2> QED
    BY <2>1, <2>2 DEF Goto, Finish, Become, Others, Request
<1>2. TypeOK'
  BY <1>1 DEF Others, AcquireUnit, Lock, Free, Inv, TypeOK, salesVars
<1>3. Grow /\ Frame(w)
  BY NoneAssumption DEF AcquireUnit, Lock, Free, Inv, TypeOK, Grow, Frame, salesVars
<1>4. ContractsRefer' /\ OneContractPerReservation'
  BY <1>3 DEF AcquireUnit, Lock, Free, Grow, Inv, TypeOK, ContractsRefer,
     OneContractPerReservation, ReservationExists, salesVars
<1>5. Refers(w)' /\ Owns(w)'
  BY <1>1, NoneAssumption DEF AcquireUnit, Lock, Free, Inv, TypeOK, Refers, Owns,
     HoldExists, ReservationExists, ContractExists, Signing, Signed, Taking, Sweeping,
     Cancelling, salesVars, ExpiredHolds
<1> QED
  BY <1>1, <1>2, <1>3, <1>4, <1>5 DEF Effects, Others

(* One expired hold is saved as inactive. *)
LEMMA SweepHoldEffects ==
  ASSUME Inv, NEW w \in Slots, NEW h \in Holds, SweepHold(w, h), UNCHANGED salesVars
  PROVE  Effects(w)
<1>1. Others(w) /\ req'[w].pc \in {"sweepHolds", "freeHeld"} /\ req'[w].unit = req[w].unit
        /\ req'[w].todo = req[w].todo \ {h} /\ (req'[w].pc = "freeHeld" => units[req[w].unit] = "held")
  <2> DEFINE p == IF units[req[w].unit] = "held" THEN "freeHeld" ELSE "sweepHolds"
  <2>1. req \in [Slots -> Request] /\ req[w] \in Request /\ "sweepHolds" \in Pcs
          /\ "freeHeld" \in Pcs
    BY DEF Inv, TypeOK, Pcs
  <2>2. Become(w, [req[w] EXCEPT !.pc = p, !.todo = req[w].todo \ {h}])
    BY DEF SweepHold, Goto, Finish
  <2>3. p \in {"sweepHolds", "freeHeld"}
          /\ (p = "freeHeld" => units[req[w].unit] = "held") /\ p \in Pcs
    BY <2>1
  <2>4. req[w].todo \ {h} \in SUBSET (Holds \cup Reservations)
    BY <2>1 DEF Request
  <2> HIDE DEF p
  <2> QED
    BY <2>1, <2>2, <2>3, <2>4 DEF Goto, Finish, Become, Others, Request
<1>2. HoldExists(h) /\ holds[h] \in HoldRow
  BY DEF SweepHold, Inv, TypeOK, Refers, HoldExists
<1>3. [holds[h] EXCEPT !.active = FALSE] \in HoldRow
  BY <1>2 DEF HoldRow
<1>4. TypeOK'
  BY <1>1, <1>2, <1>3 DEF Others, SweepHold, Inv, TypeOK, salesVars
<1>5. Grow /\ Frame(w)
  BY NoneAssumption, <1>2, <1>3 DEF SweepHold, Inv, TypeOK, Grow, Frame, salesVars
<1>6. ContractsRefer' /\ OneContractPerReservation'
  BY <1>5 DEF SweepHold, Grow, Inv, TypeOK, ContractsRefer, OneContractPerReservation,
     ReservationExists, salesVars
<1>7. Refers(w)' /\ Owns(w)'
  BY <1>1, NoneAssumption, <1>2, <1>3 DEF SweepHold, Inv, TypeOK, Refers, Owns,
     HoldExists, ReservationExists, ContractExists, Signing, Signed, Taking, Sweeping,
     Cancelling, salesVars
<1> QED
  BY <1>1, <1>4, <1>5, <1>6, <1>7 DEF Effects, Others

(* The unit of an expired hold is released. *)
LEMMA FreeHeldEffects ==
  ASSUME Inv, NEW w \in Slots, FreeHeld(w), UNCHANGED salesVars
  PROVE  Effects(w)
<1>1. Others(w) /\ req'[w].pc = "sweepHolds" /\ req'[w].unit = req[w].unit
        /\ req'[w].res = req[w].res
        /\ req'[w].con = req[w].con /\ req'[w].todo = req[w].todo
  <2>1. req \in [Slots -> Request] /\ req[w] \in Request /\ "sweepHolds" \in Pcs
    BY DEF Inv, TypeOK, Pcs
  <2>2. Goto(w, "sweepHolds")
    BY DEF FreeHeld, Goto, Finish
  <2> QED
    BY <2>1, <2>2 DEF Goto, Finish, Become, Others, Request
<1>2. TypeOK'
  BY <1>1 DEF Others, FreeHeld, SetUnit, Inv, TypeOK, salesVars, UnitStatus
<1>3. Grow /\ Frame(w)
  BY NoneAssumption DEF FreeHeld, SetUnit, Inv, TypeOK, Grow, Frame, salesVars
<1>4. ContractsRefer' /\ OneContractPerReservation'
  BY <1>3 DEF FreeHeld, SetUnit, Grow, Inv, TypeOK, ContractsRefer,
     OneContractPerReservation, ReservationExists, salesVars
<1>5. Refers(w)' /\ Owns(w)'
  BY <1>1, NoneAssumption DEF FreeHeld, SetUnit, Inv, TypeOK, Refers, Owns, HoldExists,
     ReservationExists, ContractExists, Signing, Signed, Taking, Sweeping, Cancelling,
     salesVars
<1> QED
  BY <1>1, <1>2, <1>3, <1>4, <1>5 DEF Effects, Others

(* A refused call gives back its own lock. *)
LEMMA RefuseEffects ==
  ASSUME Inv, NEW w \in Slots, Refuse(w), UNCHANGED salesVars
  PROVE  Effects(w)
<1>1. Others(w) /\ req'[w].pc = "idle"
  <2>1. req \in [Slots -> Request] /\ req[w] \in Request /\ "idle" \in Pcs
    BY DEF Inv, TypeOK, Pcs
  <2>2. Finish(w)
    BY DEF Refuse, Goto, Finish
  <2> QED
    BY <2>1, <2>2, IdleRequest DEF Goto, Finish, Become, Others, Request
<1>2. TypeOK'
  BY <1>1 DEF Others, Refuse, Unlock, Inv, TypeOK, salesVars
<1>3. Grow /\ Frame(w)
  BY NoneAssumption DEF Refuse, Unlock, Inv, TypeOK, Grow, Frame, salesVars, Owns, Refers,
     Taking
<1>4. ContractsRefer' /\ OneContractPerReservation'
  BY <1>3 DEF Refuse, Unlock, Grow, Inv, TypeOK, ContractsRefer,
     OneContractPerReservation, ReservationExists, salesVars
<1>5. Refers(w)' /\ Owns(w)'
  BY <1>1, NoneAssumption DEF Refuse, Unlock, Inv, TypeOK, Refers, Owns, HoldExists,
     ReservationExists, ContractExists, Signing, Signed, Taking, Sweeping, Cancelling,
     salesVars
<1> QED
  BY <1>1, <1>2, <1>3, <1>4, <1>5 DEF Effects, Others

(* The unit was read as available under the lock: it is not contracted. *)
LEMMA SaveHoldEffects ==
  ASSUME Inv, NEW w \in Slots, NEW h \in Holds, SaveHold(w, h), UNCHANGED salesVars
  PROVE  Effects(w)
<1>1. Others(w) /\ req'[w].pc = "saveUnit" /\ req'[w].unit = req[w].unit
        /\ req'[w].res = req[w].res
        /\ req'[w].con = req[w].con /\ req'[w].todo = req[w].todo
  <2>1. req \in [Slots -> Request] /\ req[w] \in Request /\ "saveUnit" \in Pcs
    BY DEF Inv, TypeOK, Pcs
  <2>2. Goto(w, "saveUnit")
    BY DEF SaveHold, Goto, Finish
  <2> QED
    BY <2>1, <2>2 DEF Goto, Finish, Become, Others, Request
<1>2. [unit |-> req[w].unit, active |-> TRUE, expired |-> FALSE] \in HoldRow
  BY DEF SaveHold, Inv, Refers, Taking, HoldRow
<1>3. TypeOK'
  BY <1>1, <1>2 DEF Others, SaveHold, Inv, TypeOK, salesVars
<1>4. Grow /\ Frame(w)
  BY NoneAssumption, <1>2 DEF SaveHold, Inv, TypeOK, Grow, Frame, salesVars
<1>5. ContractsRefer' /\ OneContractPerReservation'
  BY <1>4 DEF SaveHold, Grow, Inv, TypeOK, ContractsRefer, OneContractPerReservation,
     ReservationExists, salesVars
<1>6. Refers(w)' /\ Owns(w)'
  BY <1>1, NoneAssumption, <1>2 DEF SaveHold, Inv, TypeOK, Refers, Owns, HoldExists,
     ReservationExists, ContractExists, Signing, Signed, Taking, Sweeping, Cancelling,
     salesVars, Takeable
<1> QED
  BY <1>1, <1>3, <1>4, <1>5, <1>6 DEF Effects, Others

(* The unit was read as available or held under the lock: it is not contracted. *)
LEMMA SaveReservationEffects ==
  ASSUME Inv, NEW w \in Slots, NEW r \in Reservations, SaveReservation(w, r), UNCHANGED salesVars
  PROVE  Effects(w)
<1>1. Others(w) /\ req'[w].pc = "saveUnit" /\ req'[w].unit = req[w].unit
  <2>1. req \in [Slots -> Request] /\ req[w] \in Request /\ "saveUnit" \in Pcs
    BY DEF Inv, TypeOK, Pcs
  <2>2. Become(w, [req[w] EXCEPT !.pc = "saveUnit", !.res = r])
    BY DEF SaveReservation, Goto, Finish
  <2> QED
    BY <2>1, <2>2 DEF Goto, Finish, Become, Others, Request
<1>2. [unit |-> req[w].unit, opportunity |-> req[w].opp, status |-> "active", expired |-> FALSE]
       \in ReservationRow
  BY DEF SaveReservation, Inv, TypeOK, Request, Refers, Taking, ReservationRow,
     ReservationStatus
<1>3. TypeOK'
  BY <1>1, <1>2 DEF Others, SaveReservation, Inv, TypeOK, salesVars
<1>4. Grow /\ Frame(w)
  BY NoneAssumption, <1>2 DEF SaveReservation, Inv, TypeOK, Grow, Frame, salesVars
<1>5. ContractsRefer' /\ OneContractPerReservation'
  BY <1>4 DEF SaveReservation, Grow, Inv, TypeOK, ContractsRefer,
     OneContractPerReservation, ReservationExists, salesVars
<1>6. Refers(w)' /\ Owns(w)'
  BY <1>1, NoneAssumption, <1>2 DEF SaveReservation, Inv, TypeOK, Refers, Owns,
     HoldExists, ReservationExists, ContractExists, Signing, Signed, Taking, Sweeping,
     Cancelling, salesVars, Takeable
<1> QED
  BY <1>1, <1>3, <1>4, <1>5, <1>6 DEF Effects, Others

(* The unit is taken and its lock given back. *)
LEMMA SaveUnitEffects ==
  ASSUME Inv, NEW w \in Slots, SaveUnit(w), UNCHANGED salesVars
  PROVE  Effects(w)
<1>1. Others(w) /\ req'[w].pc \in {"saveOpportunity", "idle"}
  <2>1. req \in [Slots -> Request] /\ req[w] \in Request /\ "saveOpportunity" \in Pcs
    BY DEF Inv, TypeOK, Pcs
  <2>2. (Goto(w, "saveOpportunity") \/ Finish(w))
    BY DEF SaveUnit, Goto, Finish
  <2> QED
    BY <2>1, <2>2, IdleRequest DEF Goto, Finish, Become, Others, Request
<1>2. TypeOK'
  BY <1>1 DEF Others, SaveUnit, SetUnit, Unlock, Inv, TypeOK, salesVars, UnitStatus
<1>3. Grow /\ Frame(w)
  BY NoneAssumption DEF SaveUnit, SetUnit, Unlock, Inv, TypeOK, Grow, Frame, salesVars,
     Owns, Refers, Taking
<1>4. ContractsRefer' /\ OneContractPerReservation'
  BY <1>3 DEF SaveUnit, SetUnit, Unlock, Grow, Inv, TypeOK, ContractsRefer,
     OneContractPerReservation, ReservationExists, salesVars
<1>5. Refers(w)' /\ Owns(w)'
  BY <1>1, NoneAssumption DEF SaveUnit, SetUnit, Unlock, Inv, TypeOK, Refers, Owns,
     HoldExists, ReservationExists, ContractExists, Signing, Signed, Taking, Sweeping,
     Cancelling, salesVars
<1> QED
  BY <1>1, <1>2, <1>3, <1>4, <1>5 DEF Effects, Others

(* An edit reads an available unit. *)
LEMMA StartEditEffects ==
  ASSUME Inv, NEW w \in Slots, NEW u \in Units, StartEdit(w, u), UNCHANGED salesVars
  PROVE  Effects(w)
<1>1. Others(w) /\ req'[w].pc = "editSave"
  <2>1. req \in [Slots -> Request] /\ req[w] \in Request /\ "editSave" \in Pcs /\ "edit" \in Ops
    BY DEF Inv, TypeOK, Pcs, Ops
  <2>2. Become(w, [Idle EXCEPT !.op = "edit", !.pc = "editSave", !.unit = u])
    BY DEF StartEdit, Goto, Finish
  <2> QED
    BY <2>1, <2>2, IdleRequest DEF Goto, Finish, Become, Others, Request
<1>2. TypeOK'
  BY <1>1 DEF Others, StartEdit, Inv, TypeOK, salesVars
<1>3. Grow /\ Frame(w)
  BY NoneAssumption DEF StartEdit, Inv, TypeOK, Grow, Frame, salesVars
<1>4. ContractsRefer' /\ OneContractPerReservation'
  BY <1>3 DEF StartEdit, Grow, Inv, TypeOK, ContractsRefer, OneContractPerReservation,
     ReservationExists, salesVars
<1>5. Refers(w)' /\ Owns(w)'
  BY <1>1, NoneAssumption DEF StartEdit, Inv, TypeOK, Refers, Owns, HoldExists,
     ReservationExists, ContractExists, Signing, Signed, Taking, Sweeping, Cancelling,
     salesVars
<1> QED
  BY <1>1, <1>2, <1>3, <1>4, <1>5 DEF Effects, Others

(* An edit makes no unit contracted. *)
LEMMA SaveEditEffects ==
  ASSUME Inv, NEW w \in Slots, SaveEdit(w), UNCHANGED salesVars
  PROVE  Effects(w)
<1>1. Others(w) /\ req'[w].pc = "idle"
  <2>1. req \in [Slots -> Request] /\ req[w] \in Request /\ "idle" \in Pcs
    BY DEF Inv, TypeOK, Pcs
  <2>2. Finish(w)
    BY DEF SaveEdit, Goto, Finish
  <2> QED
    BY <2>1, <2>2, IdleRequest DEF Goto, Finish, Become, Others, Request
<1>2. TypeOK'
  BY <1>1 DEF Others, SaveEdit, SetUnit, Inv, TypeOK, salesVars, UnitStatus
<1>3. Grow /\ Frame(w)
  BY NoneAssumption DEF SaveEdit, SetUnit, Inv, TypeOK, Grow, Frame, salesVars
<1>4. ContractsRefer' /\ OneContractPerReservation'
  BY <1>3 DEF SaveEdit, SetUnit, Grow, Inv, TypeOK, ContractsRefer,
     OneContractPerReservation, ReservationExists, salesVars
<1>5. Refers(w)' /\ Owns(w)'
  BY <1>1, NoneAssumption DEF SaveEdit, SetUnit, Inv, TypeOK, Refers, Owns, HoldExists,
     ReservationExists, ContractExists, Signing, Signed, Taking, Sweeping, Cancelling,
     salesVars
<1> QED
  BY <1>1, <1>2, <1>3, <1>4, <1>5 DEF Effects, Others

(* The sweep lists reservations that exist. *)
LEMMA StartSweepEffects ==
  ASSUME Inv, NEW w \in Slots, StartSweep(w), UNCHANGED salesVars
  PROVE  Effects(w)
<1>1. Others(w) /\ req'[w].pc = "sweep" /\ req'[w].todo = Expired
  <2>1. req \in [Slots -> Request] /\ req[w] \in Request /\ "sweep" \in Pcs
          /\ "sweep" \in Ops /\ Expired \in SUBSET Reservations
    BY DEF Inv, TypeOK, Pcs, Ops, Expired
  <2>2. Become(w, [Idle EXCEPT !.op = "sweep", !.pc = "sweep", !.todo = Expired])
    BY DEF StartSweep, Goto, Finish, SweepNext
  <2>3. Expired \in SUBSET (Holds \cup Reservations)
    BY <2>1
  <2> QED
    BY <2>1, <2>2, <2>3, IdleRequest DEF Goto, Finish, Become, Others, Request
<1>2. TypeOK'
  BY <1>1 DEF Others, StartSweep, Inv, TypeOK, salesVars
<1>3. Grow /\ Frame(w)
  BY NoneAssumption DEF StartSweep, Inv, TypeOK, Grow, Frame, salesVars
<1>4. ContractsRefer' /\ OneContractPerReservation'
  BY <1>3 DEF StartSweep, Grow, Inv, TypeOK, ContractsRefer, OneContractPerReservation,
     ReservationExists, salesVars
<1>5. Refers(w)' /\ Owns(w)'
  BY <1>1, NoneAssumption DEF StartSweep, Inv, TypeOK, Refers, Owns, HoldExists,
     ReservationExists, ContractExists, Signing, Signed, Taking, Sweeping, Cancelling,
     salesVars, Expired
<1> QED
  BY <1>1, <1>2, <1>3, <1>4, <1>5 DEF Effects, Others

(* One candidate is saved as cancelled. *)
LEMMA SweepCancelEffects ==
  ASSUME Inv, NEW w \in Slots, NEW r \in Reservations, SweepCancel(w, r), UNCHANGED salesVars
  PROVE  Effects(w)
<1>1. Others(w) /\ req'[w].pc = "sweepLock" /\ req'[w].unit = reservations[r].unit
        /\ req'[w].todo = req[w].todo \ {r}
  <2>0. reservations[r] # None
    BY DEF SweepCancel, Inv, Refers, ReservationExists, Sweeping
  <2>1. req \in [Slots -> Request] /\ req[w] \in Request /\ "sweepLock" \in Pcs
    BY DEF Inv, TypeOK, Pcs
  <2>2. Become(w, [req[w] EXCEPT !.pc = "sweepLock", !.unit = reservations[r].unit,
                                   !.res = r, !.todo = req[w].todo \ {r}])
    BY DEF SweepCancel, Goto, Finish
  <2>3. req[w].todo \ {r} \in SUBSET (Holds \cup Reservations)
    BY <2>1 DEF Request
  <2>4. reservations[r].unit \in Units
    BY <2>0 DEF Inv, TypeOK, ReservationRow
  <2> QED
    BY <2>1, <2>2, <2>3, <2>4 DEF Goto, Finish, Become, Others, Request
<1>2. reservations[r] # None /\ reservations[r] \in ReservationRow
  BY DEF SweepCancel, Inv, TypeOK, Refers, ReservationExists, Sweeping
<1>3. [reservations[r] EXCEPT !.status = "cancelled"] \in ReservationRow
        /\ reservations[r].unit \in Units
  BY <1>2 DEF ReservationRow, ReservationStatus
<1>4. TypeOK'
  BY <1>1, <1>2, <1>3 DEF Others, SweepCancel, Inv, TypeOK, salesVars
<1>5. Grow /\ Frame(w)
  BY NoneAssumption, <1>2, <1>3 DEF SweepCancel, Inv, TypeOK, Grow, Frame, salesVars
<1>6. ContractsRefer' /\ OneContractPerReservation'
  BY <1>5 DEF SweepCancel, Grow, Inv, TypeOK, ContractsRefer, OneContractPerReservation,
     ReservationExists, salesVars
<1>7. Refers(w)' /\ Owns(w)'
  BY <1>1, NoneAssumption, <1>2, <1>3 DEF SweepCancel, Inv, TypeOK, Refers, Owns,
     HoldExists, ReservationExists, ContractExists, Signing, Signed, Taking, Sweeping,
     Cancelling, salesVars
<1> QED
  BY <1>1, <1>4, <1>5, <1>6, <1>7 DEF Effects, Others

(* The unit is not reserved: the sweep goes on. *)
LEMMA SweepLeaveEffects ==
  ASSUME Inv, NEW w \in Slots, SweepLeave(w), UNCHANGED salesVars
  PROVE  Effects(w)
<1>1. Others(w) /\ req'[w].pc \in {"sweep", "idle"}
        /\ (req'[w].pc = "sweep" => req'[w].todo = req[w].todo)
  <2>1. req \in [Slots -> Request] /\ req[w] \in Request /\ "sweep" \in Pcs
    BY DEF Inv, TypeOK, Pcs
  <2>2. (Goto(w, "sweep") \/ Finish(w))
    BY DEF SweepLeave, Goto, Finish, SweepNext
  <2> QED
    BY <2>1, <2>2, IdleRequest DEF Goto, Finish, Become, Others, Request
<1>2. TypeOK'
  BY <1>1 DEF Others, SweepLeave, Inv, TypeOK, salesVars
<1>3. Grow /\ Frame(w)
  BY NoneAssumption DEF SweepLeave, Inv, TypeOK, Grow, Frame, salesVars
<1>4. ContractsRefer' /\ OneContractPerReservation'
  BY <1>3 DEF SweepLeave, Grow, Inv, TypeOK, ContractsRefer, OneContractPerReservation,
     ReservationExists, salesVars
<1>5. Refers(w)' /\ Owns(w)'
  BY <1>1, NoneAssumption DEF SweepLeave, Inv, TypeOK, Refers, Owns, HoldExists,
     ReservationExists, ContractExists, Signing, Signed, Taking, Sweeping, Cancelling,
     salesVars
<1> QED
  BY <1>1, <1>2, <1>3, <1>4, <1>5 DEF Effects, Others

(* The sweep reads the unit as reserved, under the lock. *)
LEMMA SweepAcquireEffects ==
  ASSUME Inv, NEW w \in Slots, SweepAcquire(w), UNCHANGED salesVars
  PROVE  Effects(w)
<1>1. Others(w) /\ req'[w].pc = "sweepFree" /\ req'[w].unit = req[w].unit
        /\ req'[w].res = req[w].res
        /\ req'[w].con = req[w].con /\ req'[w].todo = req[w].todo
  <2>1. req \in [Slots -> Request] /\ req[w] \in Request /\ "sweepFree" \in Pcs
    BY DEF Inv, TypeOK, Pcs
  <2>2. Goto(w, "sweepFree")
    BY DEF SweepAcquire, Goto, Finish
  <2> QED
    BY <2>1, <2>2 DEF Goto, Finish, Become, Others, Request
<1>2. TypeOK'
  BY <1>1 DEF Others, SweepAcquire, Lock, Free, Inv, TypeOK, salesVars
<1>3. Grow /\ Frame(w)
  BY NoneAssumption DEF SweepAcquire, Lock, Free, Inv, TypeOK, Grow, Frame, salesVars
<1>4. ContractsRefer' /\ OneContractPerReservation'
  BY <1>3 DEF SweepAcquire, Lock, Free, Grow, Inv, TypeOK, ContractsRefer,
     OneContractPerReservation, ReservationExists, salesVars
<1>5. Refers(w)' /\ Owns(w)'
  BY <1>1, NoneAssumption DEF SweepAcquire, Lock, Free, Inv, TypeOK, Refers, Owns,
     HoldExists, ReservationExists, ContractExists, Signing, Signed, Taking, Sweeping,
     Cancelling, salesVars
<1> QED
  BY <1>1, <1>2, <1>3, <1>4, <1>5 DEF Effects, Others

(* The sweep releases the unit and its lock. *)
LEMMA SweepFreeEffects ==
  ASSUME Inv, NEW w \in Slots, SweepFree(w), UNCHANGED salesVars
  PROVE  Effects(w)
<1>1. Others(w) /\ req'[w].pc \in {"sweep", "idle"}
        /\ (req'[w].pc = "sweep" => req'[w].todo = req[w].todo)
  <2>1. req \in [Slots -> Request] /\ req[w] \in Request /\ "sweep" \in Pcs
    BY DEF Inv, TypeOK, Pcs
  <2>2. (Goto(w, "sweep") \/ Finish(w))
    BY DEF SweepFree, Goto, Finish, SweepNext
  <2> QED
    BY <2>1, <2>2, IdleRequest DEF Goto, Finish, Become, Others, Request
<1>2. TypeOK'
  BY <1>1 DEF Others, SweepFree, SetUnit, Unlock, Inv, TypeOK, salesVars, UnitStatus
<1>3. Grow /\ Frame(w)
  BY NoneAssumption DEF SweepFree, SetUnit, Unlock, Inv, TypeOK, Grow, Frame, salesVars,
     Owns, Refers, Sweeping
<1>4. ContractsRefer' /\ OneContractPerReservation'
  BY <1>3 DEF SweepFree, SetUnit, Unlock, Grow, Inv, TypeOK, ContractsRefer,
     OneContractPerReservation, ReservationExists, salesVars
<1>5. Refers(w)' /\ Owns(w)'
  BY <1>1, NoneAssumption DEF SweepFree, SetUnit, Unlock, Inv, TypeOK, Refers, Owns,
     HoldExists, ReservationExists, ContractExists, Signing, Signed, Taking, Sweeping,
     Cancelling, salesVars
<1> QED
  BY <1>1, <1>2, <1>3, <1>4, <1>5 DEF Effects, Others

(* The opportunity is saved as reserved. *)
LEMMA SaveOpportunityEffects ==
  ASSUME Inv, NEW w \in Slots, SaveOpportunity(w)
  PROVE  Effects(w)
<1>1. Others(w) /\ req'[w].pc = "idle"
  <2>1. req \in [Slots -> Request] /\ req[w] \in Request /\ "idle" \in Pcs
    BY DEF Inv, TypeOK, Pcs
  <2>2. Finish(w)
    BY DEF SaveOpportunity, Goto, Finish
  <2> QED
    BY <2>1, <2>2, IdleRequest DEF Goto, Finish, Become, Others, Request
<1>2. TypeOK'
  BY <1>1 DEF Others, SaveOpportunity, Inv, TypeOK, OpportunityStage
<1>3. Grow /\ Frame(w)
  BY NoneAssumption DEF SaveOpportunity, Inv, TypeOK, Grow, Frame
<1>4. ContractsRefer' /\ OneContractPerReservation'
  BY <1>3 DEF SaveOpportunity, Grow, Inv, TypeOK, ContractsRefer,
     OneContractPerReservation, ReservationExists
<1>5. Refers(w)' /\ Owns(w)'
  BY <1>1, NoneAssumption DEF SaveOpportunity, Inv, TypeOK, Refers, Owns, HoldExists,
     ReservationExists, ContractExists, Signing, Signed, Taking, Sweeping, Cancelling
<1> QED
  BY <1>1, <1>2, <1>3, <1>4, <1>5 DEF Effects, Others

(* The reservation to sign exists. *)
LEMMA StartSignEffects ==
  ASSUME Inv, NEW w \in Slots, NEW r \in Reservations, StartSign(w, r)
  PROVE  Effects(w)
<1>1. Others(w) /\ req'[w].pc = "signLock" /\ req'[w].res = r
  <2>1. req \in [Slots -> Request] /\ req[w] \in Request /\ "signLock" \in Pcs /\ "sign" \in Ops
    BY DEF Inv, TypeOK, Pcs, Ops
  <2>2. Become(w, [Idle EXCEPT !.op = "sign", !.pc = "signLock", !.res = r])
    BY DEF StartSign, Goto, Finish
  <2> QED
    BY <2>1, <2>2, IdleRequest DEF Goto, Finish, Become, Others, Request
<1>2. TypeOK'
  BY <1>1 DEF Others, StartSign, salesVars, Inv, TypeOK
<1>3. Grow /\ Frame(w)
  BY NoneAssumption DEF StartSign, salesVars, Inv, TypeOK, Grow, Frame
<1>4. ContractsRefer' /\ OneContractPerReservation'
  BY <1>3 DEF StartSign, salesVars, Grow, Inv, TypeOK, ContractsRefer,
     OneContractPerReservation, ReservationExists
<1>5. Refers(w)' /\ Owns(w)'
  BY <1>1, NoneAssumption DEF StartSign, salesVars, Inv, TypeOK, Refers, Owns, HoldExists,
     ReservationExists, ContractExists, Signing, Signed, Taking, Sweeping, Cancelling
<1> QED
  BY <1>1, <1>2, <1>3, <1>4, <1>5 DEF Effects, Others

(* Nothing is signed. *)
LEMMA SignRefuseEffects ==
  ASSUME Inv, NEW w \in Slots, SignRefuse(w)
  PROVE  Effects(w)
<1>1. Others(w) /\ req'[w].pc = "idle"
  <2>1. req \in [Slots -> Request] /\ req[w] \in Request /\ "idle" \in Pcs
    BY DEF Inv, TypeOK, Pcs
  <2>2. Finish(w)
    BY DEF SignRefuse, Goto, Finish
  <2> QED
    BY <2>1, <2>2, IdleRequest DEF Goto, Finish, Become, Others, Request
<1>2. TypeOK'
  BY <1>1 DEF Others, SignRefuse, salesVars, Inv, TypeOK
<1>3. Grow /\ Frame(w)
  BY NoneAssumption DEF SignRefuse, salesVars, Inv, TypeOK, Grow, Frame
<1>4. ContractsRefer' /\ OneContractPerReservation'
  BY <1>3 DEF SignRefuse, salesVars, Grow, Inv, TypeOK, ContractsRefer,
     OneContractPerReservation, ReservationExists
<1>5. Refers(w)' /\ Owns(w)'
  BY <1>1, NoneAssumption DEF SignRefuse, salesVars, Inv, TypeOK, Refers, Owns,
     HoldExists, ReservationExists, ContractExists, Signing, Signed, Taking, Sweeping,
     Cancelling
<1> QED
  BY <1>1, <1>2, <1>3, <1>4, <1>5 DEF Effects, Others

(* Under signMutex: the reservation has no contract. *)
LEMMA SignCheckEffects ==
  ASSUME Inv, NEW w \in Slots, SignCheck(w)
  PROVE  Effects(w)
<1>1. Others(w) /\ req'[w].pc = "signSave" /\ req'[w].unit = reservations[req[w].res].unit
        /\ req'[w].res = req[w].res
  <2>0. reservations[req[w].res] \in ReservationRow
    BY DEF SignCheck, Inv, TypeOK, Refers, ReservationExists, Signing
  <2>1. req \in [Slots -> Request] /\ req[w] \in Request /\ "signSave" \in Pcs
    BY DEF Inv, TypeOK, Pcs
  <2>2. Become(w, [req[w] EXCEPT !.pc = "signSave", !.unit = reservations[req[w].res].unit,
                                   !.opp = reservations[req[w].res].opportunity])
    BY DEF SignCheck, Goto, Finish
  <2>3. reservations[req[w].res].unit \in Units
          /\ reservations[req[w].res].opportunity \in Opportunities \cup {None}
    BY <2>0 DEF ReservationRow
  <2> QED
    BY <2>1, <2>2, <2>3 DEF Goto, Finish, Become, Others, Request
<1>2. ReservationExists(req[w].res) /\ reservations[req[w].res].unit \in Units
  BY DEF SignCheck, Inv, TypeOK, Refers, ReservationExists, Signing, ReservationRow
<1>3. TypeOK'
  BY <1>1, <1>2 DEF Others, SignCheck, Inv, TypeOK
<1>4. Grow /\ Frame(w)
  BY NoneAssumption, <1>2 DEF SignCheck, Inv, TypeOK, Grow, Frame
<1>5. ContractsRefer' /\ OneContractPerReservation'
  BY <1>4 DEF SignCheck, Grow, Inv, TypeOK, ContractsRefer, OneContractPerReservation,
     ReservationExists
<1>6. Refers(w)' /\ Owns(w)'
  BY <1>1, NoneAssumption, <1>2 DEF SignCheck, Inv, TypeOK, Refers, Owns, HoldExists,
     ReservationExists, ContractExists, Signing, Signed, Taking, Sweeping, Cancelling,
     Signable, ContractsFor
<1> QED
  BY <1>1, <1>3, <1>4, <1>5, <1>6 DEF Effects, Others

(* The first contract of its reservation. *)
LEMMA SignSaveEffects ==
  ASSUME Inv, NEW w \in Slots, NEW c \in Contracts, SignSave(w, c)
  PROVE  Effects(w)
<1>1. Others(w) /\ req'[w].pc = "signPlan" /\ req'[w].unit = req[w].unit
        /\ req'[w].res = req[w].res /\ req'[w].con = c
  <2>1. req \in [Slots -> Request] /\ req[w] \in Request /\ "signPlan" \in Pcs
    BY DEF Inv, TypeOK, Pcs
  <2>2. Become(w, [req[w] EXCEPT !.pc = "signPlan", !.con = c])
    BY DEF SignSave, Goto, Finish
  <2> QED
    BY <2>1, <2>2 DEF Goto, Finish, Become, Others, Request
<1>2. ReservationExists(req[w].res) /\ signLock[req[w].res] = w /\ ContractsFor(req[w].res) = {}
  BY DEF SignSave, Inv, Refers, Owns, Signing
<1>3. [reservation |-> req[w].res, status |-> "signed"] \in ContractRow
  BY <1>2 DEF ContractRow, ContractStatus, ReservationExists
<1>4. contracts' = [contracts EXCEPT ![c] = [reservation |-> req[w].res, status |-> "signed"]]
      /\ reservations' = reservations /\ contracts \in [Contracts -> ContractRow \cup {None}]
  BY DEF SignSave, Inv, TypeOK
<1>5. TypeOK'
  BY <1>1, <1>2, <1>3, NoContractAssumption DEF Others, SignSave, Inv, TypeOK
<1>6. Grow /\ Frame(w)
  BY NoneAssumption, <1>2, <1>3, NoContractAssumption DEF SignSave, Inv, TypeOK, Grow,
     Frame
<1>7. ContractsRefer' /\ OneContractPerReservation'
  BY <1>2, <1>4, NoContractAssumption DEF Inv, ContractsRefer, OneContractPerReservation,
     ReservationExists, ContractsFor
<1>8. Refers(w)' /\ Owns(w)'
  BY <1>1, NoneAssumption, <1>2, <1>3, NoContractAssumption DEF SignSave, Inv, TypeOK,
     Refers, Owns, HoldExists, ReservationExists, ContractExists, Signing, Signed, Taking,
     Sweeping, Cancelling
<1> QED
  BY <1>1, <1>5, <1>6, <1>7, <1>8 DEF Effects, Others

(* The schedule is generated. *)
LEMMA SignPlanEffects ==
  ASSUME Inv, NEW w \in Slots, SignPlan(w)
  PROVE  Effects(w)
<1>1. Others(w) /\ req'[w].pc = "signUnit" /\ req'[w].unit = req[w].unit
        /\ req'[w].res = req[w].res
        /\ req'[w].con = req[w].con /\ req'[w].todo = req[w].todo
  <2>1. req \in [Slots -> Request] /\ req[w] \in Request /\ "signUnit" \in Pcs
    BY DEF Inv, TypeOK, Pcs
  <2>2. Goto(w, "signUnit")
    BY DEF SignPlan, Goto, Finish
  <2> QED
    BY <2>1, <2>2 DEF Goto, Finish, Become, Others, Request
<1>2. TypeOK'
  BY <1>1 DEF Others, SignPlan, Inv, TypeOK, Refers, Signed, ContractExists
<1>3. Grow /\ Frame(w)
  BY NoneAssumption DEF SignPlan, Inv, TypeOK, Grow, Frame
<1>4. ContractsRefer' /\ OneContractPerReservation'
  BY <1>3 DEF SignPlan, Grow, Inv, TypeOK, ContractsRefer, OneContractPerReservation,
     ReservationExists
<1>5. Refers(w)' /\ Owns(w)'
  BY <1>1, NoneAssumption DEF SignPlan, Inv, TypeOK, Refers, Owns, HoldExists,
     ReservationExists, ContractExists, Signing, Signed, Taking, Sweeping, Cancelling
<1> QED
  BY <1>1, <1>2, <1>3, <1>4, <1>5 DEF Effects, Others

(* The failed signer gives back its own signMutex. *)
LEMMA SignPlanFailsEffects ==
  ASSUME Inv, NEW w \in Slots, SignPlanFails(w)
  PROVE  Effects(w)
<1>1. Others(w) /\ req'[w].pc = "idle"
  <2>1. req \in [Slots -> Request] /\ req[w] \in Request /\ "idle" \in Pcs
    BY DEF Inv, TypeOK, Pcs
  <2>2. Finish(w)
    BY DEF SignPlanFails, Goto, Finish
  <2> QED
    BY <2>1, <2>2, IdleRequest DEF Goto, Finish, Become, Others, Request
<1>2. TypeOK'
  BY <1>1 DEF Others, SignPlanFails, UnlockSign, Inv, TypeOK
<1>3. Grow /\ Frame(w)
  BY NoneAssumption DEF SignPlanFails, UnlockSign, Inv, TypeOK, Grow, Frame, Owns, Refers,
     Signing
<1>4. ContractsRefer' /\ OneContractPerReservation'
  BY <1>3 DEF SignPlanFails, UnlockSign, Grow, Inv, TypeOK, ContractsRefer,
     OneContractPerReservation, ReservationExists
<1>5. Refers(w)' /\ Owns(w)'
  BY <1>1, NoneAssumption DEF SignPlanFails, UnlockSign, Inv, TypeOK, Refers, Owns,
     HoldExists, ReservationExists, ContractExists, Signing, Signed, Taking, Sweeping,
     Cancelling
<1> QED
  BY <1>1, <1>2, <1>3, <1>4, <1>5 DEF Effects, Others

(* The unit becomes contracted while nobody holds its lock. *)
LEMMA SignUnitEffects ==
  ASSUME Inv, NEW w \in Slots, SignUnit(w)
  PROVE  Effects(w)
<1>1. Others(w) /\ req'[w].pc = "signReservation" /\ req'[w].unit = req[w].unit
        /\ req'[w].res = req[w].res
        /\ req'[w].con = req[w].con /\ req'[w].todo = req[w].todo
  <2>1. req \in [Slots -> Request] /\ req[w] \in Request /\ "signReservation" \in Pcs
    BY DEF Inv, TypeOK, Pcs
  <2>2. Goto(w, "signReservation")
    BY DEF SignUnit, Goto, Finish
  <2> QED
    BY <2>1, <2>2 DEF Goto, Finish, Become, Others, Request
<1>2. TypeOK'
  BY <1>1 DEF Others, SignUnit, SetUnit, Free, salesVars, Inv, TypeOK, UnitStatus
<1>3. Grow /\ Frame(w)
  BY NoneAssumption DEF SignUnit, SetUnit, Free, salesVars, Inv, TypeOK, Grow, Frame
<1>4. ContractsRefer' /\ OneContractPerReservation'
  BY <1>3 DEF SignUnit, SetUnit, Free, salesVars, Grow, Inv, TypeOK, ContractsRefer,
     OneContractPerReservation, ReservationExists
<1>5. Refers(w)' /\ Owns(w)'
  BY <1>1, NoneAssumption DEF SignUnit, SetUnit, Free, salesVars, Inv, TypeOK, Refers,
     Owns, HoldExists, ReservationExists, ContractExists, Signing, Signed, Taking,
     Sweeping, Cancelling
<1> QED
  BY <1>1, <1>2, <1>3, <1>4, <1>5 DEF Effects, Others

(* The reservation is converted. *)
LEMMA SignReservationEffects ==
  ASSUME Inv, NEW w \in Slots, SignReservation(w)
  PROVE  Effects(w)
<1>1. Others(w) /\ req'[w].pc \in {"signWon", "idle"}
      /\ (req'[w].pc = "signWon" => req'[w].unit = req[w].unit /\ req'[w].res = req[w].res
                                    /\ req'[w].con = req[w].con /\ signLock' = signLock)
  <2>1. req \in [Slots -> Request] /\ req[w] \in Request /\ "signWon" \in Pcs
    BY DEF Inv, TypeOK, Pcs
  <2>2. ((Goto(w, "signWon") /\ signLock' = signLock) \/ Finish(w))
    BY DEF SignReservation, Goto, Finish
  <2> QED
    BY <2>1, <2>2, IdleRequest DEF Goto, Finish, Become, Others, Request
<1>2. reservations[req[w].res] # None /\ reservations[req[w].res] \in ReservationRow
  BY DEF SignReservation, Inv, TypeOK, Refers, ReservationExists, Signing
<1>3. [reservations[req[w].res] EXCEPT !.status = "converted"] \in ReservationRow
  BY <1>2 DEF ReservationRow, ReservationStatus
<1>4. TypeOK'
  BY <1>1, <1>2, <1>3 DEF Others, SignReservation, UnlockSign, Inv, TypeOK
<1>5. Grow /\ Frame(w)
  BY NoneAssumption, <1>2, <1>3 DEF SignReservation, UnlockSign, Inv, TypeOK, Grow, Frame,
     Owns, Refers, Signing
<1>6. ContractsRefer' /\ OneContractPerReservation'
  BY <1>5 DEF SignReservation, UnlockSign, Grow, Inv, TypeOK, ContractsRefer,
     OneContractPerReservation, ReservationExists
<1>7. Refers(w)' /\ Owns(w)'
  BY <1>1, NoneAssumption, <1>2, <1>3 DEF SignReservation, UnlockSign, Inv, TypeOK,
     Refers, Owns, HoldExists, ReservationExists, ContractExists, Signing, Signed, Taking,
     Sweeping, Cancelling
<1> QED
  BY <1>1, <1>4, <1>5, <1>6, <1>7 DEF Effects, Others

(* The opportunity is won. *)
LEMMA SignWonEffects ==
  ASSUME Inv, NEW w \in Slots, SignWon(w)
  PROVE  Effects(w)
<1>1. Others(w) /\ req'[w].pc = "idle"
  <2>1. req \in [Slots -> Request] /\ req[w] \in Request /\ "idle" \in Pcs
    BY DEF Inv, TypeOK, Pcs
  <2>2. Finish(w)
    BY DEF SignWon, Goto, Finish
  <2> QED
    BY <2>1, <2>2, IdleRequest DEF Goto, Finish, Become, Others, Request
<1>2. TypeOK'
  BY <1>1 DEF Others, SignWon, UnlockSign, Inv, TypeOK, OpportunityStage
<1>3. Grow /\ Frame(w)
  BY NoneAssumption DEF SignWon, UnlockSign, Inv, TypeOK, Grow, Frame, Owns, Refers,
     Signing
<1>4. ContractsRefer' /\ OneContractPerReservation'
  BY <1>3 DEF SignWon, UnlockSign, Grow, Inv, TypeOK, ContractsRefer,
     OneContractPerReservation, ReservationExists
<1>5. Refers(w)' /\ Owns(w)'
  BY <1>1, NoneAssumption DEF SignWon, UnlockSign, Inv, TypeOK, Refers, Owns, HoldExists,
     ReservationExists, ContractExists, Signing, Signed, Taking, Sweeping, Cancelling
<1> QED
  BY <1>1, <1>2, <1>3, <1>4, <1>5 DEF Effects, Others

(* What the contract refers to exists. *)
LEMMA StartCancelEffects ==
  ASSUME Inv, NEW w \in Slots, NEW c \in Contracts, StartCancel(w, c)
  PROVE  Effects(w)
<1>1. Others(w) /\ req'[w].pc = "cancelSave" /\ req'[w].con = c /\ req'[w].unit = UnitOf(c)
        /\ req'[w].res = contracts[c].reservation
  <2>0. ReservationExists(contracts[c].reservation)
    BY DEF StartCancel, Inv, ContractsRefer
  <2>3. contracts[c].reservation \in Reservations /\ UnitOf(c) \in Units
    BY <2>0 DEF ReservationExists, UnitOf, Inv, TypeOK, ReservationRow
  <2>1. req \in [Slots -> Request] /\ req[w] \in Request /\ "cancelSave" \in Pcs
          /\ "cancel" \in Ops
    BY DEF Inv, TypeOK, Pcs, Ops
  <2>2. Become(w, [Idle EXCEPT !.op = "cancel", !.pc = "cancelSave", !.con = c,
                                  !.unit = UnitOf(c), !.res = contracts[c].reservation])
    BY DEF StartCancel, Goto, Finish
  <2> QED
    BY <2>1, <2>2, <2>3, IdleRequest DEF Goto, Finish, Become, Others, Request
<1>2. ReservationExists(contracts[c].reservation) /\ UnitOf(c) \in Units
  BY DEF StartCancel, Inv, ContractsRefer, ReservationExists, UnitOf, TypeOK,
     ReservationRow
<1>3. TypeOK'
  BY <1>1, <1>2 DEF Others, StartCancel, salesVars, Inv, TypeOK
<1>4. Grow /\ Frame(w)
  BY NoneAssumption, <1>2 DEF StartCancel, salesVars, Inv, TypeOK, Grow, Frame
<1>5. ContractsRefer' /\ OneContractPerReservation'
  BY <1>4 DEF StartCancel, salesVars, Grow, Inv, TypeOK, ContractsRefer,
     OneContractPerReservation, ReservationExists
<1>6. Refers(w)' /\ Owns(w)'
  BY <1>1, NoneAssumption, <1>2 DEF StartCancel, salesVars, Inv, TypeOK, Refers, Owns,
     HoldExists, ReservationExists, ContractExists, Signing, Signed, Taking, Sweeping,
     Cancelling
<1> QED
  BY <1>1, <1>3, <1>4, <1>5, <1>6 DEF Effects, Others

(* The contract keeps its reservation. *)
LEMMA CancelSaveEffects ==
  ASSUME Inv, NEW w \in Slots, CancelSave(w)
  PROVE  Effects(w)
<1>1. Others(w) /\ req'[w].pc = "cancelUnit" /\ req'[w].unit = req[w].unit
        /\ req'[w].res = req[w].res
        /\ req'[w].con = req[w].con /\ req'[w].todo = req[w].todo
  <2>1. req \in [Slots -> Request] /\ req[w] \in Request /\ "cancelUnit" \in Pcs
    BY DEF Inv, TypeOK, Pcs
  <2>2. Goto(w, "cancelUnit")
    BY DEF CancelSave, Goto, Finish
  <2> QED
    BY <2>1, <2>2 DEF Goto, Finish, Become, Others, Request
<1>2. req[w].con \in Contracts /\ contracts[req[w].con] # None
        /\ contracts[req[w].con] \in ContractRow
  BY DEF CancelSave, Inv, TypeOK, Refers, ContractExists, Cancelling
<1>3. [contracts[req[w].con] EXCEPT !.status = "cancelled"] \in ContractRow
      /\ [contracts[req[w].con] EXCEPT !.status = "cancelled"].reservation = contracts[req[w].con].reservation
  BY <1>2 DEF ContractRow, ContractStatus
<1>4. TypeOK'
  BY <1>1, <1>2, <1>3, NoContractAssumption DEF Others, CancelSave, Inv, TypeOK
<1>5. Grow /\ Frame(w)
  BY NoneAssumption, <1>2, <1>3, NoContractAssumption DEF CancelSave, Inv, TypeOK, Grow,
     Frame
<1>6. ContractsRefer' /\ OneContractPerReservation'
  BY <1>5, <1>2, <1>3 DEF CancelSave, Inv, TypeOK, ContractsRefer,
     OneContractPerReservation, ReservationExists
<1>7. Refers(w)' /\ Owns(w)'
  BY <1>1, NoneAssumption, <1>2, <1>3, NoContractAssumption DEF CancelSave, Inv, TypeOK,
     Refers, Owns, HoldExists, ReservationExists, ContractExists, Signing, Signed, Taking,
     Sweeping, Cancelling
<1> QED
  BY <1>1, <1>4, <1>5, <1>6, <1>7 DEF Effects, Others

(* The unit of a cancelled contract is released. *)
LEMMA CancelUnitEffects ==
  ASSUME Inv, NEW w \in Slots, CancelUnit(w)
  PROVE  Effects(w)
<1>1. Others(w) /\ req'[w].pc = "cancelReservation" /\ req'[w].unit = req[w].unit
        /\ req'[w].res = req[w].res
        /\ req'[w].con = req[w].con /\ req'[w].todo = req[w].todo
  <2>1. req \in [Slots -> Request] /\ req[w] \in Request /\ "cancelReservation" \in Pcs
    BY DEF Inv, TypeOK, Pcs
  <2>2. Goto(w, "cancelReservation")
    BY DEF CancelUnit, Goto, Finish
  <2> QED
    BY <2>1, <2>2 DEF Goto, Finish, Become, Others, Request
<1>2. TypeOK'
  BY <1>1 DEF Others, CancelUnit, SetUnit, Free, salesVars, Inv, TypeOK, UnitStatus
<1>3. Grow /\ Frame(w)
  BY NoneAssumption DEF CancelUnit, SetUnit, Free, salesVars, Inv, TypeOK, Grow, Frame
<1>4. ContractsRefer' /\ OneContractPerReservation'
  BY <1>3 DEF CancelUnit, SetUnit, Free, salesVars, Grow, Inv, TypeOK, ContractsRefer,
     OneContractPerReservation, ReservationExists
<1>5. Refers(w)' /\ Owns(w)'
  BY <1>1, NoneAssumption DEF CancelUnit, SetUnit, Free, salesVars, Inv, TypeOK, Refers,
     Owns, HoldExists, ReservationExists, ContractExists, Signing, Signed, Taking,
     Sweeping, Cancelling
<1> QED
  BY <1>1, <1>2, <1>3, <1>4, <1>5 DEF Effects, Others

(* The reservation of a cancelled contract is cancelled. *)
LEMMA CancelReservationEffects ==
  ASSUME Inv, NEW w \in Slots, CancelReservation(w)
  PROVE  Effects(w)
<1>1. Others(w) /\ req'[w].pc = "idle"
  <2>1. req \in [Slots -> Request] /\ req[w] \in Request /\ "idle" \in Pcs
    BY DEF Inv, TypeOK, Pcs
  <2>2. Finish(w)
    BY DEF CancelReservation, Goto, Finish
  <2> QED
    BY <2>1, <2>2, IdleRequest DEF Goto, Finish, Become, Others, Request
<1>2. reservations[req[w].res] # None /\ reservations[req[w].res] \in ReservationRow
  BY DEF CancelReservation, Inv, TypeOK, Refers, ReservationExists, Cancelling
<1>3. [reservations[req[w].res] EXCEPT !.status = "cancelled"] \in ReservationRow
  BY <1>2 DEF ReservationRow, ReservationStatus
<1>4. TypeOK'
  BY <1>1, <1>2, <1>3 DEF Others, CancelReservation, salesVars, Inv, TypeOK
<1>5. Grow /\ Frame(w)
  BY NoneAssumption, <1>2, <1>3 DEF CancelReservation, salesVars, Inv, TypeOK, Grow, Frame
<1>6. ContractsRefer' /\ OneContractPerReservation'
  BY <1>5 DEF CancelReservation, salesVars, Grow, Inv, TypeOK, ContractsRefer,
     OneContractPerReservation, ReservationExists
<1>7. Refers(w)' /\ Owns(w)'
  BY <1>1, NoneAssumption, <1>2, <1>3 DEF CancelReservation, salesVars, Inv, TypeOK,
     Refers, Owns, HoldExists, ReservationExists, ContractExists, Signing, Signed, Taking,
     Sweeping, Cancelling
<1> QED
  BY <1>1, <1>4, <1>5, <1>6, <1>7 DEF Effects, Others

(* The contract to amend exists. *)
LEMMA StartAmendEffects ==
  ASSUME Inv, NEW w \in Slots, NEW c \in Contracts, StartAmend(w, c)
  PROVE  Effects(w)
<1>1. Others(w) /\ req'[w].pc = "amendSave" /\ req'[w].con = c
  <2>1. req \in [Slots -> Request] /\ req[w] \in Request /\ "amendSave" \in Pcs
          /\ "amend" \in Ops
    BY DEF Inv, TypeOK, Pcs, Ops
  <2>2. Become(w, [Idle EXCEPT !.op = "amend", !.pc = "amendSave", !.con = c])
    BY DEF StartAmend, Goto, Finish
  <2> QED
    BY <2>1, <2>2, IdleRequest DEF Goto, Finish, Become, Others, Request
<1>2. TypeOK'
  BY <1>1 DEF Others, StartAmend, salesVars, Inv, TypeOK
<1>3. Grow /\ Frame(w)
  BY NoneAssumption DEF StartAmend, salesVars, Inv, TypeOK, Grow, Frame
<1>4. ContractsRefer' /\ OneContractPerReservation'
  BY <1>3 DEF StartAmend, salesVars, Grow, Inv, TypeOK, ContractsRefer,
     OneContractPerReservation, ReservationExists
<1>5. Refers(w)' /\ Owns(w)'
  BY <1>1, NoneAssumption DEF StartAmend, salesVars, Inv, TypeOK, Refers, Owns,
     HoldExists, ReservationExists, ContractExists, Signing, Signed, Taking, Sweeping,
     Cancelling
<1> QED
  BY <1>1, <1>2, <1>3, <1>4, <1>5 DEF Effects, Others

(* The contract keeps its reservation. *)
LEMMA AmendSaveEffects ==
  ASSUME Inv, NEW w \in Slots, AmendSave(w)
  PROVE  Effects(w)
<1>1. Others(w) /\ req'[w].pc = "idle"
  <2>1. req \in [Slots -> Request] /\ req[w] \in Request /\ "idle" \in Pcs
    BY DEF Inv, TypeOK, Pcs
  <2>2. Finish(w)
    BY DEF AmendSave, Goto, Finish
  <2> QED
    BY <2>1, <2>2, IdleRequest DEF Goto, Finish, Become, Others, Request
<1>2. req[w].con \in Contracts /\ contracts[req[w].con] # None
        /\ contracts[req[w].con] \in ContractRow
  BY DEF AmendSave, Inv, TypeOK, Refers, ContractExists, Cancelling
<1>3. [contracts[req[w].con] EXCEPT !.status = "signed"] \in ContractRow
      /\ [contracts[req[w].con] EXCEPT !.status = "signed"].reservation = contracts[req[w].con].reservation
  BY <1>2 DEF ContractRow, ContractStatus
<1>4. TypeOK'
  BY <1>1, <1>2, <1>3, NoContractAssumption DEF Others, AmendSave, Inv, TypeOK
<1>5. Grow /\ Frame(w)
  BY NoneAssumption, <1>2, <1>3, NoContractAssumption DEF AmendSave, Inv, TypeOK, Grow,
     Frame
<1>6. ContractsRefer' /\ OneContractPerReservation'
  BY <1>5, <1>2, <1>3 DEF AmendSave, Inv, TypeOK, ContractsRefer,
     OneContractPerReservation, ReservationExists
<1>7. Refers(w)' /\ Owns(w)'
  BY <1>1, NoneAssumption, <1>2, <1>3, NoContractAssumption DEF AmendSave, Inv, TypeOK,
     Refers, Owns, HoldExists, ReservationExists, ContractExists, Signing, Signed, Taking,
     Sweeping, Cancelling
<1> QED
  BY <1>1, <1>4, <1>5, <1>6, <1>7 DEF Effects, Others

(* Nothing a step of w does disturbs what another request refers to or owns. *)
LEMMA StepKeepsInv ==
  ASSUME Inv, NEW w \in Slots, Effects(w)
  PROVE  Inv'
<1> SUFFICES ASSUME NEW v \in Slots, v # w
             PROVE  Refers(v)' /\ Owns(v)'
  BY DEF Effects, Inv
<1>1. req'[v] = req[v] /\ Refers(v) /\ Owns(v) /\ v # None
  BY NoneAssumption DEF Effects, Others, Inv
<1>2. Refers(v)'
  BY <1>1 DEF Effects, Grow, Refers, HoldExists, ReservationExists, ContractExists
<1>3. CASE req[v].pc \in {"sweepHolds", "freeHeld", "saveUnit", "sweepFree"}
  <2>1. req[v].unit \in Units /\ unitLock[req[v].unit] = v
    BY <1>1, <1>3 DEF Refers, Owns, Taking, Sweeping
  <2>2. unitLock'[req[v].unit] = v
    BY <1>1, <2>1 DEF Effects, Frame
  <2>3. units[req[v].unit] # "contracted" => units'[req[v].unit] # "contracted"
    BY <1>1, <2>1 DEF Effects, Frame
  <2> QED
    BY <1>1, <1>2, <1>3, <2>2, <2>3 DEF Owns, Signing
<1>4. CASE req[v].pc \in Signing
  <2>1. req[v].res \in Reservations /\ signLock[req[v].res] = v
    BY <1>1, <1>4 DEF Refers, Owns, ReservationExists
  <2>2. signLock'[req[v].res] = v
    BY <1>1, <2>1 DEF Effects, Frame
  <2>3. ContractsFor(req[v].res) = {} => ContractsFor(req[v].res)' = {}
    BY <1>1, <2>1 DEF Effects, Grow, Frame, ContractsFor
  <2> QED
    BY <1>1, <1>2, <1>4, <2>2, <2>3 DEF Owns, Signing
<1>5. CASE req[v].pc \notin Signing \cup {"sweepHolds", "freeHeld", "saveUnit", "sweepFree"}
  BY <1>1, <1>2, <1>5 DEF Owns, Signing
<1> QED
  BY <1>3, <1>4, <1>5

(* The invariant holds before anything has been saved. *)
LEMMA InitInv == Init => Inv
<1> SUFFICES ASSUME Init PROVE Inv
  OBVIOUS
<1>1. TypeOK
  BY IdleRequest DEF Init, InventoryInit, TypeOK, UnitStatus
<1>2. \A w \in Slots : req[w].pc = "idle"
  BY IdleRequest DEF Init, InventoryInit
<1>3. \A w \in Slots : Refers(w) /\ Owns(w)
  BY <1>2 DEF Refers, Owns, Signing, Signed, Taking, Sweeping, Cancelling
<1> QED
  BY <1>1, <1>3 DEF Init, Inv, ContractsRefer, OneContractPerReservation

(* A step of the inventory methods. *)
LEMMA InventoryEffects ==
  ASSUME Inv, NEW w \in Slots, InventoryStart(w) \/ InventoryStep(w), UNCHANGED salesVars
  PROVE  Effects(w)
<1>1. CASE InventoryStart(w)
  <2>1. ASSUME NEW u \in Units, StartHold(w, u) PROVE Effects(w)
    BY <2>1, StartEffects DEF StartHold, Ops
  <2>2. ASSUME NEW u \in Units, NEW o \in Opportunities \cup {None}, StartReserve(w, u, o)
        PROVE  Effects(w)
    BY <2>2, StartEffects DEF StartReserve, Ops
  <2>3. ASSUME NEW u \in Units, StartEdit(w, u) PROVE Effects(w)
    BY <2>3, StartEditEffects
  <2>4. CASE StartSweep(w)
    BY <2>4, StartSweepEffects
  <2> QED
    BY <1>1, <2>1, <2>2, <2>3, <2>4 DEF InventoryStart
<1>2. CASE InventoryStep(w)
  <2>1. ASSUME NEW h \in Holds, SweepHold(w, h) \/ SaveHold(w, h) PROVE Effects(w)
    BY <2>1, SweepHoldEffects, SaveHoldEffects
  <2>2. ASSUME NEW r \in Reservations, SaveReservation(w, r) \/ SweepCancel(w, r) PROVE Effects(w)
    BY <2>2, SaveReservationEffects, SweepCancelEffects
  <2> QED
    BY <1>2, <2>1, <2>2, AcquireUnitEffects, FreeHeldEffects, RefuseEffects,
       SaveUnitEffects, SaveEditEffects, SweepLeaveEffects, SweepAcquireEffects,
       SweepFreeEffects DEF InventoryStep
<1> QED
  BY <1>1, <1>2

(* A step of the sales methods. *)
LEMMA SalesEffects ==
  ASSUME Inv, NEW w \in Slots, SalesStart(w) \/ SalesStep(w)
  PROVE  Effects(w)
<1>1. CASE SalesStart(w)
  <2>1. ASSUME NEW o \in Opportunities, NEW u \in Units, StartReserveFor(w, o, u) PROVE Effects(w)
    BY <2>1, StartEffects DEF StartReserveFor, Ops
  <2>2. ASSUME NEW r \in Reservations, StartSign(w, r) PROVE Effects(w)
    BY <2>2, StartSignEffects
  <2>3. ASSUME NEW c \in Contracts, StartCancel(w, c) \/ StartAmend(w, c) PROVE Effects(w)
    BY <2>3, StartCancelEffects, StartAmendEffects
  <2> QED
    BY <1>1, <2>1, <2>2, <2>3 DEF SalesStart
<1>2. CASE SalesStep(w)
  <2>1. ASSUME NEW c \in Contracts, SignSave(w, c) PROVE Effects(w)
    BY <2>1, SignSaveEffects
  <2> QED
    BY <1>2, <2>1, SaveOpportunityEffects, SignRefuseEffects, SignCheckEffects,
       SignPlanEffects, SignPlanFailsEffects, SignUnitEffects, SignReservationEffects,
       SignWonEffects, CancelSaveEffects, CancelUnitEffects, CancelReservationEffects,
       AmendSaveEffects DEF SalesStep
<1> QED
  BY <1>1, <1>2

(* The clock, a new opportunity and a crash move no request forward. *)
LEMMA CreateOpportunityInv ==
  ASSUME Inv, NEW o \in Opportunities, CreateOpportunity(o)
  PROVE  Inv'
BY DEF Inv, TypeOK, OpportunityStage, CreateOpportunity, inventoryVars, ContractsRefer,
   OneContractPerReservation, Refers, Owns, HoldExists, ReservationExists, ContractExists,
   ContractsFor, Signing

RowsGrow ==
  /\ UNCHANGED <<units, unitLock, req, opportunities, contracts, schedules, signLock>>
  /\ holds' \in [Holds -> HoldRow \cup {None}]
  /\ reservations' \in [Reservations -> ReservationRow \cup {None}]
  /\ \A h \in Holds : holds[h] # None => holds'[h] # None
  /\ \A r \in Reservations : reservations[r] # None => reservations'[r] # None

(* An expiry changes one flag of one row, which the invariant does not read. *)
LEMMA ClockInv ==
  ASSUME Inv, Clock, UNCHANGED salesVars
  PROVE  Inv'
<1>1. RowsGrow
  <2>1. ASSUME NEW h \in Holds, ExpireHold(h) PROVE RowsGrow
    <3>1. holds[h] \in HoldRow /\ [holds[h] EXCEPT !.expired = TRUE] \in HoldRow
      BY <2>1 DEF ExpireHold, Inv, TypeOK, HoldRow
    <3> QED
      BY <2>1, <3>1, NoneAssumption DEF RowsGrow, ExpireHold, Inv, TypeOK, salesVars
  <2>2. ASSUME NEW r \in Reservations, ExpireReservation(r) PROVE RowsGrow
    <3>1. reservations[r] \in ReservationRow
          /\ [reservations[r] EXCEPT !.expired = TRUE] \in ReservationRow
      BY <2>2 DEF ExpireReservation, Inv, TypeOK, ReservationRow
    <3> QED
      BY <2>2, <3>1, NoneAssumption DEF RowsGrow, ExpireReservation, Inv, TypeOK,
         salesVars
  <2> QED
    BY <2>1, <2>2 DEF Clock
<1>2. TypeOK' /\ ContractsRefer' /\ OneContractPerReservation'
  BY <1>1 DEF RowsGrow, Inv, TypeOK, ContractsRefer, OneContractPerReservation,
     ReservationExists
<1>3. \A w \in Slots : Refers(w)' /\ Owns(w)'
  BY <1>1 DEF RowsGrow, Inv, Refers, Owns, HoldExists, ReservationExists, ContractExists,
     ContractsFor
<1> QED
  BY <1>2, <1>3 DEF Inv

(* After a restart nobody holds a lock and nobody refers to a row.          *)
LEMMA CrashInv ==
  ASSUME Inv, Crash
  PROVE  Inv'
<1>1. TypeOK' /\ ContractsRefer' /\ OneContractPerReservation'
  BY IdleRequest DEF Inv, TypeOK, Crash, ContractsRefer, OneContractPerReservation,
     ReservationExists
<1>2. \A w \in Slots : req'[w].pc = "idle"
  BY IdleRequest DEF Crash
<1>3. \A w \in Slots : Refers(w)' /\ Owns(w)'
  BY <1>2 DEF Refers, Owns, Signing, Signed, Taking, Sweeping, Cancelling
<1> QED
  BY <1>1, <1>3 DEF Inv

(* A stuttering step changes nothing the invariant reads. *)
LEMMA StutterInv ==
  ASSUME Inv, UNCHANGED vars
  PROVE  Inv'
BY DEF Inv, vars, TypeOK, ContractsRefer, OneContractPerReservation, Refers, Owns,
   HoldExists, ReservationExists, ContractExists, ContractsFor

(* The invariant is inductive: every action of the sales module preserves it. *)
LEMMA NextInv == Inv /\ [Next]_vars => Inv'
<1> SUFFICES ASSUME Inv, [Next]_vars PROVE Inv'
  OBVIOUS
<1>1. ASSUME NEW w \in Slots, InventoryStart(w) \/ InventoryStep(w), UNCHANGED salesVars PROVE Inv'
  BY <1>1, InventoryEffects, StepKeepsInv
<1>2. ASSUME NEW w \in Slots, SalesStart(w) \/ SalesStep(w) PROVE Inv'
  BY <1>2, SalesEffects, StepKeepsInv
<1> QED
  BY <1>1, <1>2, CreateOpportunityInv, ClockInv, CrashInv, StutterInv DEF Next

(* The inductive invariant, in every reachable state. *)
THEOREM Invariance == Spec => []Inv
BY InitInv, NextInv, PTL DEF Spec

(* Every variable keeps its type. *)
THEOREM TypeCorrect == Spec => []TypeOK
<1>1. Inv => TypeOK
  BY DEF Inv
<1> QED
  BY <1>1, Invariance, PTL

(* A reservation never gets a second contract, for any number of requests, *)
(* units and faults of AllFaults, crashes included.                         *)
THEOREM UniqueContract == Spec => []OneContractPerReservation
<1>1. Inv => OneContractPerReservation
  BY DEF Inv
<1> QED
  BY <1>1, Invariance, PTL

(* The writers of a unit's status.  FreeHeld, SaveUnit and SweepFree act on  *)
(* a status read under the lock they still hold: by Inv it is not           *)
(* "contracted".                                                            *)
LEMMA ReopenStep ==
  ASSUME Inv, [Next]_vars, NEW u \in Units, units[u] = "contracted", units'[u] # "contracted"
  PROVE  \E w \in Slots : MayReopen(w, u)
<1> USE DEF SetUnit
<1>1. ASSUME NEW w \in Slots, InventoryStart(w), units' # units PROVE FALSE
  BY <1>1 DEF InventoryStart, StartHold, StartReserve, Start, StartEdit, StartSweep
<1>2. ASSUME NEW w \in Slots, InventoryStep(w) PROVE MayReopen(w, u)
  <2>1. CASE FreeHeld(w) \/ SaveUnit(w) \/ SweepFree(w)
    BY <2>1 DEF FreeHeld, SaveUnit, SweepFree, Inv, TypeOK, Owns
  <2>2. CASE SaveEdit(w)
    <3>1. req'[w] = Idle
      BY <2>2 DEF SaveEdit, Finish, Become, Inv, TypeOK
    <3> QED
      BY <2>2, <3>1, IdleRequest DEF SaveEdit, MayReopen, Inv, TypeOK
  <2>3. CASE AcquireUnit(w) \/ Refuse(w) \/ SweepLeave(w) \/ SweepAcquire(w)
    BY <2>3 DEF AcquireUnit, Refuse, SweepLeave, SweepAcquire
  <2>4. ASSUME NEW h \in Holds, SweepHold(w, h) \/ SaveHold(w, h) PROVE FALSE
    BY <2>4 DEF SweepHold, SaveHold
  <2>5. ASSUME NEW r \in Reservations, SaveReservation(w, r) \/ SweepCancel(w, r) PROVE FALSE
    BY <2>5 DEF SaveReservation, SweepCancel
  <2> QED
    BY <1>2, <2>1, <2>2, <2>3, <2>4, <2>5 DEF InventoryStep
<1>3. ASSUME NEW w \in Slots, SalesStart(w), units' # units PROVE FALSE
  BY <1>3 DEF SalesStart, StartReserveFor, Start, StartSign, StartCancel, StartAmend
<1>4. ASSUME NEW w \in Slots, SalesStep(w) PROVE MayReopen(w, u)
  <2>1. CASE CancelUnit(w)
    <3>1. req'[w] = [req[w] EXCEPT !.pc = "cancelReservation"]
      BY <2>1 DEF CancelUnit, Goto, Become, Inv, TypeOK
    <3>2. req'[w].pc = "cancelReservation"
      BY <3>1 DEF Inv, TypeOK, Request
    <3> QED
      BY <2>1, <3>2 DEF CancelUnit, MayReopen, Inv, TypeOK
  <2>2. CASE SignUnit(w)
    BY <2>2 DEF SignUnit, Inv, TypeOK
  <2>3. CASE units' = units
    BY <2>3
  <2>4. units' = units \/ SignUnit(w) \/ CancelUnit(w)
    BY <1>4 DEF SalesStep, SaveOpportunity, SignRefuse, SignCheck, SignSave, SignPlan,
       SignPlanFails, SignReservation, SignWon, CancelSave, CancelReservation, AmendSave
  <2> QED
    BY <2>1, <2>2, <2>3, <2>4
<1>5. CASE \/ \E o \in Opportunities : CreateOpportunity(o)
           \/ Clock
           \/ Crash
           \/ UNCHANGED vars
  BY <1>5 DEF CreateOpportunity, inventoryVars, Clock, ExpireHold, ExpireReservation,
     Crash, vars
<1> QED
  BY <1>1, <1>2, <1>3, <1>4, <1>5 DEF Next

(* A contracted unit is reopened by a cancellation or an edit, and by      *)
(* nothing else, whatever races and fails.                                  *)
THEOREM SoldUnitsStaySold == Spec => SoldStaysSold
<1>1. Inv /\ [Next]_vars =>
        [\A u \in Units : units[u] = "contracted" /\ units'[u] # "contracted"
           => \E w \in Slots : MayReopen(w, u)]_vars
  BY ReopenStep
<1> QED
  BY <1>1, Invariance, PTL DEF Spec, SoldStaysSold
-----------------------------------------------------------------------------
(* What the last two writes of a signature rely on, though they read none   *)
(* of it again: the schedule saved three awaits earlier, and the            *)
(* opportunity of the reservation as it was read when the signing began.    *)
Backed(w) ==
  /\ req[w].pc \in Signing => req[w].opp = reservations[req[w].res].opportunity
  /\ req[w].pc \in {"signUnit", "signReservation", "signWon"} => req[w].con \in schedules

(* The inductive invariant of SaleBacked, relative to Inv. *)
AllBacked == SaleBacked /\ \A w \in Slots : Backed(w)

(* What every step does to the rows a sale is made of. *)
SaleGrows ==
  /\ Grow
  /\ schedules \subseteq schedules'
  /\ \A r \in Reservations : reservations[r] # None =>
       reservations'[r].opportunity = reservations[r].opportunity

(* Only the last two writes of a signature make the claims of SaleBacked. *)
ClaimsOf(w) ==
  /\ \A r \in Reservations : reservations'[r] # None /\ reservations'[r].status = "converted" =>
       \/ reservations[r] # None /\ reservations[r].status = "converted"
       \/ req[w].pc = "signReservation" /\ req[w].res = r
  /\ \A o \in Opportunities : opportunities'[o] = "won" =>
       \/ opportunities[o] = "won"
       \/ req[w].pc = "signWon" /\ req[w].opp = o

(* The inventory methods make no claim and write no schedule. *)
LEMMA InventoryClaims ==
  ASSUME Inv, NEW w \in Slots, InventoryStart(w) \/ InventoryStep(w), UNCHANGED salesVars
  PROVE  SaleGrows /\ ClaimsOf(w)
<1>1. Grow
  BY InventoryEffects DEF Effects
<1>2. schedules' = schedules /\ opportunities' = opportunities
  BY DEF salesVars
<1>3. ASSUME NEW r \in Reservations, SaveReservation(w, r) PROVE SaleGrows /\ ClaimsOf(w)
  <2>1. reservations[r] = None /\ reservations'[r].status = "active"
          /\ \A s \in Reservations : s # r => reservations'[s] = reservations[s]
    BY <1>3 DEF SaveReservation, Inv, TypeOK
  <2> QED
    BY <1>1, <1>2, <2>1 DEF SaleGrows, ClaimsOf
<1>4. ASSUME NEW r \in Reservations, SweepCancel(w, r) PROVE SaleGrows /\ ClaimsOf(w)
  <2>1. reservations[r] # None /\ reservations[r] \in ReservationRow
    BY <1>4 DEF SweepCancel, Inv, TypeOK, Refers, ReservationExists, Sweeping
  <2>2. /\ reservations'[r] = [reservations[r] EXCEPT !.status = "cancelled"]
        /\ \A s \in Reservations : s # r => reservations'[s] = reservations[s]
    BY <1>4 DEF SweepCancel, Inv, TypeOK
  <2>3. reservations'[r].status = "cancelled"
          /\ reservations'[r].opportunity = reservations[r].opportunity
    BY <2>1, <2>2 DEF ReservationRow
  <2> QED
    BY <1>1, <1>2, <2>2, <2>3 DEF SaleGrows, ClaimsOf
<1>5. CASE reservations' = reservations
  BY <1>1, <1>2, <1>5 DEF SaleGrows, ClaimsOf
<1>6. \/ reservations' = reservations
      \/ \E r \in Reservations : SaveReservation(w, r) \/ SweepCancel(w, r)
  BY DEF InventoryStart, InventoryStep, StartHold, StartReserve, Start, StartEdit, StartSweep,
     AcquireUnit, SweepHold, SaveHold, FreeHeld, Refuse, SaveUnit, SaveEdit, SweepLeave,
     SweepAcquire, SweepFree
<1> QED
  BY <1>3, <1>4, <1>5, <1>6

(* Among the sales methods, SignReservation and SignWon make the claims. *)
LEMMA SalesClaims ==
  ASSUME Inv, NEW w \in Slots, SalesStart(w) \/ SalesStep(w)
  PROVE  SaleGrows /\ ClaimsOf(w)
<1>1. Grow
  BY SalesEffects DEF Effects
<1>2. CASE SignReservation(w) \/ CancelReservation(w)
  <2> DEFINE s == IF req[w].pc = "signReservation" THEN "converted" ELSE "cancelled"
  <2>1. req[w].res \in Reservations /\ reservations[req[w].res] # None
          /\ reservations[req[w].res] \in ReservationRow
    BY <1>2 DEF SignReservation, CancelReservation, Inv, TypeOK, Refers, ReservationExists,
       Signing, Cancelling
  <2>2. /\ reservations'[req[w].res] = [reservations[req[w].res] EXCEPT !.status = s]
        /\ \A r \in Reservations : r # req[w].res => reservations'[r] = reservations[r]
        /\ schedules' = schedules /\ opportunities' = opportunities
    BY <1>2, <2>1 DEF SignReservation, CancelReservation, salesVars, Inv, TypeOK
  <2>3. reservations'[req[w].res].status = s
          /\ reservations'[req[w].res].opportunity = reservations[req[w].res].opportunity
    BY <2>1, <2>2 DEF ReservationRow
  <2> QED
    BY <1>1, <2>1, <2>2, <2>3 DEF SaleGrows, ClaimsOf
<1>3. CASE SignWon(w) \/ SaveOpportunity(w) \/ SignPlan(w)
  BY <1>1, <1>3 DEF SignWon, SaveOpportunity, SignPlan, SaleGrows, ClaimsOf, Inv, TypeOK
<1>4. CASE UNCHANGED <<reservations, opportunities, schedules>>
  BY <1>1, <1>4 DEF SaleGrows, ClaimsOf
<1>5. \/ UNCHANGED <<reservations, opportunities, schedules>>
      \/ SignReservation(w) \/ CancelReservation(w)
      \/ SignWon(w) \/ SaveOpportunity(w) \/ SignPlan(w)
  BY DEF SalesStart, SalesStep, StartReserveFor, Start, StartSign, StartCancel, StartAmend,
     SignRefuse, SignCheck, SignSave, SignPlanFails, SignUnit, CancelSave, CancelUnit,
     AmendSave, salesVars
<1> QED
  BY <1>2, <1>3, <1>4, <1>5

(* A signing moves on with the reservation, the opportunity and the         *)
(* contract it has, and with a schedule for the contract from there on.     *)
LEMMA SigningBacked ==
  ASSUME Inv, NEW w \in Slots, Backed(w), SalesStep(w), SaleGrows
  PROVE  Backed(w)'
<1>1. CASE SignCheck(w)
  <2>1. req'[w] = [req[w] EXCEPT !.pc = "signSave", !.unit = reservations[req[w].res].unit,
                                 !.opp = reservations[req[w].res].opportunity]
    BY <1>1 DEF SignCheck, Become, Inv, TypeOK
  <2>2. req'[w].pc = "signSave" /\ req'[w].res = req[w].res
          /\ req'[w].opp = reservations[req[w].res].opportunity
    BY <2>1 DEF Inv, TypeOK, Request
  <2> QED
    BY <1>1, <2>2 DEF SignCheck, Backed
<1>2. ASSUME NEW c \in Contracts, SignSave(w, c) PROVE Backed(w)'
  <2>1. req'[w] = [req[w] EXCEPT !.pc = "signPlan", !.con = c]
    BY <1>2 DEF SignSave, Become, Inv, TypeOK
  <2>2. req'[w].pc = "signPlan" /\ req'[w].res = req[w].res /\ req'[w].opp = req[w].opp
    BY <2>1 DEF Inv, TypeOK, Request
  <2> QED
    BY <1>2, <2>2 DEF SignSave, Backed, Signing
<1>3. CASE SignPlan(w) \/ SignUnit(w) \/ (SignReservation(w) /\ req[w].opp # None)
  <2>1. PICK p \in Pcs : Goto(w, p)
    BY <1>3 DEF SignPlan, SignUnit, SignReservation, Pcs
  <2>2. req'[w].res = req[w].res /\ req'[w].opp = req[w].opp /\ req'[w].con = req[w].con
    BY <2>1 DEF Goto, Become, Inv, TypeOK, Request
  <2>3. req[w].pc \in Signing /\ ReservationExists(req[w].res)
    BY <1>3 DEF SignPlan, SignUnit, SignReservation, Inv, Refers, Signing
  <2>4. req'[w].opp = reservations'[req'[w].res].opportunity
    BY <2>2, <2>3 DEF Backed, SaleGrows, ReservationExists
  <2>5. req'[w].con \in schedules'
    BY <1>3, <2>2 DEF SignPlan, SignUnit, SignReservation, Backed, SaleGrows
  <2> QED
    BY <2>4, <2>5 DEF Backed
<1>4. CASE req'[w].pc \notin Signing
  BY <1>4 DEF Backed, Signing
<1>5. CASE SaveOpportunity(w) \/ SignRefuse(w) \/ SignPlanFails(w) \/ SignWon(w)
           \/ CancelReservation(w) \/ AmendSave(w) \/ (SignReservation(w) /\ req[w].opp = None)
  <2>1. req'[w].pc = "idle"
    BY <1>5, IdleRequest DEF SaveOpportunity, SignRefuse, SignPlanFails, SignWon,
       CancelReservation, AmendSave, SignReservation, Finish, Become, Inv, TypeOK
  <2> QED
    BY <1>4, <2>1 DEF Signing
<1>6. CASE CancelSave(w) \/ CancelUnit(w)
  <2>1. req'[w].pc \in {"cancelUnit", "cancelReservation"}
    BY <1>6 DEF CancelSave, CancelUnit, Goto, Become, Inv, TypeOK, Request
  <2> QED
    BY <1>4, <2>1 DEF Signing
<1> QED
  BY <1>1, <1>2, <1>3, <1>5, <1>6 DEF SalesStep

(* No other step brings a request into a signature. *)
LEMMA OthersStart ==
  ASSUME Inv, NEW w \in Slots,
         SalesStart(w) \/ InventoryStart(w) \/ InventoryStep(w)
  PROVE  req'[w].pc \notin Signing
<1>1. ASSUME NEW q \in Request, Become(w, q), q.pc \notin Signing PROVE req'[w].pc \notin Signing
  BY <1>1 DEF Become, Inv, TypeOK
<1>2. ASSUME NEW p \in Pcs \ Signing, Goto(w, p) PROVE req'[w].pc \notin Signing
  BY <1>2 DEF Goto, Become, Inv, TypeOK, Request
<1>3. CASE Finish(w)
  BY <1>1, <1>3, IdleRequest DEF Finish, Signing
<1>4. ASSUME NEW op \in Ops, NEW u \in Units, NEW o \in Opportunities \cup {None}, Start(w, op, u, o)
      PROVE  req'[w].pc \notin Signing
  <2>1. req'[w] = [Idle EXCEPT !.op = op, !.pc = "lock", !.unit = u, !.opp = o]
    BY <1>4 DEF Start, Become, Inv, TypeOK
  <2> QED
    BY <2>1, IdleRequest DEF Request, Signing
<1>5. CASE SalesStart(w)
  <2>1. ASSUME NEW o \in Opportunities, NEW u \in Units, StartReserveFor(w, o, u)
        PROVE  req'[w].pc \notin Signing
    BY <1>4, <2>1 DEF StartReserveFor, Ops
  <2>2. ASSUME NEW r \in Reservations, StartSign(w, r) PROVE req'[w].pc \notin Signing
    <3>1. req'[w] = [Idle EXCEPT !.op = "sign", !.pc = "signLock", !.res = r]
      BY <2>2 DEF StartSign, Become, Inv, TypeOK
    <3> QED
      BY <3>1, IdleRequest DEF Request, Signing
  <2>3. ASSUME NEW c \in Contracts, StartCancel(w, c) PROVE req'[w].pc \notin Signing
    <3>1. req'[w] = [Idle EXCEPT !.op = "cancel", !.pc = "cancelSave", !.con = c,
                                 !.unit = UnitOf(c), !.res = contracts[c].reservation]
      BY <2>3 DEF StartCancel, Become, Inv, TypeOK
    <3> QED
      BY <3>1, IdleRequest DEF Request, Signing
  <2>4. ASSUME NEW c \in Contracts, StartAmend(w, c) PROVE req'[w].pc \notin Signing
    <3>1. req'[w] = [Idle EXCEPT !.op = "amend", !.pc = "amendSave", !.con = c]
      BY <2>4 DEF StartAmend, Become, Inv, TypeOK
    <3> QED
      BY <3>1, IdleRequest DEF Request, Signing
  <2> QED
    BY <1>5, <2>1, <2>2, <2>3, <2>4 DEF SalesStart
<1>6. CASE InventoryStart(w)
  <2>1. ASSUME NEW u \in Units, StartHold(w, u) PROVE req'[w].pc \notin Signing
    BY <1>4, <2>1 DEF StartHold, Ops
  <2>2. ASSUME NEW u \in Units, NEW o \in Opportunities \cup {None}, StartReserve(w, u, o)
        PROVE  req'[w].pc \notin Signing
    BY <1>4, <2>2 DEF StartReserve, Ops
  <2>3. ASSUME NEW u \in Units, StartEdit(w, u) PROVE req'[w].pc \notin Signing
    <3>1. req'[w] = [Idle EXCEPT !.op = "edit", !.pc = "editSave", !.unit = u]
      BY <2>3 DEF StartEdit, Become, Inv, TypeOK
    <3> QED
      BY <3>1, IdleRequest DEF Request, Signing
  <2>4. CASE StartSweep(w)
    <3>1. req'[w] = [Idle EXCEPT !.op = "sweep", !.pc = "sweep", !.todo = Expired]
      BY <2>4 DEF StartSweep, Become, Inv, TypeOK
    <3> QED
      BY <3>1, IdleRequest DEF Request, Signing
  <2> QED
    BY <1>6, <2>1, <2>2, <2>3, <2>4 DEF InventoryStart
<1>7. CASE InventoryStep(w)
  <2>1. CASE AcquireUnit(w)
    <3>1. req'[w] = [req[w] EXCEPT !.pc = "sweepHolds", !.todo = ExpiredHolds(req[w].unit)]
      BY <2>1 DEF AcquireUnit, Become, Inv, TypeOK
    <3> QED
      BY <3>1 DEF Inv, TypeOK, Request, Signing
  <2>2. ASSUME NEW h \in Holds, SweepHold(w, h) PROVE req'[w].pc \notin Signing
    <3> DEFINE p == IF units[req[w].unit] = "held" THEN "freeHeld" ELSE "sweepHolds"
    <3>1. req'[w] = [req[w] EXCEPT !.pc = p, !.todo = req[w].todo \ {h}]
      BY <2>2 DEF SweepHold, Become, Inv, TypeOK
    <3>2. p \notin Signing
      BY DEF Signing
    <3> HIDE DEF p
    <3> QED
      BY <3>1, <3>2 DEF Inv, TypeOK, Request
  <2>3. ASSUME NEW r \in Reservations, SaveReservation(w, r) PROVE req'[w].pc \notin Signing
    <3>1. req'[w] = [req[w] EXCEPT !.pc = "saveUnit", !.res = r]
      BY <2>3 DEF SaveReservation, Become, Inv, TypeOK
    <3> QED
      BY <3>1 DEF Inv, TypeOK, Request, Signing
  <2>4. ASSUME NEW r \in Reservations, SweepCancel(w, r) PROVE req'[w].pc \notin Signing
    <3>1. req'[w] = [req[w] EXCEPT !.pc = "sweepLock", !.unit = reservations[r].unit,
                                   !.res = r, !.todo = req[w].todo \ {r}]
      BY <2>4 DEF SweepCancel, Become, Inv, TypeOK
    <3> QED
      BY <3>1 DEF Inv, TypeOK, Request, Signing
  <2>5. \/ \E p \in Pcs \ Signing : Goto(w, p)
        \/ Finish(w)
        \/ AcquireUnit(w)
        \/ \E h \in Holds : SweepHold(w, h)
        \/ \E r \in Reservations : SaveReservation(w, r) \/ SweepCancel(w, r)
    BY <1>7 DEF InventoryStep, FreeHeld, Refuse, SaveHold, SaveUnit, SaveEdit, SweepLeave,
       SweepAcquire, SweepFree, SweepNext, Pcs, Signing
  <2> QED
    BY <1>2, <1>3, <2>1, <2>2, <2>3, <2>4, <2>5
<1> QED
  BY <1>5, <1>6, <1>7

(* A step of w keeps what the others rely on. *)
LEMMA BackedStep ==
  ASSUME Inv, AllBacked, NEW w \in Slots, Others(w), SaleGrows, Backed(w)'
  PROVE  \A v \in Slots : Backed(v)'
<1> SUFFICES ASSUME NEW v \in Slots, v # w PROVE Backed(v)'
  OBVIOUS
<1>1. req'[v] = req[v] /\ Backed(v) /\ Refers(v)
  BY DEF Others, AllBacked, Inv
<1> QED
  BY <1>1 DEF Backed, Refers, ReservationExists, SaleGrows

(* A claim is backed when it is made, and stays backed. *)
LEMMA ClaimsBacked ==
  ASSUME Inv, AllBacked, NEW w \in Slots, SaleGrows, ClaimsOf(w)
  PROVE  SaleBacked'
<1>1. ASSUME NEW r \in Reservations, NEW c \in schedules, contracts[c] # None,
             contracts[c].reservation = r
      PROVE  c \in schedules' /\ contracts'[c] # None /\ contracts'[c].reservation = r
             /\ (reservations'[r]).opportunity = reservations[r].opportunity
  BY <1>1 DEF SaleGrows, Grow, Inv, TypeOK, ContractsRefer, ReservationExists
<1>2. ASSUME NEW r \in Reservations, reservations'[r] # None, reservations'[r].status = "converted"
      PROVE  \E c \in schedules' : contracts'[c] # None /\ contracts'[c].reservation = r
  <2>1. PICK c \in schedules : contracts[c] # None /\ contracts[c].reservation = r
    <3>1. CASE reservations[r] # None /\ reservations[r].status = "converted"
      BY <3>1 DEF AllBacked, SaleBacked
    <3>2. CASE req[w].pc = "signReservation" /\ req[w].res = r
      BY <3>2 DEF AllBacked, Backed, Inv, Refers, Signed, ContractExists
    <3> QED
      BY <1>2, <3>1, <3>2 DEF ClaimsOf
  <2> QED
    BY <1>1, <2>1
<1>3. ASSUME NEW o \in Opportunities, opportunities'[o] = "won"
      PROVE  \E c \in schedules' : contracts'[c] # None
               /\ reservations'[contracts'[c].reservation].opportunity = o
  <2>1. PICK c \in schedules : contracts[c] # None
               /\ reservations[contracts[c].reservation].opportunity = o
    <3>1. CASE opportunities[o] = "won"
      BY <3>1 DEF AllBacked, SaleBacked
    <3>2. CASE req[w].pc = "signWon" /\ req[w].opp = o
      BY <3>2 DEF AllBacked, Backed, Inv, Refers, Signed, Signing, ContractExists
    <3> QED
      BY <1>3, <3>1, <3>2 DEF ClaimsOf
  <2>2. contracts[c].reservation \in Reservations
    BY <2>1 DEF Inv, TypeOK, ContractsRefer, ReservationExists
  <2> QED
    BY <1>1, <2>1, <2>2
<1> QED
  BY <1>2, <1>3 DEF SaleBacked

(* The invariant is inductive relative to Inv. *)
LEMMA AllBackedNext == Inv /\ AllBacked /\ [Next]_vars => AllBacked'
<1> SUFFICES ASSUME Inv, AllBacked, [Next]_vars PROVE AllBacked'
  OBVIOUS
<1>1. ASSUME NEW w \in Slots, InventoryStart(w) \/ InventoryStep(w), UNCHANGED salesVars
      PROVE  AllBacked'
  <2>1. SaleGrows /\ ClaimsOf(w) /\ Others(w)
    BY <1>1, InventoryClaims, InventoryEffects DEF Effects
  <2>2. Backed(w)'
    BY <1>1, OthersStart DEF Backed, Signing
  <2> QED
    BY <2>1, <2>2, BackedStep, ClaimsBacked DEF AllBacked
<1>2. ASSUME NEW w \in Slots, SalesStart(w) \/ SalesStep(w) PROVE AllBacked'
  <2>1. SaleGrows /\ ClaimsOf(w) /\ Others(w)
    BY <1>2, SalesClaims, SalesEffects DEF Effects
  <2>2. CASE SalesStart(w)
    <3>1. Backed(w)'
      BY <2>2, OthersStart DEF Backed, Signing
    <3> QED
      BY <2>1, <3>1, BackedStep, ClaimsBacked DEF AllBacked
  <2>3. CASE SalesStep(w)
    <3>1. Backed(w)'
      BY <2>1, <2>3, SigningBacked DEF AllBacked
    <3> QED
      BY <2>1, <3>1, BackedStep, ClaimsBacked DEF AllBacked
  <2> QED
    BY <1>2, <2>2, <2>3
<1>3. ASSUME NEW o \in Opportunities, CreateOpportunity(o) PROVE AllBacked'
  <2>1. UNCHANGED <<reservations, contracts, schedules, req>>
        /\ \A p \in Opportunities : opportunities'[p] = "won" => opportunities[p] = "won"
    BY <1>3 DEF CreateOpportunity, inventoryVars, Inv, TypeOK
  <2> QED
    BY <2>1 DEF AllBacked, SaleBacked, Backed
<1>4. CASE Clock /\ UNCHANGED salesVars
  <2>1. UNCHANGED <<opportunities, contracts, schedules, req>>
    BY <1>4 DEF Clock, ExpireHold, ExpireReservation, salesVars
  <2>2. \A r \in Reservations : reservations[r] # None =>
          reservations'[r].opportunity = reservations[r].opportunity
    <3>1. ASSUME NEW r \in Reservations, ExpireReservation(r), NEW s \in Reservations
          PROVE  reservations[s] # None => reservations'[s].opportunity = reservations[s].opportunity
      <4>1. reservations[r] \in ReservationRow
        BY <3>1 DEF ExpireReservation, Inv, TypeOK
      <4> QED
        BY <3>1, <4>1 DEF ExpireReservation, Inv, TypeOK, ReservationRow
    <3> QED
      BY <1>4, <3>1 DEF Clock, ExpireHold
  <2>3. \A r \in Reservations : reservations'[r] # None /\ reservations'[r].status = "converted" =>
          reservations[r] # None /\ reservations[r].status = "converted"
    <3>1. ASSUME NEW r \in Reservations, ExpireReservation(r), NEW s \in Reservations,
                 reservations'[s] # None, reservations'[s].status = "converted"
          PROVE  reservations[s] # None /\ reservations[s].status = "converted"
      <4>1. reservations[r] \in ReservationRow /\ reservations[r] # None
        BY <3>1 DEF ExpireReservation, Inv, TypeOK
      <4> QED
        BY <3>1, <4>1 DEF ExpireReservation, Inv, TypeOK, ReservationRow
    <3> QED
      BY <1>4, <3>1 DEF Clock, ExpireHold
  <2>4. \A w \in Slots : Backed(w)'
    BY <2>1, <2>2 DEF AllBacked, Backed, Inv, Refers, ReservationExists
  <2>5. SaleBacked'
    BY <2>1, <2>2, <2>3 DEF AllBacked, SaleBacked, Inv, TypeOK, ContractsRefer,
       ReservationExists
  <2> QED
    BY <2>4, <2>5 DEF AllBacked
<1>5. CASE Crash
  <2>1. UNCHANGED <<reservations, opportunities, contracts, schedules>>
        /\ \A w \in Slots : req'[w].pc = "idle"
    BY <1>5, IdleRequest DEF Crash
  <2> QED
    BY <2>1 DEF AllBacked, SaleBacked, Backed, Signing
<1>6. CASE UNCHANGED vars
  BY <1>6 DEF vars, AllBacked, SaleBacked, Backed
<1> QED
  BY <1>1, <1>2, <1>3, <1>4, <1>5, <1>6 DEF Next

(* What the last writes of a signature say is backed by the first ones,     *)
(* whatever crashes, fails, expires or is cancelled in between.             *)
THEOREM SalesAreBacked == Spec => []SaleBacked
<1>1. Init => AllBacked
  <2> SUFFICES ASSUME Init PROVE AllBacked
    OBVIOUS
  <2>1. \A w \in Slots : req[w].pc = "idle"
    BY IdleRequest DEF Init, InventoryInit
  <2> QED
    BY <2>1, NoContractAssumption DEF Init, InventoryInit, AllBacked, SaleBacked, Backed,
       Signing, OpportunityStage
<1>2. AllBacked => SaleBacked
  BY DEF AllBacked
<1> QED
  BY <1>1, <1>2, AllBackedNext, Invariance, PTL DEF Spec
-----------------------------------------------------------------------------
(* Without restarts, reservation expiry, edits and cancellations, no unit is *)
(* sold twice: for any number of units, clients and requests, whatever the   *)
(* interleaving of holds, reservations and signatures, and even when the     *)
(* payment schedule of a contract cannot be generated; nor is a unit held    *)
(* for two clients at once, while holds run out and are swept.               *)
(*                                                                           *)
(* The strengthening Quiet says that a reservation keeps its unit off the    *)
(* market, or is about to: the unit is reserved or contracted, or the        *)
(* request that saved the reservation still holds the lock of the unit and   *)
(* has only the unit left to save.                                           *)
QuietFaults == Faults \subseteq {"holdExpiry", "planFailure"}

(* The places no request reaches under these faults. *)
Absent == {"editSave", "amendSave"} \cup Sweeping \cup Cancelling

AboutToReserve(w, u) == req[w].pc = "saveUnit" /\ req[w].op # "hold" /\ req[w].unit = u

NoReopening == \A w \in Slots : req[w].pc \notin Absent
NothingExpires == \A r \in Reservations : reservations[r] # None => ~ reservations[r].expired
UnitTaken == \A r \in Reservations : reservations[r] # None =>
  \/ units[reservations[r].unit] \in {"reserved", "contracted"}
  \/ \E w \in Slots : AboutToReserve(w, reservations[r].unit)
OneReservationPerUnit == \A r, s \in Reservations :
  reservations[r] # None /\ reservations[s] # None /\ reservations[r].unit = reservations[s].unit
    => r = s
LockedStatus == \A w \in Slots :
  /\ req[w].pc = "freeHeld" => units[req[w].unit] = "held"
  /\ req[w].pc = "saveUnit" /\ req[w].op = "hold" => units[req[w].unit] = "available"

(* The inductive invariant, relative to Inv. *)
Quiet ==
  /\ NoReopening
  /\ NothingExpires
  /\ UnitTaken
  /\ OneReservationPerUnit
  /\ LockedStatus

(* Quiet holds before anything has been reserved. *)
LEMMA QuietInit == Init => Quiet
<1> SUFFICES ASSUME Init PROVE Quiet
  OBVIOUS
<1>1. \A w \in Slots : req[w].pc = "idle"
  BY IdleRequest DEF Init, InventoryInit
<1> QED
  BY <1>1 DEF Init, InventoryInit, Quiet, NoReopening, NothingExpires, UnitTaken,
     OneReservationPerUnit, LockedStatus, Absent, Sweeping, Cancelling

(* The unit of a request that holds the lock, and has not read it as taken, *)
(* has no reservation.                                                      *)
LEMMA NoReservationYet ==
  ASSUME Inv, Quiet, NEW w \in Slots, req[w].pc \in {"sweepHolds", "freeHeld", "saveUnit"},
         ~ AboutToReserve(w, req[w].unit),
         units[req[w].unit] \notin {"reserved", "contracted"},
         NEW r \in Reservations, reservations[r] # None
  PROVE  reservations[r].unit # req[w].unit
<1> SUFFICES ASSUME reservations[r].unit = req[w].unit PROVE FALSE
  OBVIOUS
<1>1. PICK v \in Slots : AboutToReserve(v, req[w].unit)
  BY DEF Quiet, UnitTaken
<1>2. unitLock[req[w].unit] = v /\ unitLock[req[w].unit] = w
  BY <1>1 DEF AboutToReserve, Inv, Owns
<1> QED
  BY <1>1, <1>2

(* A step that writes no unit, makes no reservation and does not enter the  *)
(* places the invariant is about.                                           *)
SameRows == \A r \in Reservations : reservations'[r] # None =>
  /\ reservations[r] # None
  /\ reservations'[r].unit = reservations[r].unit
  /\ reservations'[r].expired = reservations[r].expired

(* Such a step preserves Quiet. *)
LEMMA QuietElsewhere ==
  ASSUME Inv, Quiet, NEW w \in Slots, Others(w), units' = units, SameRows,
         req[w].pc # "saveUnit", req'[w].pc \notin Absent \cup {"freeHeld", "saveUnit"}
  PROVE  Quiet'
<1>1. NoReopening'
  BY DEF Quiet, NoReopening, Others
<1>2. NothingExpires' /\ OneReservationPerUnit'
  BY DEF Quiet, NothingExpires, OneReservationPerUnit, SameRows
<1>3. UnitTaken'
  <2> SUFFICES ASSUME NEW r \in Reservations, reservations'[r] # None,
                      units'[reservations'[r].unit] \notin {"reserved", "contracted"}
               PROVE  \E v \in Slots : AboutToReserve(v, reservations[r].unit)'
    BY DEF UnitTaken
  <2>1. PICK v \in Slots : AboutToReserve(v, reservations[r].unit)
    BY DEF Quiet, UnitTaken, SameRows
  <2>2. req'[v] = req[v]
    BY <2>1 DEF AboutToReserve, Others
  <2> QED
    BY <2>1, <2>2 DEF AboutToReserve, SameRows
<1>4. LockedStatus'
  BY DEF Quiet, LockedStatus, Others
<1> QED
  BY <1>1, <1>2, <1>3, <1>4 DEF Quiet

(* A hold or a reservation that begins touches no row and no lock. *)
LEMMA QuietStart ==
  ASSUME Inv, Quiet, NEW w \in Slots, NEW op \in Ops, NEW u \in Units,
         NEW o \in Opportunities \cup {None}, Start(w, op, u, o), UNCHANGED salesVars
  PROVE  Quiet'
<1>1. Others(w)
  BY StartEffects DEF Effects
<1>2. req'[w] = [Idle EXCEPT !.op = op, !.pc = "lock", !.unit = u, !.opp = o]
  BY DEF Start, Become, Inv, TypeOK
<1>3. req'[w].pc = "lock"
  BY <1>2, IdleRequest DEF Request
<1> QED
  BY <1>1, <1>3, QuietElsewhere DEF Start, IsIdle, SameRows, Absent, Sweeping, Cancelling

(* The sweep of holds goes on to free a unit only if it read it as held. *)
LEMMA QuietSweepHold ==
  ASSUME Inv, Quiet, NEW w \in Slots, NEW h \in Holds, SweepHold(w, h), UNCHANGED salesVars
  PROVE  Quiet'
<1>1. Others(w)
  BY SweepHoldEffects DEF Effects
<1> DEFINE p == IF units[req[w].unit] = "held" THEN "freeHeld" ELSE "sweepHolds"
<1>2. req'[w] = [req[w] EXCEPT !.pc = p, !.todo = req[w].todo \ {h}]
  BY DEF SweepHold, Become, Inv, TypeOK
<1>3. p \in {"freeHeld", "sweepHolds"} /\ (p = "freeHeld" => units[req[w].unit] = "held")
  OBVIOUS
<1> HIDE DEF p
<1>4. req'[w].pc = p /\ req'[w].unit = req[w].unit
  BY <1>2 DEF Inv, TypeOK, Request
<1>5. units' = units /\ reservations' = reservations /\ req[w].pc = "sweepHolds"
  BY DEF SweepHold
<1>6. NoReopening' /\ NothingExpires' /\ OneReservationPerUnit' /\ LockedStatus'
  BY <1>1, <1>3, <1>4, <1>5 DEF Quiet, NoReopening, NothingExpires, OneReservationPerUnit,
     LockedStatus, Others, Absent, Sweeping, Cancelling
<1>7. UnitTaken'
  BY <1>1, <1>5 DEF Quiet, UnitTaken, AboutToReserve, Others
<1> QED
  BY <1>6, <1>7 DEF Quiet

(* The unit freed was held, so no reservation relied on it. *)
LEMMA QuietFreeHeld ==
  ASSUME Inv, Quiet, NEW w \in Slots, FreeHeld(w), UNCHANGED salesVars
  PROVE  Quiet'
<1>1. Others(w) /\ req[w].pc = "freeHeld" /\ units[req[w].unit] = "held"
        /\ reservations' = reservations
  BY FreeHeldEffects DEF FreeHeld, Effects, Quiet, LockedStatus
<1>2. req'[w].pc = "sweepHolds"
  BY DEF FreeHeld, Goto, Become, Inv, TypeOK, Request
<1>3. \A u \in Units : u # req[w].unit => units'[u] = units[u]
  BY DEF FreeHeld, SetUnit, Inv, TypeOK
<1>4. \A r \in Reservations : reservations[r] # None => reservations[r].unit # req[w].unit
  BY <1>1, NoReservationYet DEF AboutToReserve
<1>5. \A v \in Slots : v # w /\ req[v].pc \in {"freeHeld", "saveUnit"} =>
        req[v].unit # req[w].unit /\ req[v].unit \in Units
  BY <1>1 DEF Inv, Owns, Refers, Taking
<1>6. NoReopening' /\ NothingExpires' /\ OneReservationPerUnit'
  BY <1>1, <1>2 DEF Quiet, NoReopening, NothingExpires, OneReservationPerUnit, Others,
     Absent, Sweeping, Cancelling
<1>7. LockedStatus'
  BY <1>1, <1>2, <1>3, <1>5 DEF Quiet, LockedStatus, Others
<1>8. UnitTaken'
  BY <1>1, <1>2, <1>3, <1>4 DEF Quiet, UnitTaken, AboutToReserve, Others, Inv, TypeOK,
     ReservationRow
<1> QED
  BY <1>6, <1>7, <1>8 DEF Quiet

(* A hold is saved only on a unit read as available. *)
LEMMA QuietSaveHold ==
  ASSUME Inv, Quiet, NEW w \in Slots, NEW h \in Holds, SaveHold(w, h), UNCHANGED salesVars
  PROVE  Quiet'
<1>1. Others(w) /\ req[w].pc = "sweepHolds" /\ req[w].op = "hold"
        /\ units[req[w].unit] = "available"
      /\ reservations' = reservations /\ units' = units
  BY SaveHoldEffects DEF SaveHold, Effects, Takeable
<1>2. req'[w].pc = "saveUnit" /\ req'[w].op = req[w].op /\ req'[w].unit = req[w].unit
  BY DEF SaveHold, Goto, Become, Inv, TypeOK, Request
<1>3. NoReopening' /\ NothingExpires' /\ OneReservationPerUnit' /\ LockedStatus'
  BY <1>1, <1>2 DEF Quiet, NoReopening, NothingExpires, OneReservationPerUnit,
     LockedStatus, Others, Absent, Sweeping, Cancelling
<1>4. UnitTaken'
  BY <1>1 DEF Quiet, UnitTaken, AboutToReserve, Others
<1> QED
  BY <1>3, <1>4 DEF Quiet

(* The new reservation is the only one of its unit, and the request that    *)
(* saved it is about to reserve the unit.                                   *)
LEMMA QuietSaveReservation ==
  ASSUME Inv, Quiet, NEW w \in Slots, NEW r \in Reservations, SaveReservation(w, r), UNCHANGED salesVars
  PROVE  Quiet'
<1>1. Others(w) /\ req[w].pc = "sweepHolds" /\ req[w].op # "hold" /\ units' = units
      /\ units[req[w].unit] \notin {"reserved", "contracted"}
  BY SaveReservationEffects DEF SaveReservation, Effects, Takeable
<1>2. req'[w].pc = "saveUnit" /\ req'[w].op = req[w].op /\ req'[w].unit = req[w].unit
  BY DEF SaveReservation, Become, Inv, TypeOK, Request
<1>3. /\ \A s \in Reservations : s # r => reservations'[s] = reservations[s]
      /\ reservations'[r].unit = req[w].unit /\ ~ reservations'[r].expired
      /\ reservations[r] = None
  BY DEF SaveReservation, Inv, TypeOK
<1>4. \A s \in Reservations : reservations[s] # None => reservations[s].unit # req[w].unit
  BY <1>1, NoReservationYet DEF AboutToReserve
<1>5. NoReopening' /\ LockedStatus'
  BY <1>1, <1>2 DEF Quiet, NoReopening, LockedStatus, Others, Absent, Sweeping, Cancelling
<1>6. NothingExpires' /\ OneReservationPerUnit'
  BY <1>3, <1>4 DEF Quiet, NothingExpires, OneReservationPerUnit
<1>7. UnitTaken'
  <2> SUFFICES ASSUME NEW s \in Reservations, reservations'[s] # None,
                      units'[reservations'[s].unit] \notin {"reserved", "contracted"}
               PROVE  \E v \in Slots : AboutToReserve(v, reservations[s].unit)'
    BY DEF UnitTaken
  <2>1. CASE s = r
    BY <1>1, <1>2, <1>3, <2>1 DEF AboutToReserve
  <2>2. CASE s # r
    <3>1. PICK v \in Slots : AboutToReserve(v, reservations[s].unit)
      BY <1>1, <1>3, <2>2 DEF Quiet, UnitTaken
    <3> QED
      BY <1>1, <1>3, <2>2, <3>1 DEF AboutToReserve, Others
  <2> QED
    BY <2>1, <2>2
<1> QED
  BY <1>5, <1>6, <1>7 DEF Quiet

(* Under the lock the unit gets the status its row claims. *)
LEMMA QuietSaveUnit ==
  ASSUME Inv, Quiet, NEW w \in Slots, SaveUnit(w), UNCHANGED salesVars
  PROVE  Quiet'
<1>1. Others(w) /\ req[w].pc = "saveUnit" /\ reservations' = reservations
        /\ req[w].unit \in Units
      /\ (req[w].op = "hold" => units[req[w].unit] = "available")
  BY SaveUnitEffects DEF SaveUnit, Effects, Quiet, LockedStatus, Inv, Refers, Taking
<1>2. req'[w].pc \in {"saveOpportunity", "idle"}
  BY IdleRequest DEF SaveUnit, Goto, Finish, Become, Inv, TypeOK, Request
<1>3. \A u \in Units : units'[u] =
        IF u = req[w].unit THEN (IF req[w].op = "hold" THEN "held" ELSE "reserved") ELSE units[u]
  BY DEF SaveUnit, SetUnit, Inv, TypeOK
<1>4. req[w].op = "hold" =>
        \A r \in Reservations : reservations[r] # None => reservations[r].unit # req[w].unit
  BY <1>1, NoReservationYet DEF AboutToReserve
<1>5. \A v \in Slots : v # w /\ req[v].pc \in {"freeHeld", "saveUnit"} =>
        req[v].unit # req[w].unit /\ req[v].unit \in Units
  BY <1>1 DEF Inv, Owns, Refers, Taking
<1>6. NoReopening' /\ NothingExpires' /\ OneReservationPerUnit'
  BY <1>1, <1>2 DEF Quiet, NoReopening, NothingExpires, OneReservationPerUnit, Others,
     Absent, Sweeping, Cancelling
<1>7. LockedStatus'
  BY <1>1, <1>2, <1>3, <1>5 DEF Quiet, LockedStatus, Others
<1>8. UnitTaken'
  <2> SUFFICES ASSUME NEW r \in Reservations, reservations[r] # None
               PROVE  \/ units'[reservations[r].unit] \in {"reserved", "contracted"}
                      \/ \E v \in Slots : AboutToReserve(v, reservations[r].unit)'
    BY <1>1 DEF UnitTaken
  <2>1. reservations[r].unit \in Units
    BY DEF Inv, TypeOK, ReservationRow
  <2>2. CASE reservations[r].unit = req[w].unit
    BY <1>3, <1>4, <2>1, <2>2
  <2>3. CASE reservations[r].unit # req[w].unit
    BY <1>1, <1>3, <2>1, <2>3 DEF Quiet, UnitTaken, AboutToReserve, Others
  <2> QED
    BY <2>2, <2>3
<1> QED
  BY <1>6, <1>7, <1>8 DEF Quiet

(* A contracted unit is off the market as much as a reserved one. *)
LEMMA QuietSignUnit ==
  ASSUME Inv, Quiet, NEW w \in Slots, SignUnit(w)
  PROVE  Quiet'
<1>1. Others(w) /\ req[w].pc = "signUnit" /\ reservations' = reservations
        /\ req[w].unit \in Units
      /\ unitLock[req[w].unit] = None
  BY SignUnitEffects DEF SignUnit, Free, Effects, Inv, Refers, Signing
<1>2. req'[w].pc = "signReservation"
  BY DEF SignUnit, Goto, Become, Inv, TypeOK, Request
<1>3. \A u \in Units : units'[u] = IF u = req[w].unit THEN "contracted" ELSE units[u]
  BY DEF SignUnit, SetUnit, Inv, TypeOK
<1>4. \A v \in Slots : req[v].pc \in {"freeHeld", "saveUnit"} =>
        req[v].unit # req[w].unit /\ req[v].unit \in Units
  BY <1>1, NoneAssumption DEF Inv, Owns, Refers, Taking
<1>5. NoReopening' /\ NothingExpires' /\ OneReservationPerUnit'
  BY <1>1, <1>2 DEF Quiet, NoReopening, NothingExpires, OneReservationPerUnit, Others,
     Absent, Sweeping, Cancelling
<1>6. LockedStatus'
  BY <1>1, <1>2, <1>3, <1>4 DEF Quiet, LockedStatus, Others
<1>7. UnitTaken'
  BY <1>1, <1>2, <1>3 DEF Quiet, UnitTaken, AboutToReserve, Others, Inv, TypeOK,
     ReservationRow
<1> QED
  BY <1>5, <1>6, <1>7 DEF Quiet

(* The other steps of the inventory methods. *)
LEMMA QuietInventory ==
  ASSUME QuietFaults, Inv, Quiet, NEW w \in Slots, InventoryStart(w) \/ InventoryStep(w),
         UNCHANGED salesVars
  PROVE  Quiet'
<1> USE DEF Absent, Sweeping, Cancelling
<1>1. CASE InventoryStart(w)
  <2>1. ASSUME NEW u \in Units, StartHold(w, u) PROVE Quiet'
    BY <2>1, QuietStart DEF StartHold, Ops
  <2>2. ASSUME NEW u \in Units, NEW o \in Opportunities \cup {None}, StartReserve(w, u, o)
        PROVE  Quiet'
    BY <2>2, QuietStart DEF StartReserve, Ops
  <2>3. ASSUME NEW u \in Units, StartEdit(w, u) PROVE FALSE
    BY <2>3 DEF StartEdit, QuietFaults
  <2>4. ~ StartSweep(w)
    BY DEF StartSweep, Expired, Quiet, NothingExpires
  <2> QED
    BY <1>1, <2>1, <2>2, <2>3, <2>4 DEF InventoryStart
<1>2. CASE InventoryStep(w)
  <2>1. Others(w)
    BY <1>2, InventoryEffects DEF Effects
  <2>2. CASE AcquireUnit(w)
    <3>1. req'[w] = [req[w] EXCEPT !.pc = "sweepHolds", !.todo = ExpiredHolds(req[w].unit)]
      BY <2>2 DEF AcquireUnit, Become, Inv, TypeOK
    <3>2. req'[w].pc = "sweepHolds"
      BY <3>1 DEF Inv, TypeOK, Request
    <3> QED
      BY <2>1, <2>2, <3>2, QuietElsewhere DEF AcquireUnit, SameRows
  <2>3. CASE Refuse(w)
    <3>1. req'[w].pc = "idle"
      BY <2>3, IdleRequest DEF Refuse, Finish, Become, Inv, TypeOK
    <3> QED
      BY <2>1, <2>3, <3>1, QuietElsewhere DEF Refuse, SameRows
  <2>4. ASSUME NEW h \in Holds, SweepHold(w, h) \/ SaveHold(w, h) PROVE Quiet'
    BY <2>4, QuietSweepHold, QuietSaveHold
  <2>5. ASSUME NEW r \in Reservations, SaveReservation(w, r) \/ SweepCancel(w, r) PROVE Quiet'
    BY <2>5, QuietSaveReservation DEF SweepCancel, Quiet, NoReopening
  <2>6. ~ SaveEdit(w) /\ ~ SweepLeave(w) /\ ~ SweepAcquire(w) /\ ~ SweepFree(w)
    BY DEF SaveEdit, SweepLeave, SweepAcquire, SweepFree, Quiet, NoReopening
  <2> QED
    BY <1>2, <2>2, <2>3, <2>4, <2>5, <2>6, QuietFreeHeld, QuietSaveUnit DEF InventoryStep
<1> QED
  BY <1>1, <1>2

(* The other steps of the sales methods. *)
LEMMA QuietSales ==
  ASSUME QuietFaults, Inv, Quiet, NEW w \in Slots, SalesStart(w) \/ SalesStep(w)
  PROVE  Quiet'
<1> USE DEF Absent, Sweeping, Cancelling
<1>1. Others(w)
  BY SalesEffects DEF Effects
<1>2. CASE SalesStart(w)
  <2>1. ASSUME NEW o \in Opportunities, NEW u \in Units, StartReserveFor(w, o, u) PROVE Quiet'
    BY <2>1, QuietStart DEF StartReserveFor, Ops
  <2>2. ASSUME NEW r \in Reservations, StartSign(w, r) PROVE Quiet'
    <3>1. req'[w] = [Idle EXCEPT !.op = "sign", !.pc = "signLock", !.res = r]
      BY <2>2 DEF StartSign, Become, Inv, TypeOK
    <3>2. req'[w].pc = "signLock"
      BY <3>1, IdleRequest DEF Request
    <3> QED
      BY <1>1, <2>2, <3>2, QuietElsewhere DEF StartSign, IsIdle, SameRows
  <2>3. ASSUME NEW c \in Contracts, StartCancel(w, c) \/ StartAmend(w, c) PROVE FALSE
    BY <2>3 DEF StartCancel, StartAmend, QuietFaults
  <2> QED
    BY <1>2, <2>1, <2>2, <2>3 DEF SalesStart
<1>3. CASE SalesStep(w)
  <2>1. CASE SaveOpportunity(w) \/ SignRefuse(w) \/ SignPlanFails(w) \/ SignWon(w)
    <3>1. req'[w].pc = "idle"
      BY <2>1, IdleRequest DEF SaveOpportunity, SignRefuse, SignPlanFails, SignWon,
         Finish, Become, Inv, TypeOK
    <3> QED
      BY <1>1, <2>1, <3>1, QuietElsewhere DEF SaveOpportunity, SignRefuse, SignPlanFails,
         SignWon, SameRows
  <2>2. CASE SignCheck(w)
    <3>1. req'[w] = [req[w] EXCEPT !.pc = "signSave", !.unit = reservations[req[w].res].unit,
                                   !.opp = reservations[req[w].res].opportunity]
      BY <2>2 DEF SignCheck, Become, Inv, TypeOK
    <3>2. req'[w].pc = "signSave"
      BY <3>1 DEF Inv, TypeOK, Request
    <3> QED
      BY <1>1, <2>2, <3>2, QuietElsewhere DEF SignCheck, SameRows
  <2>3. ASSUME NEW c \in Contracts, SignSave(w, c) PROVE Quiet'
    <3>1. req'[w] = [req[w] EXCEPT !.pc = "signPlan", !.con = c]
      BY <2>3 DEF SignSave, Become, Inv, TypeOK
    <3>2. req'[w].pc = "signPlan"
      BY <3>1 DEF Inv, TypeOK, Request
    <3> QED
      BY <1>1, <2>3, <3>2, QuietElsewhere DEF SignSave, SameRows
  <2>4. CASE SignPlan(w)
    <3>1. req'[w].pc = "signUnit"
      BY <2>4 DEF SignPlan, Goto, Become, Inv, TypeOK, Request
    <3> QED
      BY <1>1, <2>4, <3>1, QuietElsewhere DEF SignPlan, SameRows
  <2>5. CASE SignReservation(w)
    <3>1. req'[w].pc \in {"idle", "signWon"}
      BY <2>5, IdleRequest DEF SignReservation, Goto, Finish, Become, Inv, TypeOK, Request
    <3>2. SameRows
      <4>1. reservations[req[w].res] # None /\ reservations[req[w].res] \in ReservationRow
        BY <2>5 DEF SignReservation, Inv, TypeOK, Refers, ReservationExists, Signing
      <4> QED
        BY <2>5, <4>1 DEF SignReservation, SameRows, Inv, TypeOK, ReservationRow
    <3> QED
      BY <1>1, <2>5, <3>1, <3>2, QuietElsewhere DEF SignReservation
  <2>6. ~ CancelSave(w) /\ ~ CancelUnit(w) /\ ~ CancelReservation(w) /\ ~ AmendSave(w)
    BY DEF CancelSave, CancelUnit, CancelReservation, AmendSave, Quiet, NoReopening
  <2> QED
    BY <1>3, <2>1, <2>2, <2>3, <2>4, <2>5, <2>6, QuietSignUnit DEF SalesStep
<1> QED
  BY <1>2, <1>3

(* Steps that no request takes. *)
LEMMA QuietAlone ==
  ASSUME QuietFaults, Inv, Quiet, UNCHANGED <<units, reservations, req>>
  PROVE  Quiet'
BY DEF Quiet, NoReopening, NothingExpires, UnitTaken, AboutToReserve,
   OneReservationPerUnit, LockedStatus

(* Quiet is inductive relative to Inv when nothing expires, is edited, is    *)
(* cancelled or crashes.                                                    *)
LEMMA QuietNext == QuietFaults => (Inv /\ Quiet /\ [Next]_vars => Quiet')
<1> SUFFICES ASSUME QuietFaults, Inv, Quiet, [Next]_vars PROVE Quiet'
  OBVIOUS
<1>1. ASSUME NEW w \in Slots, InventoryStart(w) \/ InventoryStep(w), UNCHANGED salesVars
      PROVE  Quiet'
  BY <1>1, QuietInventory
<1>2. ASSUME NEW w \in Slots, SalesStart(w) \/ SalesStep(w) PROVE Quiet'
  BY <1>2, QuietSales
<1>3. ASSUME NEW o \in Opportunities, CreateOpportunity(o) PROVE Quiet'
  BY <1>3, QuietAlone DEF CreateOpportunity, inventoryVars
<1>4. CASE Clock
  BY <1>4, QuietAlone DEF Clock, ExpireHold, ExpireReservation, QuietFaults
<1>5. ~ Crash
  BY DEF Crash, QuietFaults
<1>6. CASE UNCHANGED vars
  BY <1>6, QuietAlone DEF vars
<1> QED
  BY <1>1, <1>2, <1>3, <1>4, <1>5, <1>6 DEF Next

(* Two contracts for one unit would be for one reservation, and a           *)
(* reservation has one contract.                                            *)
LEMMA QuietSafe == Inv /\ Quiet => NoDoubleSell
<1> SUFFICES ASSUME Inv, Quiet, NEW c \in Contracts, NEW d \in Contracts,
                    contracts[c] # None, contracts[d] # None, UnitOf(c) = UnitOf(d)
             PROVE  c = d
  BY DEF NoDoubleSell
<1>1. ReservationExists(contracts[c].reservation) /\ ReservationExists(contracts[d].reservation)
  BY DEF Inv, ContractsRefer
<1>2. contracts[c].reservation = contracts[d].reservation
  BY <1>1 DEF ReservationExists, UnitOf, Quiet, OneReservationPerUnit
<1> QED
  BY <1>2 DEF Inv, OneContractPerReservation

(* Without the faults that put a unit back on the market, no unit is ever   *)
(* sold twice.                                                              *)
THEOREM SoldOnce == QuietFaults => (Spec => []NoDoubleSell)
<1> SUFFICES ASSUME QuietFaults PROVE Spec => []NoDoubleSell
  OBVIOUS
<1>1. Inv /\ Quiet /\ [Next]_vars => Quiet'
  BY QuietNext
<1> QED
  BY <1>1, QuietInit, QuietSafe, Invariance, PTL DEF Spec
-----------------------------------------------------------------------------
(* A hold keeps its unit off the market for the others in the same way: its *)
(* unit is held or further on, or the request that saved the hold still has *)
(* the lock of the unit and only the unit left to save.  A unit is freed    *)
(* only after the hold that ran out has been saved as inactive, and that    *)
(* was the only active one.                                                 *)
Active(h) == holds[h] # None /\ holds[h].active
AboutToHold(w, u) == req[w].pc = "saveUnit" /\ req[w].op = "hold" /\ req[w].unit = u

OneActiveHold == \A g, h \in Holds :
  Active(g) /\ Active(h) /\ holds[g].unit = holds[h].unit => g = h
HoldTaken == \A h \in Holds : Active(h) =>
  \/ units[holds[h].unit] \in {"held", "reserved", "contracted"}
  \/ \E w \in Slots : AboutToHold(w, holds[h].unit)
FreedUnheld == \A w \in Slots : req[w].pc = "freeHeld" =>
  \A h \in Holds : Active(h) => holds[h].unit # req[w].unit
SweptAreActive == \A w \in Slots : req[w].pc \in {"sweepHolds", "freeHeld"} =>
  \A h \in req[w].todo : Active(h) /\ holds[h].unit = req[w].unit

(* The inductive invariant, relative to Inv and Quiet. *)
HeldApart == OneActiveHold /\ HoldTaken /\ FreedUnheld /\ SweptAreActive

(* The unit of a request that has its lock, and reads it as available,      *)
(* carries no active hold.                                                  *)
LEMMA NoHoldYet ==
  ASSUME Inv, HeldApart, NEW w \in Slots, req[w].pc \in {"sweepHolds", "freeHeld"},
         units[req[w].unit] = "available", NEW h \in Holds, Active(h)
  PROVE  holds[h].unit # req[w].unit
<1> SUFFICES ASSUME holds[h].unit = req[w].unit PROVE FALSE
  OBVIOUS
<1>1. PICK v \in Slots : AboutToHold(v, req[w].unit)
  BY DEF HeldApart, HoldTaken
<1>2. unitLock[req[w].unit] = v /\ unitLock[req[w].unit] = w
  BY <1>1 DEF AboutToHold, Inv, Owns
<1> QED
  BY <1>1, <1>2 DEF AboutToHold

(* An active hold stays what it is, and no other becomes active. *)
SameHolds == \A h \in Holds : (Active(h)' <=> Active(h)) /\ (Active(h) => holds'[h].unit = holds[h].unit)

(* A step that takes units but frees none, saves no hold and does not enter *)
(* the place where a held unit is freed.                                    *)
LEMMA HeldApartElsewhere ==
  ASSUME Inv, HeldApart, NEW w \in Slots, Others(w), SameHolds,
         \A u \in Units : units'[u] = units[u] \/ units'[u] \in {"held", "reserved", "contracted"},
         req[w].pc = "saveUnit" => units'[req[w].unit] \in {"held", "reserved", "contracted"},
         req'[w].pc # "freeHeld",
         req'[w].pc = "sweepHolds" =>
           \A h \in req'[w].todo : h \in Holds /\ Active(h) /\ holds[h].unit = req'[w].unit
  PROVE  HeldApart'
<1>1. OneActiveHold'
  BY DEF HeldApart, OneActiveHold, SameHolds
<1>2. HoldTaken'
  <2> SUFFICES ASSUME NEW h \in Holds, Active(h)',
                      units'[holds'[h].unit] \notin {"held", "reserved", "contracted"}
               PROVE  \E v \in Slots : AboutToHold(v, holds[h].unit)'
    BY DEF HoldTaken, SameHolds
  <2>1. Active(h) /\ holds'[h].unit = holds[h].unit /\ holds[h].unit \in Units
    BY DEF SameHolds, Active, Inv, TypeOK, HoldRow
  <2>2. PICK v \in Slots : AboutToHold(v, holds[h].unit)
    BY <2>1 DEF HeldApart, HoldTaken
  <2>3. v # w
    BY <2>1, <2>2 DEF AboutToHold
  <2> QED
    BY <2>1, <2>2, <2>3 DEF AboutToHold, Others
<1>3. FreedUnheld'
  BY DEF HeldApart, FreedUnheld, SameHolds, Others
<1>4. SweptAreActive'
  <2> SUFFICES ASSUME NEW v \in Slots, req'[v].pc \in {"sweepHolds", "freeHeld"},
                      NEW h \in req'[v].todo
               PROVE  Active(h)' /\ holds'[h].unit = req'[v].unit
    BY DEF SweptAreActive
  <2>1. h \in Holds /\ Active(h) /\ holds[h].unit = req'[v].unit
    <3>1. CASE v = w
      BY <3>1
    <3>2. CASE v # w
      BY <3>2 DEF Others, HeldApart, SweptAreActive, Inv, Refers, HoldExists
    <3> QED
      BY <3>1, <3>2
  <2> QED
    BY <2>1 DEF SameHolds
<1> QED
  BY <1>1, <1>2, <1>3, <1>4 DEF HeldApart

(* The hold that ran out was the only active one of its unit. *)
LEMMA SweepHoldApart ==
  ASSUME Inv, Quiet, HeldApart, NEW w \in Slots, NEW h \in Holds, SweepHold(w, h), UNCHANGED salesVars
  PROVE  HeldApart'
<1>1. Others(w) /\ req[w].pc = "sweepHolds" /\ h \in req[w].todo /\ units' = units
        /\ unitLock[req[w].unit] = w
  BY SweepHoldEffects DEF SweepHold, Effects, Inv, Owns
<1>2. Active(h) /\ holds[h].unit = req[w].unit /\ holds[h] \in HoldRow
  BY <1>1 DEF HeldApart, SweptAreActive, Active, Inv, TypeOK
<1>3. ~ Active(h)' /\ \A g \in Holds : g # h => holds'[g] = holds[g]
  BY <1>2 DEF SweepHold, Active, Inv, TypeOK, HoldRow
<1> DEFINE p == IF units[req[w].unit] = "held" THEN "freeHeld" ELSE "sweepHolds"
<1>4. req'[w] = [req[w] EXCEPT !.pc = p, !.todo = req[w].todo \ {h}]
  BY DEF SweepHold, Become, Inv, TypeOK
<1> HIDE DEF p
<1>5. req'[w].unit = req[w].unit /\ req'[w].todo = req[w].todo \ {h}
  BY <1>4 DEF Inv, TypeOK, Request
<1>6. \A g \in Holds : Active(g)' => g # h /\ Active(g) /\ holds'[g] = holds[g]
                                      /\ holds[g].unit # req[w].unit
  BY <1>2, <1>3 DEF HeldApart, OneActiveHold, Active
<1>7. OneActiveHold'
  BY <1>6 DEF HeldApart, OneActiveHold
<1>8. HoldTaken'
  BY <1>1, <1>6 DEF HeldApart, HoldTaken, AboutToHold, Others
<1>9. FreedUnheld'
  BY <1>1, <1>5, <1>6 DEF HeldApart, FreedUnheld, Others
<1>10. SweptAreActive'
  <2> SUFFICES ASSUME NEW v \in Slots, req'[v].pc \in {"sweepHolds", "freeHeld"},
                      NEW g \in req'[v].todo
               PROVE  Active(g)' /\ holds'[g].unit = req'[v].unit
    BY DEF SweptAreActive
  <2>1. CASE v = w
    <3>1. g \in Holds /\ g # h /\ Active(g) /\ holds[g].unit = req[w].unit
      BY <1>1, <1>5, <2>1 DEF HeldApart, SweptAreActive, Inv, Refers, HoldExists
    <3> QED
      BY <1>3, <1>5, <2>1, <3>1 DEF Active
  <2>2. CASE v # w
    <3>1. req'[v] = req[v] /\ g \in Holds /\ Active(g) /\ holds[g].unit = req[v].unit
      BY <1>1, <2>2 DEF Others, HeldApart, SweptAreActive, Inv, Refers, HoldExists
    <3>2. req[v].unit # req[w].unit
      BY <1>1, <2>2, <3>1 DEF Inv, Owns
    <3> QED
      BY <1>2, <1>3, <3>1, <3>2 DEF Active
  <2> QED
    BY <2>1, <2>2
<1> QED
  BY <1>7, <1>8, <1>9, <1>10 DEF HeldApart

(* The unit freed carries no active hold. *)
LEMMA FreeHeldApart ==
  ASSUME Inv, Quiet, HeldApart, NEW w \in Slots, FreeHeld(w), UNCHANGED salesVars
  PROVE  HeldApart'
<1>1. Others(w) /\ req[w].pc = "freeHeld" /\ holds' = holds /\ req[w].unit \in Units
  BY FreeHeldEffects DEF FreeHeld, Effects, Inv, Refers, Taking
<1>2. req'[w].pc = "sweepHolds" /\ req'[w].todo = req[w].todo /\ req'[w].unit = req[w].unit
  BY DEF FreeHeld, Goto, Become, Inv, TypeOK, Request
<1>3. \A u \in Units : u # req[w].unit => units'[u] = units[u]
  BY DEF FreeHeld, SetUnit, Inv, TypeOK
<1>4. \A h \in Holds : Active(h) => holds[h].unit # req[w].unit /\ holds[h].unit \in Units
  BY <1>1 DEF HeldApart, FreedUnheld, Active, Inv, TypeOK, HoldRow
<1>5. OneActiveHold' /\ FreedUnheld' /\ SweptAreActive'
  BY <1>1, <1>2 DEF HeldApart, OneActiveHold, FreedUnheld, SweptAreActive, Active, Others
<1>6. HoldTaken'
  <2> SUFFICES ASSUME NEW h \in Holds, Active(h),
                      units'[holds[h].unit] \notin {"held", "reserved", "contracted"}
               PROVE  \E v \in Slots : AboutToHold(v, holds[h].unit)'
    BY <1>1 DEF HoldTaken, Active
  <2>1. units'[holds[h].unit] = units[holds[h].unit]
    BY <1>3, <1>4
  <2>2. PICK v \in Slots : AboutToHold(v, holds[h].unit)
    BY <2>1 DEF HeldApart, HoldTaken
  <2>3. req'[v] = req[v]
    BY <1>1, <2>2 DEF AboutToHold, Others
  <2> QED
    BY <1>1, <2>2, <2>3 DEF AboutToHold
<1> QED
  BY <1>5, <1>6 DEF HeldApart

(* The new hold is the only active one of its unit. *)
LEMMA SaveHoldApart ==
  ASSUME Inv, Quiet, HeldApart, NEW w \in Slots, NEW h \in Holds, SaveHold(w, h), UNCHANGED salesVars
  PROVE  HeldApart'
<1>1. Others(w) /\ req[w].pc = "sweepHolds" /\ req[w].op = "hold" /\ units' = units
      /\ units[req[w].unit] = "available" /\ holds[h] = None /\ unitLock[req[w].unit] = w
  BY SaveHoldEffects DEF SaveHold, Effects, Takeable, Inv, Owns
<1>2. req'[w].pc = "saveUnit" /\ req'[w].op = req[w].op /\ req'[w].unit = req[w].unit
  BY DEF SaveHold, Goto, Become, Inv, TypeOK, Request
<1>3. holds'[h].unit = req[w].unit /\ \A g \in Holds : g # h => holds'[g] = holds[g]
  BY DEF SaveHold, Inv, TypeOK
<1>4. \A g \in Holds : Active(g) => g # h /\ holds[g].unit # req[w].unit
  BY <1>1, NoHoldYet DEF Active
<1>5. OneActiveHold'
  BY <1>3, <1>4 DEF HeldApart, OneActiveHold, Active
<1>6. HoldTaken'
  <2> SUFFICES ASSUME NEW g \in Holds, Active(g)',
                      units[holds'[g].unit] \notin {"held", "reserved", "contracted"}
               PROVE  \E v \in Slots : AboutToHold(v, holds[g].unit)'
    BY <1>1 DEF HoldTaken
  <2>1. CASE g = h
    BY <1>1, <1>2, <1>3, <2>1 DEF AboutToHold
  <2>2. CASE g # h
    <3>1. PICK v \in Slots : AboutToHold(v, holds[g].unit)
      BY <1>3, <2>2 DEF HeldApart, HoldTaken, Active
    <3>2. v # w
      BY <1>1, <3>1 DEF AboutToHold
    <3> QED
      BY <1>1, <1>3, <2>2, <3>1, <3>2 DEF AboutToHold, Others
  <2> QED
    BY <2>1, <2>2
<1>7. FreedUnheld'
  <2> SUFFICES ASSUME NEW v \in Slots, req'[v].pc = "freeHeld", NEW g \in Holds, Active(g)'
               PROVE  holds'[g].unit # req'[v].unit
    BY DEF FreedUnheld
  <2>1. v # w /\ req'[v] = req[v] /\ req[v].unit # req[w].unit
    BY <1>1, <1>2 DEF Others, Inv, Owns
  <2>2. CASE g = h
    BY <1>3, <2>1, <2>2
  <2>3. CASE g # h
    BY <1>3, <2>1, <2>3 DEF HeldApart, FreedUnheld, Active
  <2> QED
    BY <2>2, <2>3
<1>8. SweptAreActive'
  <2> SUFFICES ASSUME NEW v \in Slots, req'[v].pc \in {"sweepHolds", "freeHeld"},
                      NEW g \in req'[v].todo
               PROVE  Active(g)' /\ holds'[g].unit = req'[v].unit
    BY DEF SweptAreActive
  <2>1. v # w /\ req'[v] = req[v]
    BY <1>1, <1>2 DEF Others
  <2>2. g \in Holds /\ Active(g) /\ holds[g].unit = req[v].unit /\ g # h
    BY <1>1, <2>1 DEF HeldApart, SweptAreActive, Inv, Refers, HoldExists, Active
  <2> QED
    BY <1>3, <2>1, <2>2 DEF Active
<1> QED
  BY <1>5, <1>6, <1>7, <1>8 DEF HeldApart

(* The other steps free no unit under these faults. *)
LEMMA InventoryApart ==
  ASSUME QuietFaults, Inv, Quiet, HeldApart, NEW w \in Slots,
         InventoryStart(w) \/ InventoryStep(w), UNCHANGED salesVars
  PROVE  HeldApart'
<1> USE DEF Absent, Sweeping, Cancelling
<1>1. Others(w)
  BY InventoryEffects DEF Effects
<1>2. ASSUME holds' = holds PROVE SameHolds
  BY <1>2 DEF SameHolds, Active
<1>3. ASSUME NEW op \in Ops, NEW u \in Units, NEW o \in Opportunities \cup {None}, Start(w, op, u, o)
      PROVE  HeldApart'
  <2>1. req'[w] = [Idle EXCEPT !.op = op, !.pc = "lock", !.unit = u, !.opp = o]
    BY <1>3 DEF Start, Become, Inv, TypeOK
  <2>2. req'[w].pc = "lock"
    BY <2>1, IdleRequest DEF Request
  <2> QED
    BY <1>1, <1>2, <1>3, <2>2, HeldApartElsewhere DEF Start, IsIdle
<1>4. CASE InventoryStart(w)
  <2>1. ASSUME NEW u \in Units, StartEdit(w, u) PROVE FALSE
    BY <2>1 DEF StartEdit, QuietFaults
  <2>2. ~ StartSweep(w)
    BY DEF StartSweep, Expired, Quiet, NothingExpires
  <2> QED
    BY <1>3, <1>4, <2>1, <2>2 DEF InventoryStart, StartHold, StartReserve, Ops
<1>5. CASE AcquireUnit(w)
  <2>1. req'[w] = [req[w] EXCEPT !.pc = "sweepHolds", !.todo = ExpiredHolds(req[w].unit)]
    BY <1>5 DEF AcquireUnit, Become, Inv, TypeOK
  <2>2. req'[w].pc = "sweepHolds" /\ req'[w].unit = req[w].unit
          /\ req'[w].todo = ExpiredHolds(req[w].unit)
    BY <2>1 DEF Inv, TypeOK, Request
  <2>3. \A h \in req'[w].todo : h \in Holds /\ Active(h) /\ holds[h].unit = req'[w].unit
    BY <2>2 DEF ExpiredHolds, Active
  <2> QED
    BY <1>1, <1>2, <1>5, <2>2, <2>3, HeldApartElsewhere DEF AcquireUnit
<1>6. CASE Refuse(w)
  <2>1. req'[w].pc = "idle"
    BY <1>6, IdleRequest DEF Refuse, Finish, Become, Inv, TypeOK
  <2> QED
    BY <1>1, <1>2, <1>6, <2>1, HeldApartElsewhere DEF Refuse
<1>7. ASSUME NEW r \in Reservations, SaveReservation(w, r) PROVE HeldApart'
  <2>1. req'[w] = [req[w] EXCEPT !.pc = "saveUnit", !.res = r]
    BY <1>7 DEF SaveReservation, Become, Inv, TypeOK
  <2>2. req'[w].pc = "saveUnit"
    BY <2>1 DEF Inv, TypeOK, Request
  <2> QED
    BY <1>1, <1>2, <1>7, <2>2, HeldApartElsewhere DEF SaveReservation
<1>8. CASE SaveUnit(w)
  <2>1. req'[w].pc \in {"saveOpportunity", "idle"}
    BY <1>8, IdleRequest DEF SaveUnit, Goto, Finish, Become, Inv, TypeOK, Request
  <2>2. req[w].pc = "saveUnit" /\ req[w].unit \in Units
    BY <1>8 DEF SaveUnit, Inv, Refers, Taking
  <2>3. \A u \in Units : units'[u] =
          IF u = req[w].unit THEN (IF req[w].op = "hold" THEN "held" ELSE "reserved") ELSE units[u]
    BY <1>8 DEF SaveUnit, SetUnit, Inv, TypeOK
  <2>4. holds' = holds
    BY <1>8 DEF SaveUnit
  <2> QED
    BY <1>1, <1>2, <2>1, <2>2, <2>3, <2>4, HeldApartElsewhere
<1>9. ~ SaveEdit(w) /\ ~ SweepLeave(w) /\ ~ SweepAcquire(w) /\ ~ SweepFree(w)
      /\ \A r \in Reservations : ~ SweepCancel(w, r)
  BY DEF SaveEdit, SweepLeave, SweepAcquire, SweepFree, SweepCancel, Quiet, NoReopening
<1> QED
  BY <1>4, <1>5, <1>6, <1>7, <1>8, <1>9, SweepHoldApart, SaveHoldApart, FreeHeldApart
     DEF InventoryStep

(* A signature takes a unit further off the market. *)
LEMMA SalesApart ==
  ASSUME QuietFaults, Inv, Quiet, HeldApart, NEW w \in Slots, SalesStart(w) \/ SalesStep(w)
  PROVE  HeldApart'
<1> USE DEF Absent, Sweeping, Cancelling
<1>1. Others(w)
  BY SalesEffects DEF Effects
<1>2. ASSUME NEW o \in Opportunities, NEW u \in Units, StartReserveFor(w, o, u)
      PROVE  req'[w].pc = "lock"
  <2>1. req'[w] = [Idle EXCEPT !.op = "reserveFor", !.pc = "lock", !.unit = u, !.opp = o]
    BY <1>2 DEF StartReserveFor, Start, Become, Inv, TypeOK
  <2> QED
    BY <2>1, IdleRequest DEF Request
<1>3. ASSUME NEW r \in Reservations, StartSign(w, r) PROVE req'[w].pc = "signLock"
  <2>1. req'[w] = [Idle EXCEPT !.op = "sign", !.pc = "signLock", !.res = r]
    BY <1>3 DEF StartSign, Become, Inv, TypeOK
  <2> QED
    BY <2>1, IdleRequest DEF Request
<1>4. ASSUME NEW c \in Contracts, StartCancel(w, c) \/ StartAmend(w, c) PROVE FALSE
  BY <1>4 DEF StartCancel, StartAmend, QuietFaults
<1>5. CASE SignCheck(w)
  <2>1. req'[w] = [req[w] EXCEPT !.pc = "signSave", !.unit = reservations[req[w].res].unit,
                                 !.opp = reservations[req[w].res].opportunity]
    BY <1>5 DEF SignCheck, Become, Inv, TypeOK
  <2>2. req'[w].pc = "signSave"
    BY <2>1 DEF Inv, TypeOK, Request
  <2>3. SameHolds /\ units' = units /\ req[w].pc # "saveUnit"
    BY <1>5 DEF SignCheck, SameHolds, Active
  <2> QED
    BY <1>1, <2>2, <2>3, HeldApartElsewhere
<1>6. ASSUME NEW c \in Contracts, SignSave(w, c) PROVE req'[w].pc = "signPlan"
  <2>1. req'[w] = [req[w] EXCEPT !.pc = "signPlan", !.con = c]
    BY <1>6 DEF SignSave, Become, Inv, TypeOK
  <2> QED
    BY <2>1 DEF Inv, TypeOK, Request
<1>7. CASE \/ SaveOpportunity(w) \/ SignRefuse(w) \/ SignPlanFails(w) \/ SignWon(w)
           \/ SignPlan(w) \/ SignUnit(w) \/ SignReservation(w)
  <2>1. req'[w].pc \in {"idle", "signUnit", "signReservation", "signWon"}
    BY <1>7, IdleRequest DEF SaveOpportunity, SignRefuse, SignPlanFails, SignWon, SignPlan,
       SignUnit, SignReservation, Goto, Finish, Become, Inv, TypeOK, Request
  <2>2. req[w].pc # "saveUnit" /\ holds' = holds
    BY <1>7 DEF SaveOpportunity, SignRefuse, SignPlanFails, SignWon, SignPlan, SignUnit,
       SignReservation
  <2>3. \A u \in Units : units'[u] = units[u] \/ units'[u] = "contracted"
    BY <1>7 DEF SaveOpportunity, SignRefuse, SignPlanFails, SignWon, SignPlan, SignUnit,
       SignReservation, SetUnit, Inv, TypeOK
  <2> QED
    BY <1>1, <2>1, <2>2, <2>3, HeldApartElsewhere DEF SameHolds, Active
<1>8. CASE SalesStart(w) \/ \E c \in Contracts : SignSave(w, c)
  <2>1. req'[w].pc \in {"lock", "signLock", "signPlan"}
    BY <1>2, <1>3, <1>4, <1>6, <1>8 DEF SalesStart
  <2>2. req[w].pc # "saveUnit" /\ holds' = holds /\ units' = units
    BY <1>4, <1>8 DEF SalesStart, StartReserveFor, Start, StartSign, SignSave, IsIdle
  <2> QED
    BY <1>1, <2>1, <2>2, HeldApartElsewhere DEF SameHolds, Active
<1>9. ~ CancelSave(w) /\ ~ CancelUnit(w) /\ ~ CancelReservation(w) /\ ~ AmendSave(w)
  BY DEF CancelSave, CancelUnit, CancelReservation, AmendSave, Quiet, NoReopening
<1> QED
  BY <1>5, <1>7, <1>8, <1>9 DEF SalesStep

(* A hold that runs out is otherwise the same. *)
LEMMA RunOut ==
  ASSUME NEW x \in HoldRow, NEW y, y = [x EXCEPT !.expired = TRUE]
  PROVE  y.unit = x.unit /\ y.active = x.active /\ y \in HoldRow
BY DEF HoldRow

(* The clock that runs out leaves a hold active until the next sweep. *)
LEMMA ClockApart ==
  ASSUME Inv, HeldApart, UNCHANGED <<units, req>>, holds' = holds \/ \E h \in Holds : ExpireHold(h)
  PROVE  HeldApart'
<1>1. \A g \in Holds : (Active(g)' <=> Active(g)) /\ (Active(g) => holds'[g].unit = holds[g].unit)
  <2>1. ASSUME NEW h \in Holds, ExpireHold(h), NEW g \in Holds
        PROVE  (Active(g)' <=> Active(g)) /\ (Active(g) => holds'[g].unit = holds[g].unit)
    <3>1. holds[h] # None /\ holds[h] \in HoldRow /\ holds' = [holds EXCEPT ![h].expired = TRUE]
      BY <2>1 DEF ExpireHold, Inv, TypeOK
    <3>2. holds'[h] = [holds[h] EXCEPT !.expired = TRUE] /\ (g # h => holds'[g] = holds[g])
      BY <3>1 DEF Inv, TypeOK
    <3>3. holds'[h].unit = holds[h].unit /\ holds'[h].active = holds[h].active
            /\ holds'[h] \in HoldRow
      BY <3>1, <3>2, RunOut
    <3> QED
      BY <3>1, <3>2, <3>3, NoneAssumption DEF Active
  <2> QED
    BY <2>1 DEF Active
<1>2. OneActiveHold' /\ FreedUnheld'
  BY <1>1 DEF HeldApart, OneActiveHold, FreedUnheld
<1>3. HoldTaken'
  BY <1>1 DEF HeldApart, HoldTaken, AboutToHold
<1>4. SweptAreActive'
  BY <1>1 DEF HeldApart, SweptAreActive, Inv, Refers, HoldExists
<1> QED
  BY <1>2, <1>3, <1>4 DEF HeldApart

(* HeldApart is inductive relative to Inv and Quiet. *)
LEMMA HeldApartNext == QuietFaults => (Inv /\ Quiet /\ HeldApart /\ [Next]_vars => HeldApart')
<1> SUFFICES ASSUME QuietFaults, Inv, Quiet, HeldApart, [Next]_vars PROVE HeldApart'
  OBVIOUS
<1>1. ASSUME NEW w \in Slots, InventoryStart(w) \/ InventoryStep(w), UNCHANGED salesVars
      PROVE  HeldApart'
  BY <1>1, InventoryApart
<1>2. ASSUME NEW w \in Slots, SalesStart(w) \/ SalesStep(w) PROVE HeldApart'
  BY <1>2, SalesApart
<1>3. CASE (\E o \in Opportunities : CreateOpportunity(o)) \/ Clock \/ UNCHANGED vars
  BY <1>3, ClockApart DEF CreateOpportunity, inventoryVars, Clock, ExpireHold,
     ExpireReservation, vars
<1>4. ~ Crash
  BY DEF Crash, QuietFaults
<1> QED
  BY <1>1, <1>2, <1>3, <1>4 DEF Next

(* Nothing is on hold in the beginning. *)
LEMMA HeldApartInit == Init => HeldApart
<1> SUFFICES ASSUME Init PROVE HeldApart
  OBVIOUS
<1>1. \A w \in Slots : req[w].pc = "idle"
  BY IdleRequest DEF Init, InventoryInit
<1> QED
  BY <1>1 DEF Init, InventoryInit, HeldApart, OneActiveHold, HoldTaken, FreedUnheld,
     SweptAreActive, Active

(* No unit is held for two clients at once, for any number of clients and   *)
(* requests, while holds run out and are swept: without the faults that put *)
(* a unit back on the market behind a hold.                                 *)
THEOREM HeldOnce == QuietFaults => (Spec => []OneLiveHold)
<1> SUFFICES ASSUME QuietFaults PROVE Spec => []OneLiveHold
  OBVIOUS
<1>1. Init => HeldApart
  BY HeldApartInit
<1>2. HeldApart => OneLiveHold
  BY DEF HeldApart, OneActiveHold, Active, OneLiveHold
<1>3. Inv /\ Quiet /\ [Next]_vars => Quiet'
  BY QuietNext
<1>4. Inv /\ Quiet /\ HeldApart /\ [Next]_vars => HeldApart'
  BY HeldApartNext
<1> QED
  BY <1>1, <1>2, <1>3, <1>4, QuietInit, Invariance, PTL DEF Spec
-----------------------------------------------------------------------------
(* The requests implement the market of units.  A row that is saved under   *)
(* the lock of its unit is the whole of what the unit has of its kind, by   *)
(* Quiet and HeldApart; every other step leaves the rows as they are, or    *)
(* changes what the market does not see.  Nothing is cancelled.             *)
Uncancelled == \A r \in Reservations : reservations[r] # None => reservations[r].status # "cancelled"

(* What is needed of a state for its steps to be steps of the market. *)
Traded == Inv /\ Quiet /\ HeldApart /\ Uncancelled

(* Rows the market does not tell apart from what they were. *)
SameReservations == \A r \in Reservations :
  /\ reservations[r] # None <=> reservations'[r] # None
  /\ reservations[r] # None =>
       /\ reservations'[r].unit = reservations[r].unit
       /\ reservations'[r].status = "cancelled" <=> reservations[r].status = "cancelled"

LEMMA SameOnHold ==
  ASSUME SameHolds PROVE [u \in Units |-> OnHold(u)]' = [u \in Units |-> OnHold(u)]
<1>1. ASSUME NEW u \in Units PROVE OnHold(u)' = OnHold(u)
  BY DEF OnHold, SameHolds, Active
<1> QED
  BY <1>1

LEMMA SameStanding ==
  ASSUME SameReservations PROVE [u \in Units |-> Standing(u)]' = [u \in Units |-> Standing(u)]
<1>1. ASSUME NEW u \in Units PROVE Standing(u)' = Standing(u)
  BY DEF Standing, ReservationsOf, SameReservations
<1> QED
  BY <1>1

(* The unit of a contract is that of its reservation, which exists. *)
LEMMA SameSales ==
  ASSUME Inv, contracts' = contracts,
         \A r \in Reservations : reservations[r] # None => reservations'[r].unit = reservations[r].unit
  PROVE  [u \in Units |-> SalesOf(u)]' = [u \in Units |-> SalesOf(u)]
<1>1. ASSUME NEW c \in Contracts, contracts[c] # None PROVE UnitOf(c)' = UnitOf(c)
  BY <1>1 DEF Inv, ContractsRefer, ReservationExists, UnitOf
<1>2. ASSUME NEW u \in Units PROVE SalesOf(u)' = SalesOf(u)
  BY <1>1 DEF SalesOf
<1> QED
  BY <1>2

(* A step that saves no hold, no reservation and no contract. *)
LEMMA MarketStutter ==
  ASSUME Inv, SameHolds, SameReservations, contracts' = contracts
  PROVE  UNCHANGED Market!marketVars
<1>1. \A r \in Reservations : reservations[r] # None => reservations'[r].unit = reservations[r].unit
  BY DEF SameReservations
<1> QED
  BY <1>1, SameOnHold, SameStanding, SameSales DEF Market!marketVars

(* The hold that has run out was the only one on its unit. *)
LEMMA SweepHoldDrops ==
  ASSUME Traded, NEW w \in Slots, NEW h \in Holds, SweepHold(w, h), UNCHANGED salesVars
  PROVE  Market!Drop(req[w].unit) /\ req[w].unit \in Units
<1>1. req[w].unit \in Units
  BY DEF SweepHold, Traded, Inv, Refers, Taking
<1>2. Active(h) /\ holds[h].unit = req[w].unit
  BY DEF SweepHold, Traded, HeldApart, SweptAreActive
<1>3. /\ ~ holds'[h].active
      /\ \A g \in Holds : g # h => holds'[g] = holds[g]
  BY <1>2 DEF SweepHold, Traded, Inv, TypeOK, Active, HoldRow
<1>4. \A g \in Holds : Active(g) /\ holds[g].unit = req[w].unit => g = h
  BY <1>2 DEF Traded, HeldApart, OneActiveHold
<1>5. ASSUME NEW u \in Units
      PROVE  OnHold(u)' = IF u = req[w].unit THEN {} ELSE OnHold(u)
  BY <1>2, <1>3, <1>4 DEF OnHold, Active
<1>6. [u \in Units |-> OnHold(u)]' = [[u \in Units |-> OnHold(u)] EXCEPT ![req[w].unit] = {}]
  BY <1>5
<1>7. SameReservations /\ contracts' = contracts /\ Inv
  BY DEF SweepHold, salesVars, SameReservations, Traded
<1>8. \A r \in Reservations : reservations[r] # None => reservations'[r].unit = reservations[r].unit
  BY <1>7 DEF SameReservations
<1> QED
  BY <1>1, <1>6, <1>7, <1>8, SameStanding, SameSales DEF Market!Drop

(* The unit is available under the lock: nobody has put it on hold, and no   *)
(* one has reserved it.                                                      *)
LEMMA SaveHoldHolds ==
  ASSUME Traded, NEW w \in Slots, NEW h \in Holds, SaveHold(w, h), UNCHANGED salesVars
  PROVE  Market!Hold(req[w].unit, h) /\ req[w].unit \in Units
<1>1. /\ req[w].unit \in Units /\ req[w].pc = "sweepHolds"
      /\ units[req[w].unit] = "available"
      /\ holds[h] = None /\ Inv /\ Quiet /\ HeldApart
  BY DEF SaveHold, Takeable, Traded, Inv, Refers, Taking
<1>2. \A g \in Holds : Active(g) => holds[g].unit # req[w].unit
  BY <1>1, NoHoldYet
<1>3. \A r \in Reservations : reservations[r] # None => reservations[r].unit # req[w].unit
  BY <1>1, NoReservationYet DEF AboutToReserve
<1>4. /\ holds'[h] # None /\ holds'[h].active /\ holds'[h].unit = req[w].unit
      /\ \A g \in Holds : g # h => holds'[g] = holds[g]
  <2> DEFINE x == [unit |-> req[w].unit, active |-> TRUE, expired |-> FALSE]
  <2>1. x \in HoldRow
    BY <1>1 DEF HoldRow
  <2>2. x # None /\ x.active /\ x.unit = req[w].unit
    BY <2>1, NoneAssumption
  <2>3. holds' = [holds EXCEPT ![h] = x]
    BY DEF SaveHold
  <2> QED
    BY <2>2, <2>3 DEF Traded, Inv, TypeOK
<1>5. ASSUME NEW u \in Units
      PROVE  OnHold(u)' = IF u = req[w].unit THEN {h} ELSE OnHold(u)
  BY <1>1, <1>2, <1>4 DEF OnHold, Active
<1>6. [u \in Units |-> OnHold(u)]' = [[u \in Units |-> OnHold(u)] EXCEPT ![req[w].unit] = {h}]
  BY <1>5
<1>7. OnHold(req[w].unit) = {} /\ Standing(req[w].unit) = {}
  BY <1>2, <1>3 DEF OnHold, Active, Standing, ReservationsOf
<1>8. SameReservations /\ contracts' = contracts
  BY DEF SaveHold, salesVars, SameReservations
<1>9. \A r \in Reservations : reservations[r] # None => reservations'[r].unit = reservations[r].unit
  BY <1>8 DEF SameReservations
<1> QED
  BY <1>1, <1>6, <1>7, <1>8, <1>9, SameStanding, SameSales DEF Market!Hold

(* A unit that may be taken under the lock has not been reserved yet. *)
LEMMA SaveReservationReserves ==
  ASSUME Traded, NEW w \in Slots, NEW r \in Reservations, SaveReservation(w, r), UNCHANGED salesVars
  PROVE  Market!Reserve(req[w].unit, r) /\ req[w].unit \in Units
<1>1. /\ req[w].unit \in Units /\ req[w].pc = "sweepHolds"
      /\ units[req[w].unit] \notin {"reserved", "contracted"}
      /\ reservations[r] = None /\ Inv /\ Quiet
  BY DEF SaveReservation, Takeable, Traded, Inv, Refers, Taking
<1>2. \A s \in Reservations : reservations[s] # None => reservations[s].unit # req[w].unit
  BY <1>1, NoReservationYet DEF AboutToReserve
<1>3. /\ reservations'[r] # None /\ reservations'[r].unit = req[w].unit
      /\ reservations'[r].status = "active"
      /\ \A s \in Reservations : s # r => reservations'[s] = reservations[s]
  <2> DEFINE x == [unit |-> req[w].unit, opportunity |-> req[w].opp, status |-> "active",
                   expired |-> FALSE]
  <2>1. x \in ReservationRow
    BY <1>1 DEF ReservationRow, ReservationStatus, Inv, TypeOK, Request
  <2>2. x # None /\ x.status = "active" /\ x.unit = req[w].unit
    BY <2>1, NoneAssumption
  <2>3. reservations' = [reservations EXCEPT ![r] = x]
    BY DEF SaveReservation
  <2> QED
    BY <2>2, <2>3 DEF Traded, Inv, TypeOK
<1>4. ASSUME NEW u \in Units
      PROVE  Standing(u)' = IF u = req[w].unit THEN {r} ELSE Standing(u)
  BY <1>1, <1>2, <1>3 DEF Standing, ReservationsOf
<1>5. [u \in Units |-> Standing(u)]' = [[u \in Units |-> Standing(u)] EXCEPT ![req[w].unit] = {r}]
  BY <1>4
<1>6. Standing(req[w].unit) = {}
  BY <1>2 DEF Standing, ReservationsOf
<1>7. SameHolds /\ contracts' = contracts
  BY DEF SaveReservation, salesVars, SameHolds, Active
<1>8. \A s \in Reservations : reservations[s] # None => reservations'[s].unit = reservations[s].unit
  BY <1>1, <1>3
<1> QED
  BY <1>1, <1>5, <1>6, <1>7, <1>8, SameOnHold, SameSales DEF Market!Reserve

(* The reservation has no contract, and is the only one of its unit. *)
LEMMA SignSaveSells ==
  ASSUME Traded, NEW w \in Slots, NEW c \in Contracts, SignSave(w, c)
  PROVE  \E u \in Units, r \in Reservations : Market!Sell(u, r, c)
<1>1. PICK r \in Reservations : r = req[w].res /\ reservations[r] # None
  BY DEF SignSave, Traded, Inv, Refers, Signing, ReservationExists
<1>2. PICK u \in Units : u = reservations[r].unit
  BY <1>1 DEF Traded, Inv, TypeOK, ReservationRow
<1>3. /\ ContractsFor(r) = {} /\ contracts[c] = None /\ r \in Standing(u)
      /\ reservations' = reservations /\ holds' = holds
  BY <1>1, <1>2 DEF SignSave, Traded, Inv, Owns, Signing, Uncancelled, Standing, ReservationsOf
<1>4. /\ contracts'[c] # None /\ contracts'[c].reservation = r /\ contracts'[c].status = "signed"
      /\ \A d \in Contracts : d # c => contracts'[d] = contracts[d]
  <2> DEFINE x == [reservation |-> r, status |-> "signed"]
  <2>1. x \in ContractRow
    BY <1>1 DEF ContractRow, ContractStatus
  <2>2. x # None /\ x.reservation = r /\ x.status = "signed"
    BY <2>1, NoContractAssumption
  <2>3. contracts' = [contracts EXCEPT ![c] = x]
    BY <1>1 DEF SignSave
  <2> QED
    BY <2>2, <2>3 DEF Traded, Inv, TypeOK
<1>5. \A d \in Contracts : contracts[d] # None => UnitOf(d) # u
  <2> SUFFICES ASSUME NEW d \in Contracts, contracts[d] # None, UnitOf(d) = u PROVE FALSE
    OBVIOUS
  <2>1. ReservationExists(contracts[d].reservation)
    BY DEF Traded, Inv, ContractsRefer
  <2>2. contracts[d].reservation = r
    BY <1>1, <1>2, <2>1 DEF Traded, Quiet, OneReservationPerUnit, ReservationExists, UnitOf
  <2> QED
    BY <1>3, <2>2 DEF ContractsFor
<1>6. UnitOf(c)' = u /\ \A d \in Contracts : d # c => UnitOf(d)' = UnitOf(d)
  BY <1>1, <1>2, <1>3, <1>4 DEF UnitOf
<1>7. SalesOf(u) = {} /\ SalesOf(u)' = {<<c, r>>}
  <2>1. {d \in Contracts : contracts[d] # None /\ contracts[d].status = "signed" /\ UnitOf(d) = u} = {}
    BY <1>5
  <2>2. {d \in Contracts : contracts[d] # None /\ contracts[d].status = "signed" /\ UnitOf(d) = u}' = {c}
    BY <1>4, <1>5, <1>6
  <2> QED
    BY <1>4, <2>1, <2>2 DEF SalesOf
<1>8. ASSUME NEW v \in Units, v # u PROVE SalesOf(v)' = SalesOf(v)
  <2> DEFINE D == {d \in Contracts : contracts[d] # None /\ contracts[d].status = "signed" /\ UnitOf(d) = v}
  <2>1. D' = D /\ c \notin D
    BY <1>3, <1>4, <1>6, <1>8
  <2>2. \A d \in D : contracts'[d] = contracts[d]
    BY <1>4, <2>1
  <2>3. SalesOf(v) = {<<d, contracts[d].reservation>> : d \in D}
    BY DEF SalesOf
  <2>4. SalesOf(v)' = {<<d, contracts'[d].reservation>> : d \in D'}
    BY DEF SalesOf
  <2> HIDE DEF D
  <2> QED
    BY <2>1, <2>2, <2>3, <2>4
<1>9. [v \in Units |-> SalesOf(v)]' = [[v \in Units |-> SalesOf(v)] EXCEPT ![u] = {<<c, r>>}]
  BY <1>7, <1>8
<1>10. SameHolds /\ SameReservations
  BY <1>3 DEF SameHolds, Active, SameReservations
<1>11. Market!Sell(u, r, c)
  BY <1>1, <1>2, <1>3, <1>7, <1>9, <1>10, SameOnHold, SameStanding DEF Market!Sell
<1> QED
  BY <1>1, <1>2, <1>11

(* A conversion is not a cancellation. *)
LEMMA ConversionStands ==
  ASSUME Traded, NEW w \in Slots, SignReservation(w)
  PROVE  SameReservations /\ UNCHANGED <<holds, contracts>>
<1> DEFINE r == req[w].res
<1>1. r \in Reservations /\ reservations[r] # None /\ reservations[r] \in ReservationRow
  BY DEF SignReservation, Traded, Inv, TypeOK, Refers, ReservationExists, Signing
<1>2. reservations[r].status # "cancelled"
  BY <1>1 DEF Traded, Uncancelled
<1>3. /\ reservations'[r] = [reservations[r] EXCEPT !.status = "converted"]
      /\ \A s \in Reservations : s # r => reservations'[s] = reservations[s]
  BY <1>1 DEF SignReservation, Traded, Inv, TypeOK
<1>4. /\ reservations'[r] \in ReservationRow /\ reservations'[r].unit = reservations[r].unit
      /\ reservations'[r].status = "converted"
  BY <1>1, <1>3 DEF ReservationRow, ReservationStatus
<1>5. SameReservations
  BY <1>1, <1>2, <1>3, <1>4, NoneAssumption DEF SameReservations
<1> QED
  BY <1>5 DEF SignReservation

(* A request that starts has written nothing yet. *)
LEMMA StartsWriteNothing ==
  ASSUME NEW w \in Slots, (InventoryStart(w) /\ UNCHANGED salesVars) \/ SalesStart(w)
  PROVE  UNCHANGED <<holds, reservations, contracts>>
<1>1. ASSUME NEW op, NEW u, NEW o, Start(w, op, u, o) PROVE UNCHANGED <<holds, reservations>>
  BY <1>1 DEF Start
<1>2. ASSUME NEW u \in Units, StartHold(w, u) \/ StartEdit(w, u)
      PROVE  UNCHANGED <<holds, reservations>>
  BY <1>1, <1>2 DEF StartHold, StartEdit
<1>3. ASSUME NEW u \in Units, NEW o \in Opportunities \cup {None}, StartReserve(w, u, o)
      PROVE  UNCHANGED <<holds, reservations>>
  BY <1>1, <1>3 DEF StartReserve
<1>4. ASSUME StartSweep(w) PROVE UNCHANGED <<holds, reservations>>
  BY <1>4 DEF StartSweep
<1>5. ASSUME NEW o \in Opportunities, NEW u \in Units, StartReserveFor(w, o, u)
      PROVE  UNCHANGED <<holds, reservations, contracts>>
  BY <1>1, <1>5 DEF StartReserveFor, salesVars
<1>6. ASSUME NEW r \in Reservations, StartSign(w, r)
      PROVE  UNCHANGED <<holds, reservations, contracts>>
  BY <1>6 DEF StartSign, salesVars
<1>7. ASSUME NEW c \in Contracts, StartCancel(w, c) \/ StartAmend(w, c)
      PROVE  UNCHANGED <<holds, reservations, contracts>>
  BY <1>7 DEF StartCancel, StartAmend, salesVars
<1>8. CASE InventoryStart(w) /\ UNCHANGED salesVars
  BY <1>2, <1>3, <1>4, <1>8 DEF InventoryStart, salesVars
<1>9. CASE SalesStart(w)
  BY <1>5, <1>6, <1>7, <1>9 DEF SalesStart
<1> QED
  BY <1>8, <1>9

(* A request in progress moves the market by one step, or not at all. *)
LEMMA RequestTrades ==
  ASSUME QuietFaults, Traded, NEW w \in Slots,
         \/ (InventoryStart(w) \/ InventoryStep(w)) /\ UNCHANGED salesVars
         \/ SalesStart(w) \/ SalesStep(w)
  PROVE  [Market!MarketNext]_(Market!marketVars)
<1> USE DEF Absent, Sweeping, Cancelling
<1>1. ASSUME UNCHANGED <<holds, reservations, contracts>> PROVE UNCHANGED Market!marketVars
  BY <1>1, MarketStutter DEF Traded, SameHolds, Active, SameReservations
<1>2. CASE InventoryStart(w) /\ UNCHANGED salesVars
  BY <1>1, <1>2, StartsWriteNothing
<1>3. CASE InventoryStep(w) /\ UNCHANGED salesVars
  <2>1. CASE AcquireUnit(w) \/ FreeHeld(w) \/ Refuse(w) \/ SaveUnit(w)
    BY <1>1, <1>3, <2>1 DEF AcquireUnit, FreeHeld, Refuse, SaveUnit, salesVars
  <2>2. ASSUME NEW h \in Holds, SweepHold(w, h) PROVE Market!MarketNext
    BY <1>3, <2>2, SweepHoldDrops DEF Market!MarketNext
  <2>3. ASSUME NEW h \in Holds, SaveHold(w, h) PROVE Market!MarketNext
    BY <1>3, <2>3, SaveHoldHolds DEF Market!MarketNext
  <2>4. ASSUME NEW r \in Reservations, SaveReservation(w, r) PROVE Market!MarketNext
    BY <1>3, <2>4, SaveReservationReserves DEF Market!MarketNext
  <2>5. ASSUME NEW r \in Reservations, SweepCancel(w, r) PROVE FALSE
    BY <2>5 DEF SweepCancel, Traded, Quiet, NoReopening
  <2>6. ~ SaveEdit(w) /\ ~ SweepLeave(w) /\ ~ SweepAcquire(w) /\ ~ SweepFree(w)
    BY DEF SaveEdit, SweepLeave, SweepAcquire, SweepFree, Traded, Quiet, NoReopening
  <2> QED
    BY <1>3, <2>1, <2>2, <2>3, <2>4, <2>5, <2>6 DEF InventoryStep
<1>4. CASE SalesStart(w)
  BY <1>1, <1>4, StartsWriteNothing
<1>5. CASE SalesStep(w)
  <2>1. CASE \/ SaveOpportunity(w) \/ SignRefuse(w) \/ SignCheck(w) \/ SignPlan(w)
             \/ SignPlanFails(w) \/ SignUnit(w) \/ SignWon(w)
    BY <1>1, <2>1 DEF SaveOpportunity, SignRefuse, SignCheck, SignPlan, SignPlanFails, SignUnit,
       SignWon, salesVars
  <2>2. ASSUME NEW c \in Contracts, SignSave(w, c) PROVE Market!MarketNext
    BY <2>2, SignSaveSells DEF Market!MarketNext
  <2>3. CASE SignReservation(w)
    BY <2>3, ConversionStands, MarketStutter DEF Traded, SameHolds, Active
  <2>4. ~ CancelSave(w) /\ ~ CancelUnit(w) /\ ~ CancelReservation(w) /\ ~ AmendSave(w)
    BY DEF CancelSave, CancelUnit, CancelReservation, AmendSave, Traded, Quiet, NoReopening
  <2> QED
    BY <1>5, <2>1, <2>2, <2>3, <2>4 DEF SalesStep
<1> QED
  BY <1>2, <1>3, <1>4, <1>5

(* Nor does the clock move it, nor a new opportunity: a hold that has run    *)
(* out stands until a request sweeps it.                                     *)
LEMMA ClockTradesNothing ==
  ASSUME QuietFaults, Inv, Clock /\ UNCHANGED salesVars
  PROVE  UNCHANGED Market!marketVars
<1>1. ASSUME NEW h \in Holds, ExpireHold(h) PROVE SameHolds
  <2>1. holds[h] # None /\ holds[h] \in HoldRow
    BY <1>1 DEF ExpireHold, Inv, TypeOK
  <2>2. /\ holds'[h] = [holds[h] EXCEPT !.expired = TRUE]
        /\ \A g \in Holds : g # h => holds'[g] = holds[g]
    BY <1>1 DEF ExpireHold, Inv, TypeOK
  <2>3. holds'[h].unit = holds[h].unit /\ holds'[h].active = holds[h].active /\ holds'[h] \in HoldRow
    BY <2>1, <2>2, RunOut
  <2> QED
    BY <2>1, <2>2, <2>3, NoneAssumption DEF SameHolds, Active
<1>2. \A r \in Reservations : ~ ExpireReservation(r)
  BY DEF ExpireReservation, QuietFaults
<1>3. SameHolds /\ SameReservations /\ contracts' = contracts
  BY <1>1, <1>2 DEF Clock, ExpireHold, salesVars, SameReservations
<1> QED
  BY <1>3, MarketStutter

(* Nothing is cancelled. *)
LEMMA UncancelledNext ==
  QuietFaults => (Inv /\ Quiet /\ HeldApart /\ Uncancelled /\ [Next]_vars => Uncancelled')
<1> SUFFICES ASSUME QuietFaults, Traded, [Next]_vars PROVE Uncancelled'
  BY DEF Traded
<1>1. ASSUME reservations' = reservations PROVE Uncancelled'
  BY <1>1 DEF Traded, Uncancelled
<1>2. ASSUME NEW w \in Slots, (InventoryStart(w) /\ UNCHANGED salesVars) \/ SalesStart(w)
      PROVE  Uncancelled'
  BY <1>1, <1>2, StartsWriteNothing
<1>3. ASSUME NEW w \in Slots, InventoryStep(w) PROVE Uncancelled'
  <2>1. ASSUME NEW r \in Reservations, SaveReservation(w, r) PROVE Uncancelled'
    BY <2>1 DEF SaveReservation, Traded, Uncancelled, Inv, TypeOK
  <2>2. ASSUME NEW r \in Reservations, SweepCancel(w, r) PROVE FALSE
    BY <2>2 DEF SweepCancel, Traded, Quiet, NoReopening, Absent, Sweeping
  <2>3. ASSUME NEW h \in Holds, SweepHold(w, h) \/ SaveHold(w, h) PROVE Uncancelled'
    BY <1>1, <2>3 DEF SweepHold, SaveHold
  <2> QED
    BY <1>1, <1>3, <2>1, <2>2, <2>3 DEF InventoryStep, AcquireUnit, FreeHeld, Refuse, SaveUnit,
       SaveEdit, SweepLeave, SweepAcquire, SweepFree
<1>4. ASSUME NEW w \in Slots, SalesStep(w) PROVE Uncancelled'
  <2>1. CASE SignReservation(w)
    BY <2>1, ConversionStands DEF Traded, Uncancelled, SameReservations
  <2>2. ~ CancelReservation(w)
    BY DEF CancelReservation, Traded, Quiet, NoReopening, Absent, Cancelling
  <2>3. ASSUME NEW c \in Contracts, SignSave(w, c) PROVE Uncancelled'
    BY <1>1, <2>3 DEF SignSave
  <2>4. CASE SaveOpportunity(w) \/ SignRefuse(w) \/ SignCheck(w) \/ SignPlan(w) \/ SignPlanFails(w)
    BY <1>1, <2>4 DEF SaveOpportunity, SignRefuse, SignCheck, SignPlan, SignPlanFails, salesVars
  <2>5. CASE SignUnit(w) \/ SignWon(w) \/ CancelSave(w) \/ CancelUnit(w) \/ AmendSave(w)
    BY <1>1, <2>5 DEF SignUnit, SignWon, CancelSave, CancelUnit, AmendSave
  <2> QED
    BY <1>4, <2>1, <2>2, <2>3, <2>4, <2>5 DEF SalesStep
<1>5. CASE Clock
  BY <1>1, <1>5 DEF Clock, ExpireHold, ExpireReservation, QuietFaults
<1>6. CASE (\E o \in Opportunities : CreateOpportunity(o)) \/ Crash \/ UNCHANGED vars
  BY <1>1, <1>6 DEF CreateOpportunity, inventoryVars, Crash, vars
<1> QED
  BY <1>2, <1>3, <1>4, <1>5, <1>6 DEF Next

(* A step of the program is a step of the market, or none. *)
LEMMA StepTrades ==
  QuietFaults => (Inv /\ Quiet /\ HeldApart /\ Uncancelled /\ [Next]_vars
                    => [Market!MarketNext]_(Market!marketVars))
<1> SUFFICES ASSUME QuietFaults, Traded, [Next]_vars PROVE [Market!MarketNext]_(Market!marketVars)
  BY DEF Traded
<1>1. ASSUME NEW w \in Slots,
             \/ (InventoryStart(w) \/ InventoryStep(w)) /\ UNCHANGED salesVars
             \/ SalesStart(w) \/ SalesStep(w)
      PROVE  [Market!MarketNext]_(Market!marketVars)
  BY <1>1, RequestTrades
<1>2. CASE (\E o \in Opportunities : CreateOpportunity(o)) \/ UNCHANGED vars
  BY <1>2, MarketStutter DEF CreateOpportunity, inventoryVars, vars, Traded, SameHolds, Active,
     SameReservations
<1>3. CASE Clock /\ UNCHANGED salesVars
  BY <1>3, ClockTradesNothing DEF Traded
<1>4. ~ Crash
  BY DEF Crash, QuietFaults
<1> QED
  BY <1>1, <1>2, <1>3, <1>4 DEF Next

(* Requests that read, wait for locks, fail half-way and race each other     *)
(* hold, reserve and sell units as the market does, one step at a time, for  *)
(* any number of units, rows and requests: without the faults that take a    *)
(* reservation or a contract back.                                           *)
THEOREM MarketRefinement == QuietFaults => (Spec => ImplementsUnitMarket)
<1> SUFFICES ASSUME QuietFaults PROVE Spec => ImplementsUnitMarket
  OBVIOUS
<1>1. Init => HeldApart /\ Uncancelled
  BY HeldApartInit DEF Init, InventoryInit, Uncancelled
<1>2. Init => Market!MarketInit
  BY DEF Init, InventoryInit, Market!MarketInit, OnHold, Standing, ReservationsOf, SalesOf
<1>3. Inv /\ Quiet /\ [Next]_vars => Quiet'
  BY QuietNext
<1>4. Inv /\ Quiet /\ HeldApart /\ [Next]_vars => HeldApart'
  BY HeldApartNext
<1>5. Inv /\ Quiet /\ HeldApart /\ Uncancelled /\ [Next]_vars => Uncancelled'
  BY UncancelledNext
<1>6. Inv /\ Quiet /\ HeldApart /\ Uncancelled /\ [Next]_vars
        => [Market!MarketNext]_(Market!marketVars)
  BY StepTrades
<1> QED
  BY <1>1, <1>2, <1>3, <1>4, <1>5, <1>6, QuietInit, Invariance, PTL
     DEF Spec, ImplementsUnitMarket, Market!MarketSpec
=============================================================================
