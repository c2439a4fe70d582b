------------------------------- MODULE Sales -------------------------------
(***************************************************************************)
(* src/src/modules/sales/sales.service.ts over Inventory: opportunities,   *)
(* the signing of a contract (contract, payment schedule, unit,            *)
(* reservation, opportunity: five documents saved one after the other),    *)
(* its cancellation and its amendment.  A crash of the process loses the   *)
(* requests and the locks, and keeps every document saved.                 *)
(***************************************************************************)
EXTENDS Inventory

CONSTANT Contracts      \* ids of contracts

VARIABLES
  opportunities,  \* [Opportunities -> stage or None]
  contracts,      \* [Contracts -> row or None]
  schedules,      \* the contracts whose payment schedule has been generated
  signLock        \* [Reservations -> the slot inside signMutex, or None]

salesVars == <<opportunities, contracts, schedules, signLock>>
vars == <<units, holds, reservations, unitLock, req,
          opportunities, contracts, schedules, signLock>>

OpportunityStage == {"open", "reserved", "won"}
ContractStatus == {"signed", "cancelled"}
ContractRow == [reservation : Reservations, status : ContractStatus]

ASSUME NoContractAssumption == None \notin ContractRow \cup OpportunityStage

UnitOf(c) == reservations[contracts[c].reservation].unit
ContractsFor(r) == {c \in Contracts : contracts[c] # None /\ contracts[c].reservation = r}

Init ==
  /\ InventoryInit
  /\ opportunities = [o \in Opportunities |-> None]
  /\ contracts = [c \in Contracts |-> None]
  /\ schedules = {}
  /\ signLock = [r \in Reservations |-> None]
-----------------------------------------------------------------------------
(* createOpportunity and reserveUnitForOpportunity. *)

CreateOpportunity(o) ==
  /\ opportunities[o] = None
  /\ opportunities' = [opportunities EXCEPT ![o] = "open"]
  /\ UNCHANGED <<inventoryVars, contracts, schedules, signLock>>

(* The stage is read here, and the unit reserved afterwards by              *)
(* inventory.reserveUnit.                                                   *)
StartReserveFor(w, o, u) ==
  /\ opportunities[o] = "open"
  /\ ReservationLeft
  /\ Start(w, "reserveFor", u, o)
  /\ UNCHANGED salesVars

SaveOpportunity(w) ==
  /\ req[w].pc = "saveOpportunity"
  /\ opportunities' = [opportunities EXCEPT ![req[w].opp] = "reserved"]
  /\ Finish(w)
  /\ UNCHANGED <<units, holds, reservations, unitLock, contracts, schedules, signLock>>
-----------------------------------------------------------------------------
(* signContract, all of it under signMutex on the reservation id. *)

StartSign(w, r) ==
  /\ IsIdle(w)
  /\ reservations[r] # None
  /\ Become(w, [Idle EXCEPT !.op = "sign", !.pc = "signLock", !.res = r])
  /\ UNCHANGED <<units, holds, reservations, unitLock, salesVars>>

UnlockSign(w) == signLock' = [signLock EXCEPT ![req[w].res] = None]

(* Mutant: the status of the reservation is the only check. *)
SignableByStatus(r) == reservations[r].status = "active"

(* contractExistsForReservation, and the status read before it. *)
Signable(r) == ContractsFor(r) = {} /\ reservations[r].status = "active"

SignRefuse(w) ==
  /\ req[w].pc = "signLock"
  /\ signLock[req[w].res] = None
  /\ ~ Signable(req[w].res)
  /\ Finish(w)
  /\ UNCHANGED <<units, holds, reservations, unitLock, salesVars>>

SignCheck(w) ==
  /\ req[w].pc = "signLock"
  /\ signLock[req[w].res] = None
  /\ Signable(req[w].res)
  /\ signLock' = [signLock EXCEPT ![req[w].res] = w]
  /\ Become(w, [req[w] EXCEPT !.pc = "signSave", !.unit = reservations[req[w].res].unit,
                              !.opp = reservations[req[w].res].opportunity])
  /\ UNCHANGED <<units, holds, reservations, unitLock, opportunities, contracts, schedules>>

SignSave(w, c) ==
  /\ req[w].pc = "signSave"
  /\ contracts[c] = None
  /\ contracts' = [contracts EXCEPT ![c] = [reservation |-> req[w].res, status |-> "signed"]]
  /\ Become(w, [req[w] EXCEPT !.pc = "signPlan", !.con = c])
  /\ UNCHANGED <<units, holds, reservations, unitLock, opportunities, schedules, signLock>>

(* Mutant: the failure of the schedule is caught and the signing goes on. *)
SignPlanSwallowed(w) ==
  /\ "planFailure" \in Faults
  /\ req[w].pc = "signPlan"
  /\ Goto(w, "signUnit")
  /\ UNCHANGED <<units, holds, reservations, unitLock, salesVars>>

(* generateForContract: it throws for an unknown or an invalid template,    *)
(* which signContract does not catch.                                       *)
SignPlan(w) ==
  /\ req[w].pc = "signPlan"
  /\ schedules' = schedules \cup {req[w].con}
  /\ Goto(w, "signUnit")
  /\ UNCHANGED <<units, holds, reservations, unitLock, opportunities, contracts, signLock>>

SignPlanFails(w) ==
  /\ "planFailure" \in Faults
  /\ req[w].pc = "signPlan"
  /\ UnlockSign(w)
  /\ Finish(w)
  /\ UNCHANGED <<units, holds, reservations, unitLock, opportunities, contracts, schedules>>

(* markContracted: one write of the unit, under the lock of the unit. *)
SignUnit(w) ==
  /\ req[w].pc = "signUnit"
  /\ Free(req[w].unit)
  /\ SetUnit(req[w].unit, "contracted")
  /\ Goto(w, "signReservation")
  /\ UNCHANGED <<holds, reservations, unitLock, salesVars>>

(* markReservationConverted, under no lock of the inventory. *)
SignReservation(w) ==
  /\ req[w].pc = "signReservation"
  /\ reservations' = [reservations EXCEPT ![req[w].res].status = "converted"]
  /\ IF req[w].opp = None THEN UnlockSign(w) /\ Finish(w)
                          ELSE UNCHANGED signLock /\ Goto(w, "signWon")
  /\ UNCHANGED <<units, holds, unitLock, opportunities, contracts, schedules>>

SignWon(w) ==
  /\ req[w].pc = "signWon"
  /\ opportunities' = IF opportunities[req[w].opp] = None THEN opportunities
                      ELSE [opportunities EXCEPT ![req[w].opp] = "won"]
  /\ UnlockSign(w)
  /\ Finish(w)
  /\ UNCHANGED <<units, holds, reservations, unitLock, contracts, schedules>>
-----------------------------------------------------------------------------
(* cancelContract and amendContract read the contract and save it later,    *)
(* under no lock.  What an amendment does to prices is left to the ledger.  *)

StartCancel(w, c) ==
  /\ "cancel" \in Faults
  /\ IsIdle(w)
  /\ contracts[c] # None
  /\ contracts[c].status = "signed"
  /\ Become(w, [Idle EXCEPT !.op = "cancel", !.pc = "cancelSave", !.con = c,
                            !.unit = UnitOf(c), !.res = contracts[c].reservation])
  /\ UNCHANGED <<units, holds, reservations, unitLock, salesVars>>

CancelSave(w) ==
  /\ req[w].pc = "cancelSave"
  /\ contracts' = [contracts EXCEPT ![req[w].con].status = "cancelled"]
  /\ Goto(w, "cancelUnit")
  /\ UNCHANGED <<units, holds, reservations, unitLock, opportunities, schedules, signLock>>

(* markAvailable: under the lock of the unit, whatever its status. *)
CancelUnit(w) ==
  /\ req[w].pc = "cancelUnit"
  /\ Free(req[w].unit)
  /\ SetUnit(req[w].unit, "available")
  /\ Goto(w, "cancelReservation")
  /\ UNCHANGED <<holds, reservations, unitLock, salesVars>>

CancelReservation(w) ==
  /\ req[w].pc = "cancelReservation"
  /\ reservations' = [reservations EXCEPT ![req[w].res].status = "cancelled"]
  /\ Finish(w)
  /\ UNCHANGED <<units, holds, unitLock, salesVars>>

StartAmend(w, c) ==
  /\ "cancel" \in Faults
  /\ IsIdle(w)
  /\ contracts[c] # None
  /\ contracts[c].status = "signed"
  /\ Become(w, [Idle EXCEPT !.op = "amend", !.pc = "amendSave", !.con = c])
  /\ UNCHANGED <<units, holds, reservations, unitLock, salesVars>>

(* Mutant: the amended contract gets a status of its own. *)
AmendSaveStatus(w) ==
  /\ req[w].pc = "amendSave"
  /\ contracts' = [contracts EXCEPT ![req[w].con].status = "amended"]
  /\ Finish(w)
  /\ UNCHANGED <<units, holds, reservations, unitLock, opportunities, schedules, signLock>>

(* The copy saved carries the status that was read. *)
AmendSave(w) ==
  /\ req[w].pc = "amendSave"
  /\ contracts' = [contracts EXCEPT ![req[w].con].status = "signed"]
  /\ Finish(w)
  /\ UNCHANGED <<units, holds, reservations, unitLock, opportunities, schedules, signLock>>
-----------------------------------------------------------------------------
(* The process stops and starts again: promises and mutexes are gone. *)
Crash ==
  /\ "crash" \in Faults
  /\ \E w \in Slots : ~ IsIdle(w)
  /\ req' = [w \in Slots |-> Idle]
  /\ unitLock' = [u \in Units |-> None]
  /\ signLock' = [r \in Reservations |-> None]
  /\ UNCHANGED <<units, holds, reservations, opportunities, contracts, schedules>>

SalesStep(w) ==
  \/ SaveOpportunity(w)
  \/ SignRefuse(w)
  \/ SignCheck(w)
  \/ \E c \in Contracts : SignSave(w, c)
  \/ SignPlan(w)
  \/ SignPlanFails(w)
  \/ SignUnit(w)
  \/ SignReservation(w)
  \/ SignWon(w)
  \/ CancelSave(w)
  \/ CancelUnit(w)
  \/ CancelReservation(w)
  \/ AmendSave(w)

SalesStart(w) ==
  \/ \E o \in Opportunities, u \in Units : StartReserveFor(w, o, u)
  \/ \E r \in Reservations : StartSign(w, r)
  \/ \E c \in Contracts : StartCancel(w, c) \/ StartAmend(w, c)

Next ==
  \/ \E w \in Slots : \/ InventoryStart(w) /\ UNCHANGED salesVars
                      \/ InventoryStep(w) /\ UNCHANGED salesVars
                      \/ SalesStart(w)
                      \/ SalesStep(w)
  \/ \E o \in Opportunities : CreateOpportunity(o)
  \/ Clock /\ UNCHANGED salesVars
  \/ Crash

Spec == Init /\ [][Next]_vars

(* A request that has started goes on: its repository calls answer, and its *)
(* turn for a lock comes, since a line of KeyedMutex is first come, first   *)
(* served (strong fairness: between two turns the lock is taken by others). *)
Fairness == \A w \in Slots :
  SF_vars((InventoryStep(w) /\ UNCHANGED salesVars) \/ SalesStep(w))

FairSpec == Spec /\ Fairness
-----------------------------------------------------------------------------
Ops == {"none", "hold", "reserve", "reserveFor", "edit", "sweep", "sign", "cancel", "amend"}
Pcs == {"idle", "lock", "sweepHolds", "freeHeld", "saveUnit", "saveOpportunity", "editSave",
        "sweep", "sweepLock", "sweepFree", "signLock", "signSave", "signPlan", "signUnit",
        "signReservation", "signWon", "cancelSave", "cancelUnit", "cancelReservation",
        "amendSave"}

Request ==
  [op : Ops, pc : Pcs, unit : Units \cup {None}, res : Reservations \cup {None},
   opp : Opportunities \cup {None}, con : Contracts \cup {None},
   todo : SUBSET (Holds \cup Reservations)]

TypeOK ==
  /\ units \in [Units -> UnitStatus]
  /\ holds \in [Holds -> HoldRow \cup {None}]
  /\ reservations \in [Reservations -> ReservationRow \cup {None}]
  /\ unitLock \in [Units -> Slots \cup {None}]
  /\ req \in [Slots -> Request]
  /\ opportunities \in [Opportunities -> OpportunityStage \cup {None}]
  /\ contracts \in [Contracts -> ContractRow \cup {None}]
  /\ schedules \subseteq Contracts
  /\ signLock \in [Reservations -> Slots \cup {None}]

(* A reservation never gets a second contract, however the signers, the     *)
(* sweeps and the cancellations interleave and wherever the process stops   *)
(* (sales.service.ts:115-127).                                              *)
OneContractPerReservation ==
  \A c, d \in Contracts :
    contracts[c] # None /\ contracts[d] # None /\ contracts[c].reservation = contracts[d].reservation
      => c = d

(* A contracted unit goes back to another status only by the cancellation   *)
(* of a contract or by the edit of unit details: neither a sweep that read  *)
(* it as reserved, nor a reservation or a hold that read it as available,   *)
(* overwrites a sale (inventory.service.ts:520-526, 571-580).               *)
MayReopen(w, u) == req[w].unit = u /\ req[w].pc \in {"cancelUnit", "editSave"} /\ req'[w].pc # req[w].pc
SoldStaysSold ==
  [][\A u \in Units : units[u] = "contracted" /\ units'[u] # "contracted"
       => \E w \in Slots : MayReopen(w, u)]_vars

(* What the last writes of a signature say is backed by the first ones: a   *)
(* converted reservation has a contract with a payment schedule, and a won  *)
(* opportunity a contract for one of its reservations.                      *)
SaleBacked ==
  /\ \A r \in Reservations : reservations[r] # None /\ reservations[r].status = "converted"
       => \E c \in schedules : contracts[c] # None /\ contracts[c].reservation = r
  /\ \A o \in Opportunities : opportunities[o] = "won"
       => \E c \in schedules : contracts[c] # None /\ reservations[contracts[c].reservation].opportunity = o

(* A unit is never sold twice: at most one contract for it is signed.       *)
NoDoubleSell ==
  \A c, d \in Contracts :
    /\ contracts[c] # None /\ contracts[c].status = "signed"
    /\ contracts[d] # None /\ contracts[d].status = "signed"
    /\ UnitOf(c) = UnitOf(d)
    => c = d

(* Holds: a unit under a hold that has not run out is not held for another  *)
(* client as well (inventory.service.ts:468-485).                           *)
OneLiveHold ==
  \A g, h \in Holds :
    /\ holds[g] # None /\ holds[g].active /\ ~ holds[g].expired
    /\ holds[h] # None /\ holds[h].active /\ ~ holds[h].expired
    /\ holds[g].unit = holds[h].unit
    => g = h

(* What is on hold, reserved and sold of a unit, by the rows saved. *)
OnHold(u) == {h \in Holds : holds[h] # None /\ holds[h].active /\ holds[h].unit = u}
Standing(u) == {r \in ReservationsOf(u) : reservations[r].status # "cancelled"}
SalesOf(u) ==
  {<<c, contracts[c].reservation>> :
     c \in {d \in Contracts : contracts[d] # None /\ contracts[d].status = "signed" /\ UnitOf(d) = u}}

(* Request by request, with all that is read and written apart, units are   *)
(* held, reserved and sold one step at a time: UnitMarket, where nothing    *)
(* takes a reservation or a contract back (inventory.service.ts:468-526,    *)
(* sales.service.ts:115-171).                                               *)
Market == INSTANCE UnitMarket WITH
            held <- [u \in Units |-> OnHold(u)],
            reserved <- [u \in Units |-> Standing(u)],
            sold <- [u \in Units |-> SalesOf(u)]
ImplementsUnitMarket == Market!MarketSpec

(* Whatever it meets (a refused unit, a failed schedule, a line before a    *)
(* lock), a request that has started comes to its end: no lock is left      *)
(* behind, and the locks taken inside signMutex close no circle.            *)
RequestsEnd == \A w \in Slots : ~ IsIdle(w) ~> IsIdle(w)
=============================================================================
