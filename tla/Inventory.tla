----------------------------- MODULE Inventory -----------------------------
(***************************************************************************)
(* src/src/modules/inventory/inventory.service.ts: the status of a unit,   *)
(* the holds and reservations on it, and the requests that change them.    *)
(*                                                                         *)
(* A request is an asynchronous method call.  It gives way to the others   *)
(* at each await of a repository, so a request is a program counter with   *)
(* the values it has read, and an action is what happens between two       *)
(* awaits that others could tell apart.  Each save is a durable write of   *)
(* its own.  The documents saved are copies of what was read ({...unit,    *)
(* status}): a save overwrites what others wrote since.                    *)
(*                                                                         *)
(* unitLock stands for the KeyedMutex of the service, one lock per unit    *)
(* id; KeyedMutex.tla shows that this is what the promise chains are.      *)
(***************************************************************************)
EXTENDS Naturals, FiniteSets

CONSTANTS
  Units, Holds, Reservations,  \* ids of rows; randomUUID never repeats one
  Opportunities,               \* the ids a reservation may carry
  Slots,                       \* bounds the requests in progress at once
  Faults,                      \* what may go wrong, or race, in this instance
  None                         \* no row, no id, nobody

(* "holdExpiry", "expiry": the 15 minutes of a hold, of a reservation, run  *)
(* out.  "edit": unit details are edited.  "crash": the process restarts.   *)
(* "planFailure": generateForContract throws.  "cancel": contracts are      *)
(* cancelled and amended.                                                   *)
AllFaults == {"holdExpiry", "expiry", "edit", "crash", "planFailure", "cancel"}

ASSUME FaultsAssumption == Faults \subseteq AllFaults

VARIABLES
  units,         \* [Units -> status]
  holds,         \* [Holds -> row or None]
  reservations,  \* [Reservations -> row or None]
  unitLock,      \* [Units -> the slot inside runExclusive(unitId), or None]
  req            \* [Slots -> the request in progress]

inventoryVars == <<units, holds, reservations, unitLock, req>>

UnitStatus == {"available", "held", "reserved", "contracted"}
ReservationStatus == {"active", "converted", "cancelled"}

HoldRow == [unit : Units, active : BOOLEAN, expired : BOOLEAN]
ReservationRow == [unit : Units, opportunity : Opportunities \cup {None},
                   status : ReservationStatus, expired : BOOLEAN]

ASSUME NoneAssumption ==
  /\ None \notin Slots \cup Opportunities
  /\ None \notin HoldRow \cup ReservationRow

(* A slot with nothing to do.  `todo` is the list a loop still has to visit. *)
Idle == [op |-> "none", pc |-> "idle", unit |-> None, res |-> None,
         opp |-> None, con |-> None, todo |-> {}]

IsIdle(w) == req[w].pc = "idle"
Become(w, q) == req' = [req EXCEPT ![w] = q]
Goto(w, pc) == Become(w, [req[w] EXCEPT !.pc = pc])
Finish(w) == Become(w, Idle)

ReservationsOf(u) == {r \in Reservations : reservations[r] # None /\ reservations[r].unit = u}

(* Mutant: holdUnit, reserveUnit and the others run outside the mutex. *)
FreeAlways(u) == TRUE

(* runExclusive(unitId, ...): any waiter may be next, first come or not. *)
Free(u) == unitLock[u] = None
Lock(w) == unitLock' = [unitLock EXCEPT ![req[w].unit] = w]
Unlock(w) == unitLock' = [unitLock EXCEPT ![req[w].unit] = None]

SetUnit(u, status) == units' = [units EXCEPT ![u] = status]

InventoryInit ==
  /\ units = [u \in Units |-> "available"]
  /\ holds = [h \in Holds |-> None]
  /\ reservations = [r \in Reservations |-> None]
  /\ unitLock = [u \in Units |-> None]
  /\ req = [w \in Slots |-> Idle]
-----------------------------------------------------------------------------
(* holdUnit and reserveUnit.                                                *)

Start(w, op, u, o) ==
  /\ IsIdle(w)
  /\ Become(w, [Idle EXCEPT !.op = op, !.pc = "lock", !.unit = u, !.opp = o])
  /\ UNCHANGED <<units, holds, reservations, unitLock>>

(* Bounds: a request that will draw an id starts only if one is left for it. *)
Drawing(ops) == {w \in Slots : /\ req[w].op \in ops
                               /\ req[w].pc \in {"lock", "sweepHolds", "freeHeld"}}
HoldLeft == Cardinality(Drawing({"hold"})) < Cardinality({h \in Holds : holds[h] = None})
ReservationLeft ==
  Cardinality(Drawing({"reserve", "reserveFor"}))
    < Cardinality({r \in Reservations : reservations[r] = None})

StartHold(w, u) ==
  /\ HoldLeft
  /\ Start(w, "hold", u, None)

(* POST .../reserve: the opportunityId of the body is stored as it comes. *)
StartReserve(w, u, o) ==
  /\ ReservationLeft
  /\ Start(w, "reserve", u, o)

(* The lock is granted; sweepExpiredHolds reads the holds of the unit. *)
ExpiredHolds(u) ==
  {h \in Holds : holds[h] # None /\ holds[h].unit = u /\ holds[h].active /\ holds[h].expired}

AcquireUnit(w) ==
  /\ req[w].pc = "lock"
  /\ Free(req[w].unit)
  /\ Lock(w)
  /\ Become(w, [req[w] EXCEPT !.pc = "sweepHolds", !.todo = ExpiredHolds(req[w].unit)])
  /\ UNCHANGED <<units, holds, reservations>>

(* One turn of the loop: save the hold, read the unit. *)
SweepHold(w, h) ==
  /\ req[w].pc = "sweepHolds"
  /\ h \in req[w].todo
  /\ holds' = [holds EXCEPT ![h].active = FALSE]
  /\ Become(w, [req[w] EXCEPT !.pc = IF units[req[w].unit] = "held" THEN "freeHeld" ELSE "sweepHolds",
                              !.todo = @ \ {h}])
  /\ UNCHANGED <<units, reservations, unitLock>>

FreeHeld(w) ==
  /\ req[w].pc = "freeHeld"
  /\ SetUnit(req[w].unit, "available")
  /\ Goto(w, "sweepHolds")
  /\ UNCHANGED <<holds, reservations, unitLock>>

(* Mutants: a reserved unit may be reserved, a held one held again. *)
TakeableReserved(op) == IF op = "hold" THEN {"available"} ELSE {"available", "held", "reserved"}
TakeableHeld(op) == {"available", "held"}

(* The statuses from which each operation may take a unit. *)
Takeable(op) == IF op = "hold" THEN {"available"} ELSE {"available", "held"}

(* Mutant: a refused call leaves the lock behind. *)
RefuseKeepsLock(w) ==
  /\ req[w].pc = "sweepHolds"
  /\ req[w].todo = {}
  /\ units[req[w].unit] \notin Takeable(req[w].op)
  /\ Finish(w)
  /\ UNCHANGED <<units, holds, reservations, unitLock>>

(* The throw of a unit that cannot be taken. *)
Refuse(w) ==
  /\ req[w].pc = "sweepHolds"
  /\ req[w].todo = {}
  /\ units[req[w].unit] \notin Takeable(req[w].op)
  /\ Unlock(w)
  /\ Finish(w)
  /\ UNCHANGED <<units, holds, reservations>>

SaveHold(w, h) ==
  /\ req[w].pc = "sweepHolds"
  /\ req[w].todo = {}
  /\ req[w].op = "hold"
  /\ units[req[w].unit] \in Takeable("hold")
  /\ holds[h] = None
  /\ holds' = [holds EXCEPT ![h] = [unit |-> req[w].unit, active |-> TRUE, expired |-> FALSE]]
  /\ Goto(w, "saveUnit")
  /\ UNCHANGED <<units, reservations, unitLock>>

SaveReservation(w, r) ==
  /\ req[w].pc = "sweepHolds"
  /\ req[w].todo = {}
  /\ req[w].op # "hold"
  /\ units[req[w].unit] \in Takeable(req[w].op)
  /\ reservations[r] = None
  /\ reservations' = [reservations EXCEPT ![r] =
       [unit |-> req[w].unit, opportunity |-> req[w].opp, status |-> "active", expired |-> FALSE]]
  /\ Become(w, [req[w] EXCEPT !.pc = "saveUnit", !.res = r])
  /\ UNCHANGED <<units, holds, unitLock>>

(* The last write under the lock; a reservation made through the sales      *)
(* service has one more document to save, after the lock is released.       *)
SaveUnit(w) ==
  /\ req[w].pc = "saveUnit"
  /\ SetUnit(req[w].unit, IF req[w].op = "hold" THEN "held" ELSE "reserved")
  /\ Unlock(w)
  /\ IF req[w].op = "reserveFor" THEN Goto(w, "saveOpportunity") ELSE Finish(w)
  /\ UNCHANGED <<holds, reservations>>
-----------------------------------------------------------------------------
(* updateUnitDetails takes no lock.  An edit of a unit that is not          *)
(* available throws and changes nothing; one of an available unit saves the *)
(* document it read, status included.                                       *)
StartEdit(w, u) ==
  /\ "edit" \in Faults
  /\ IsIdle(w)
  /\ units[u] = "available"
  /\ Become(w, [Idle EXCEPT !.op = "edit", !.pc = "editSave", !.unit = u])
  /\ UNCHANGED <<units, holds, reservations, unitLock>>

SaveEdit(w) ==
  /\ req[w].pc = "editSave"
  /\ SetUnit(req[w].unit, "available")
  /\ Finish(w)
  /\ UNCHANGED <<holds, reservations, unitLock>>
-----------------------------------------------------------------------------
(* sweepExpiredReservationsDetailed: the tick of main.ts every 60 s, and    *)
(* the manual route; nothing keeps two of them apart.                       *)

Expired == {r \in Reservations : /\ reservations[r] # None
                                 /\ reservations[r].status = "active"
                                 /\ reservations[r].expired}

StartSweep(w) ==
  /\ IsIdle(w)
  /\ Expired # {}
  /\ Become(w, [Idle EXCEPT !.op = "sweep", !.pc = "sweep", !.todo = Expired])
  /\ UNCHANGED <<units, holds, reservations, unitLock>>

(* The copy saved is the one findAll returned, whatever happened since. *)
SweepCancel(w, r) ==
  /\ req[w].pc = "sweep"
  /\ r \in req[w].todo
  /\ reservations' = [reservations EXCEPT ![r].status = "cancelled"]
  /\ Become(w, [req[w] EXCEPT !.pc = "sweepLock", !.unit = reservations[r].unit,
                              !.res = r, !.todo = @ \ {r}])
  /\ UNCHANGED <<units, holds, unitLock>>

SweepNext(w) == IF req[w].todo = {} THEN Finish(w) ELSE Goto(w, "sweep")

(* Under the lock: read the unit, and leave it alone unless it is reserved. *)
SweepLeave(w) ==
  /\ req[w].pc = "sweepLock"
  /\ Free(req[w].unit)
  /\ units[req[w].unit] # "reserved"
  /\ SweepNext(w)
  /\ UNCHANGED <<units, holds, reservations, unitLock>>

SweepAcquire(w) ==
  /\ req[w].pc = "sweepLock"
  /\ Free(req[w].unit)
  /\ units[req[w].unit] = "reserved"
  /\ Lock(w)
  /\ Goto(w, "sweepFree")
  /\ UNCHANGED <<units, holds, reservations>>

SweepFree(w) ==
  /\ req[w].pc = "sweepFree"
  /\ SetUnit(req[w].unit, "available")
  /\ Unlock(w)
  /\ SweepNext(w)
  /\ UNCHANGED <<holds, reservations>>
-----------------------------------------------------------------------------
(* The clock passes an expiresAt (that of a row which is no longer active   *)
(* is not read again).                                                      *)
ExpireHold(h) ==
  /\ "holdExpiry" \in Faults
  /\ holds[h] # None
  /\ holds[h].active /\ ~ holds[h].expired
  /\ holds' = [holds EXCEPT ![h].expired = TRUE]
  /\ UNCHANGED <<units, reservations, unitLock, req>>

ExpireReservation(r) ==
  /\ "expiry" \in Faults
  /\ reservations[r] # None
  /\ reservations[r].status = "active" /\ ~ reservations[r].expired
  /\ reservations' = [reservations EXCEPT ![r].expired = TRUE]
  /\ UNCHANGED <<units, holds, unitLock, req>>

(* What a request does once it has started. *)
InventoryStep(w) ==
  \/ AcquireUnit(w)
  \/ \E h \in Holds : SweepHold(w, h) \/ SaveHold(w, h)
  \/ FreeHeld(w)
  \/ Refuse(w)
  \/ \E r \in Reservations : SaveReservation(w, r) \/ SweepCancel(w, r)
  \/ SaveUnit(w)
  \/ SaveEdit(w)
  \/ SweepLeave(w)
  \/ SweepAcquire(w)
  \/ SweepFree(w)

InventoryStart(w) ==
  \/ \E u \in Units : \/ StartHold(w, u)
                      \/ \E o \in Opportunities \cup {None} : StartReserve(w, u, o)
                      \/ StartEdit(w, u)
  \/ StartSweep(w)

Clock == (\E h \in Holds : ExpireHold(h)) \/ (\E r \in Reservations : ExpireReservation(r))
=============================================================================
