----------------------------- MODULE UnitMarket -----------------------------
(***************************************************************************)
(* What the inventory (src/src/modules/inventory/inventory.service.ts) and *)
(* the signing of contracts (src/src/modules/sales/sales.service.ts) mean  *)
(* for a unit, as long as nothing takes a reservation or a contract back:  *)
(* a unit is on hold for at most one client; it is reserved at most once,  *)
(* and not put on hold any more; and it is sold at most once, to the one   *)
(* who reserved it.  Each of these is one step here.  Requests, locks and  *)
(* the status of a unit are means to that end, and are not mentioned.      *)
(***************************************************************************)
CONSTANTS Units, Holds, Reservations, Contracts

VARIABLES
  held,      \* [Units -> the holds on it]
  reserved,  \* [Units -> the reservations of it]
  sold       \* [Units -> the sales of it: a contract, and its reservation]

marketVars == <<held, reserved, sold>>

MarketInit ==
  /\ held = [u \in Units |-> {}]
  /\ reserved = [u \in Units |-> {}]
  /\ sold = [u \in Units |-> {}]

Hold(u, h) ==
  /\ held[u] = {} /\ reserved[u] = {}
  /\ held' = [held EXCEPT ![u] = {h}]
  /\ UNCHANGED <<reserved, sold>>

(* Its hold has run out. *)
Drop(u) ==
  /\ held' = [held EXCEPT ![u] = {}]
  /\ UNCHANGED <<reserved, sold>>

(* A unit on hold may be reserved: the hold only keeps it from other holds. *)
Reserve(u, r) ==
  /\ reserved[u] = {}
  /\ reserved' = [reserved EXCEPT ![u] = {r}]
  /\ UNCHANGED <<held, sold>>

Sell(u, r, c) ==
  /\ r \in reserved[u] /\ sold[u] = {}
  /\ sold' = [sold EXCEPT ![u] = {<<c, r>>}]
  /\ UNCHANGED <<held, reserved>>

MarketNext == \E u \in Units :
  \/ \E h \in Holds : Hold(u, h)
  \/ Drop(u)
  \/ \E r \in Reservations : Reserve(u, r) \/ \E c \in Contracts : Sell(u, r, c)

MarketSpec == MarketInit /\ [][MarketNext]_marketVars
=============================================================================
