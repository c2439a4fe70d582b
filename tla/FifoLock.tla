------------------------------ MODULE FifoLock ------------------------------
(***************************************************************************)
(* What KeyedMutex (src/src/infra/keyed-mutex.ts) promises the services    *)
(* that use it: for each key, the calls are served one at a time, in the   *)
(* order in which they asked.  Calls on different keys have nothing to do  *)
(* with each other.  The module says nothing about promises or chains.     *)
(***************************************************************************)
EXTENDS Naturals

CONSTANTS
  Calls,   \* the invocations of runExclusive, each made at most once
  Keys     \* the keys: unit ids, payment line ids, reservation ids, ...

VARIABLES
  phase,   \* where each call is
  key,     \* the key each call asks for, its argument: it never changes
  ticket,  \* the place of a call in the line of its key
  issued   \* how many calls have asked for each key so far

lockVars == <<phase, key, ticket, issued>>

Phases == {"idle", "queued", "inside", "done"}

(* The calls before c in the line of c's key. *)
Ahead(c) == {d \in Calls : /\ phase[d] # "idle"
                           /\ key[d] = key[c]
                           /\ ticket[d] < ticket[c]}

LockInit ==
  /\ phase = [c \in Calls |-> "idle"]
  /\ key \in [Calls -> Keys]
  /\ ticket = [c \in Calls |-> 0]
  /\ issued = [k \in Keys |-> 0]

Request(c) ==
  /\ phase[c] = "idle"
  /\ phase' = [phase EXCEPT ![c] = "queued"]
  /\ ticket' = [ticket EXCEPT ![c] = issued[key[c]]]
  /\ issued' = [issued EXCEPT ![key[c]] = @ + 1]
  /\ UNCHANGED key

Grant(c) ==
  /\ phase[c] = "queued"
  /\ \A d \in Ahead(c) : phase[d] = "done"
  /\ phase' = [phase EXCEPT ![c] = "inside"]
  /\ UNCHANGED <<key, ticket, issued>>

Release(c) ==
  /\ phase[c] = "inside"
  /\ phase' = [phase EXCEPT ![c] = "done"]
  /\ UNCHANGED <<key, ticket, issued>>

LockNext == \E c \in Calls : Request(c) \/ Grant(c) \/ Release(c)

LockSpec == LockInit /\ [][LockNext]_lockVars
=============================================================================
