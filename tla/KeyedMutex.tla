----------------------------- MODULE KeyedMutex -----------------------------
(***************************************************************************)
(* src/src/infra/keyed-mutex.ts: a mutex per key, built from a chain of    *)
(* promises.  A call of runExclusive captures the promise stored for its   *)
(* key, stores a promise that settles once that one AND its own `next`     *)
(* have settled, awaits the captured promise, runs fn and resolves `next`  *)
(* in a finally.                                                           *)
(*                                                                         *)
(* The promise a call stores is named by the call.  A promise settles in a *)
(* microtask of its own, after what it waits for, so settling and resuming *)
(* are actions separate from the step that makes them possible.            *)
(***************************************************************************)
EXTENDS Naturals

CONSTANTS
  Calls,      \* the invocations of runExclusive, each made at most once
  Keys,       \* the keys they ask for
  EndingKeys, \* the keys whose bodies all end; a body of another key may hang
  None        \* no promise stored: the `?? Promise.resolve()` of the code

ASSUME NoneAssumption == None \notin Calls
ASSUME EndingKeysAssumption == EndingKeys \subseteq Keys

VARIABLES
  phase,     \* [Calls -> Phases]: not made, awaiting `previous`, in fn, out
  key,       \* [Calls -> Keys]: the `key` argument, which never changes
  ticket,    \* place in the line of the key (bookkeeping, read by no guard)
  issued,    \* number of calls made per key (bookkeeping)
  chains,    \* the Map: key -> the call whose promise is stored there
  previous,  \* [Calls -> Calls \cup {None}]: the promise a call captured
  settled,   \* the calls whose stored promise has settled
  outcome    \* how fn ended

vars == <<phase, key, ticket, issued, chains, previous, settled, outcome>>

Outcomes == {"pending", "returned", "threw"}

(* Mutant: `next` is resolved when fn starts, not when it has ended.        *)
ResolvedAtStart(p) == p # None => phase[p] # "queued"

Resolved(p) == p = None \/ p \in settled

Init ==
  /\ phase = [c \in Calls |-> "idle"]
  /\ key \in [Calls -> Keys]
  /\ ticket = [c \in Calls |-> 0]
  /\ issued = [k \in Keys |-> 0]
  /\ chains = [k \in Keys |-> None]
  /\ previous = [c \in Calls |-> None]
  /\ settled = {}
  /\ outcome = [c \in Calls |-> "pending"]

(* Mutant: a promise that is already stored is not replaced. *)
SetChainOnce(c) == [chains EXCEPT ![key[c]] = IF @ = None THEN c ELSE @]

(* Map.set: the stored promise becomes the one of the latest call. *)
SetChain(c) == [chains EXCEPT ![key[c]] = c]

(* The synchronous part of runExclusive, up to `await previous`. *)
RunExclusive(c) ==
  /\ phase[c] = "idle"
  /\ phase' = [phase EXCEPT ![c] = "queued"]
  /\ previous' = [previous EXCEPT ![c] = chains[key[c]]]
  /\ chains' = SetChain(c)
  /\ ticket' = [ticket EXCEPT ![c] = issued[key[c]]]
  /\ issued' = [issued EXCEPT ![key[c]] = @ + 1]
  /\ UNCHANGED <<key, settled, outcome>>

(* `await previous` resumes and fn is called. *)
Enter(c) ==
  /\ phase[c] = "queued"
  /\ Resolved(previous[c])
  /\ phase' = [phase EXCEPT ![c] = "inside"]
  /\ UNCHANGED <<key, ticket, issued, chains, previous, settled, outcome>>

(* fn returns or throws; the finally resolves `next` either way. *)
Leave(c, how) ==
  /\ phase[c] = "inside"
  /\ phase' = [phase EXCEPT ![c] = "done"]
  /\ outcome' = [outcome EXCEPT ![c] = how]
  /\ UNCHANGED <<key, ticket, issued, chains, previous, settled>>

(* Mutant: no finally, so a body that throws leaves `next` unresolved.      *)
SettleOnReturn(c) ==
  /\ c \notin settled
  /\ outcome[c] = "returned"
  /\ Resolved(previous[c])
  /\ settled' = settled \cup {c}
  /\ UNCHANGED <<phase, key, ticket, issued, chains, previous, outcome>>

(* Mutant: the captured promise is resolved in place of the stored one. *)
SettlePrevious(c) ==
  /\ c \notin settled
  /\ phase[c] = "done"
  /\ Resolved(previous[c])
  /\ settled' = settled \cup {previous[c]}
  /\ UNCHANGED <<phase, key, ticket, issued, chains, previous, outcome>>

(* `previous.then(() => next)` settles. *)
Settle(c) ==
  /\ c \notin settled
  /\ phase[c] = "done"
  /\ Resolved(previous[c])
  /\ settled' = settled \cup {c}
  /\ UNCHANGED <<phase, key, ticket, issued, chains, previous, outcome>>

Next ==
  \E c \in Calls :
    \/ RunExclusive(c)
    \/ Enter(c)
    \/ \E how \in {"returned", "threw"} : Leave(c, how)
    \/ Settle(c)

Spec == Init /\ [][Next]_vars

(* The event loop runs every microtask that is due.  A body is the caller's *)
(* business: nothing says that it ends, except for the keys of EndingKeys.  *)
Fairness == \A c \in Calls :
  /\ WF_vars(Enter(c))
  /\ WF_vars(Settle(c))
  /\ WF_vars(key[c] \in EndingKeys /\ \E how \in {"returned", "threw"} : Leave(c, how))

FairSpec == Spec /\ Fairness
-----------------------------------------------------------------------------
TypeOK ==
  /\ phase \in [Calls -> {"idle", "queued", "inside", "done"}]
  /\ key \in [Calls -> Keys]
  /\ ticket \in [Calls -> Nat]
  /\ issued \in [Keys -> Nat]
  /\ chains \in [Keys -> Calls \cup {None}]
  /\ previous \in [Calls -> Calls \cup {None}]
  /\ settled \subseteq Calls
  /\ outcome \in [Calls -> Outcomes]

(* Two bodies never run at once under one key, however the microtasks of    *)
(* the calls interleave and whether or not a body throws                    *)
(* (keyed-mutex.ts:7-21).                                                   *)
MutualExclusion ==
  \A c, d \in Calls :
    phase[c] = "inside" /\ phase[d] = "inside" /\ key[c] = key[d] => c = d

(* The chain of promises is a first-come-first-served lock: the abstract    *)
(* specification, with the bookkeeping variables as its line; the promises  *)
(* (chains, previous, settled, outcome) have no counterpart there.          *)
Lock == INSTANCE FifoLock WITH
          Calls <- Calls, Keys <- Keys,
          phase <- phase, key <- key, ticket <- ticket, issued <- issued
ImplementsFifoLock == Lock!LockSpec

(* Where bodies end, by returning or by throwing, every call is served,     *)
(* even when the body of another key hangs for ever (the `finally` of       *)
(* keyed-mutex.ts:18-20, and a chain of its own for each key).              *)
KeysServedIndependently == \A c \in Calls :
  (phase[c] = "queued" /\ key[c] \in EndingKeys) ~> (phase[c] = "inside")
=============================================================================
