-------------------------------- MODULE Desk --------------------------------
(***************************************************************************)
(* What the modules of the office share: the calls that may be under way   *)
(* at once.  A call is an async function of the code (an HTTP handler, a   *)
(* timer): between two of its steps, which end where it awaits a save or   *)
(* I/O, the other calls go on.                                             *)
(***************************************************************************)
CONSTANTS
  Callers,   \* bounds the calls in progress at once
  None       \* an absent document, field or answer

Rest == [pc |-> "idle"]   \* of a caller with no call in progress
Quiet(calls) == \A w \in Callers : calls[w] = Rest
Becomes(calls, w, new) == [calls EXCEPT ![w] = new]
=============================================================================
