------------------------------ MODULE MCSales ------------------------------
(* Instances of Sales: one unit that a few requests fight over.  Clients,   *)
(* contracts and requests are interchangeable.                              *)
EXTENDS Sales, TLC

Symmetry == Permutations(Reservations) \cup Permutations(Contracts) \cup Permutations(Slots)
=============================================================================
