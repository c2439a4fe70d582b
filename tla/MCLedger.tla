------------------------------ MODULE MCLedger ------------------------------
(* Instances of Ledger: schedules of two lines of a few cents, which one or *)
(* two payments fill.  Requests are interchangeable.                         *)
EXTENDS Ledger, TLC

OneAndTwo == <<1, 2>>
OneAndThree == <<1, 3>>

Symmetry == Permutations(Slots)
=============================================================================
