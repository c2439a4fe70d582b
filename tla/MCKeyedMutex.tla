---------------------------- MODULE MCKeyedMutex ----------------------------
(* Model values for KeyedMutex: four calls, each for one of two keys, so    *)
(* that a line of three behind a holder and two independent lines both      *)
(* occur.                                                                   *)
EXTENDS KeyedMutex
=============================================================================
