------------------------ MODULE MCConcurrencyLimiter ------------------------
(* Five calls for two slots: a line of three, and callers that arrive while *)
(* a slot changes hands.                                                    *)
EXTENDS ConcurrencyLimiter
=============================================================================
