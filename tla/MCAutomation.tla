---------------------------- MODULE MCAutomation ----------------------------
(* Instances of Automation: a step the payload skips, one that goes on      *)
(* after its failures, a gate, and a step whose failure stops the run; or a *)
(* gate and the step behind it.                                             *)
EXTENDS Automation

Action(maxRetries, stop) == [gate |-> FALSE, maxRetries |-> maxRetries, stop |-> stop]
Gate == [gate |-> TRUE, maxRetries |-> 0, stop |-> TRUE]

SkipActionGateAction == <<Action(0, TRUE), Action(1, FALSE), Gate, Action(0, TRUE)>>
GateAction == <<Gate, Action(0, TRUE)>>
SkipsFirst == {<<"lead", 1>>}
NothingSkipped == {}
=============================================================================
