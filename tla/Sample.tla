------------------------------- MODULE Sample -------------------------------
(***************************************************************************)
(* The calculations of the code that keep no state: a behaviour takes one  *)
(* input and answers it.  The field `of` of an input names the calculation.*)
(***************************************************************************)
EXTENDS Desk, Integers

VARIABLES sample, answer
sampleVars == <<sample, answer>>

Given(inputs) == sample \in inputs /\ answer = None
Answer(value) == answer = None /\ answer' = value /\ UNCHANGED sample
Answered(name) == sample.of = name /\ answer # None

Least(x, y) == IF x <= y THEN x ELSE y
Most(x, y) == IF x <= y THEN y ELSE x
RoundDiv(x, y) == (2 * x + y) \div (2 * y)   \* Math.round(x / y), y > 0
=============================================================================
