------------------------------ MODULE MCEvents ------------------------------
(* Instances of module Events for TLC.                                       *)
EXTENDS Events

HighLow == <<0, 1>>
NoneOrEither == {NULL, 1, 2}
TwoAndOne == <<1, 1, 2>>
============================================================================
