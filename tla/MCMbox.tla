------------------------------- MODULE MCMbox ------------------------------
(* Instances of module Mbox for TLC.                                         *)
EXTENDS Mbox

HighAndSame == <<0, 1, 1>>
============================================================================
