------------------------------- MODULE MCCond -------------------------------
(* Instances of module Cond for TLC: three threads, the last two of lower     *)
(* priority than the first.                                                   *)
EXTENDS Cond

HighAndSame == <<0, 1, 1>>
============================================================================
