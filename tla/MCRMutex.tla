------------------------------ MODULE MCRMutex ------------------------------
(* Instances of module RMutex for TLC.                                       *)
EXTENDS RMutex

HighAndSame == <<0, 1, 1>>
============================================================================
