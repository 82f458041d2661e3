----------------------------- MODULE MCThreads -----------------------------
(***************************************************************************)
(* Instances of Threads for TLC.                                           *)
(***************************************************************************)
EXTENDS Threads

\* The flags under which a creation is also a scheduling point
YieldingFlags == {"none", "sleeping"}
=============================================================================
