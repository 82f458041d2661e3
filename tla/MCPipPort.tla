----------------------------- MODULE MCPipPort -----------------------------
(* Instances of module PipPort for TLC.                                      *)
EXTENDS PipPort

LowSameHigh == <<1, 1, 0>>
LowAndHigh == <<1, 0>>
============================================================================
