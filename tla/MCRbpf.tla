------------------------------- MODULE MCRbpf -------------------------------
EXTENDS Rbpf
=============================================================================
