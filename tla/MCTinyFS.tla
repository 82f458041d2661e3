----------------------------- MODULE MCTinyFS ------------------------------
(* Instances of module TinyFS for TLC.                                       *)
EXTENDS TinyFS

\* Power fails while files are uploaded.
CarefulUser ==
    [pages |-> 5, names |-> 3, chunks |-> {1, 2}, calls |-> {"cp"}, crash |-> {"ldbin"}]

\* Power fails anywhere, and the user knows no better.
AnyUser ==
    [pages |-> 3, names |-> 2, chunks |-> {1},
     calls |-> {"rm_loading", "put_again", "cp", "cp_over"},
     crash |-> {"mkbin", "ldbin", "cp", "rm", "fmtbin"}]

CarefulAndAny == {CarefulUser, AnyUser}

\* Power does not fail, and the last page may be used.
SteadyUser == [pages |-> 4, names |-> 2, chunks |-> {1, 2}, calls |-> {}, crash |-> {}]
OnlySteady == {SteadyUser}
============================================================================
