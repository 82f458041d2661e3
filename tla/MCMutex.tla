------------------------------ MODULE MCMutex ------------------------------
(* Instances of module Mutex for TLC.                                       *)
EXTENDS Mutex

CONSTANTS a, s   \* a mutex and a signal

MutexAndSignal == {a, s}
OneSignal == {s}

\* Without priority inheritance: two threads of one priority and a higher one,
\* which use every call.
Plain ==
    [inherits |-> FALSE, prio |-> <<1, 1, 0>>, mutexes |-> {a, s},
     calls |-> {"timeout", "unlock_and_sleep", "sleep", "yield"}]

\* With it: three priorities, and threads that lock, unlock and sleep.
Inherit ==
    [inherits |-> TRUE, prio |-> <<2, 1, 0>>, mutexes |-> {a}, calls |-> {"sleep"}]

PlainAndInherit == {Plain, Inherit}
============================================================================
