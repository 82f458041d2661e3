------------------------------- MODULE MCMsg -------------------------------
(* Instances of module Msg for TLC.                                          *)
EXTENDS Msg

SameAndHigh == <<1, 1, 0>>

\* Thread 1 has a message queue of one entry.
FirstQueues == <<1, 0, 0>>

SecondSendsTwo == <<1, 2, 1, 1>>

\* A handler and the threads 2 and 3 send to the server 1, the two also with a
\* request for a reply. The server and the handler send to a message bus, to
\* which 3 attaches itself.
Service ==
    [flows       |-> {2, 3, ISR} \X {1} \cup {1, ISR} \X {3},
     requests    |-> {2, 3} \X {1},
     subscribers |-> {3}]

\* Both attach themselves to the bus, and 2 sends to the server, as does the
\* handler.
Bus ==
    [flows       |-> {2, ISR} \X {1} \cup {1, ISR} \X {2, 3},
     requests    |-> {},
     subscribers |-> {2, 3}]

ServiceAndBus == {Service, Bus}
============================================================================
