----------------------------- MODULE FileStore -----------------------------
(***************************************************************************)
(* What the file system promises to the user of its shell commands: named  *)
(* files of a fixed size, uploaded from the beginning to the end, one at a *)
(* time, that are kept until they are removed. An upload that power        *)
(* failure cuts starts again.                                              *)
(***************************************************************************)
EXTENDS Integers, Sequences, TLC

CONSTANTS Name, Sizes

VARIABLE files   \* the size of each file and the data loaded so far

\* Cell i of what the host sends as file n.
Data(n, i) == [kind |-> "data", of |-> n, at |-> i]

Complete(n) == Len(files[n].data) = files[n].size

Init == files = <<>>

Make(n) ==
    /\ n \notin DOMAIN files
    /\ \E size \in Sizes \ {0} : files' = (n :> [size |-> size, data |-> <<>>]) @@ files

Upload(n) ==
    /\ n \in DOMAIN files
    /\ ~Complete(n)
    /\ \A m \in DOMAIN files \ {n} : files[m].data # <<>> => Complete(m)
    /\ \E k \in 1 .. files[n].size - Len(files[n].data) :
           files' = [files EXCEPT ![n].data =
                        @ \o [i \in 1 .. k |-> Data(n, Len(@) + i - 1)]]

Copy(n, m) ==
    /\ n \in DOMAIN files /\ Complete(n)
    /\ m \notin DOMAIN files
    /\ files' = (m :> files[n]) @@ files

Remove(n) ==
    /\ n \in DOMAIN files
    /\ files' = [m \in DOMAIN files \ {n} |-> files[m]]

Format == files' = <<>>

PowerFailure ==
    files' = [n \in DOMAIN files |-> IF Complete(n) THEN files[n] ELSE [files[n] EXCEPT !.data = <<>>]]

Next ==
    \/ \E n \in Name : Make(n) \/ Upload(n) \/ Remove(n)
    \/ \E n, m \in Name : Copy(n, m)
    \/ Format
    \/ PowerFailure

Spec == Init /\ [][Next]_files
============================================================================
