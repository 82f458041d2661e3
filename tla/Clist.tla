------------------------------- MODULE Clist -------------------------------
(***************************************************************************)
(* The circular lists of RIOT/core/lib/include/clist.h. A heap is a        *)
(* function next from the addresses of the nodes and the lists to the      *)
(* addresses of nodes or nil. A list points to its last node, and the     *)
(* last node to the first.                                                 *)
(***************************************************************************)
EXTENDS Integers, Sequences, FiniteSets, FiniteSetsExt

nil == 0

clist_rpush(next, list, node) ==
    LET last == next[list]
    IN  IF last # nil
        THEN [next EXCEPT ![node] = next[last], ![last] = node, ![list] = node]
        ELSE [next EXCEPT ![node] = node, ![list] = node]

clist_lpeek(next, list) == IF next[list] = nil THEN nil ELSE next[next[list]]

\* clist_lpop of a list that is not empty; the node taken keeps its pointer.
clist_lpop(next, list) ==
    LET last == next[list]
        first == next[last]
    IN  IF last = first THEN [next EXCEPT ![list] = nil]
        ELSE [next EXCEPT ![last] = next[first]]

\* The nodes of a list, first to last, as a walk along the pointers meets them;
\* the walk ends where it comes to the last node or to the end of the pointers.
clist_nodes(next, list) ==
    LET step[k \in 0 .. Cardinality(DOMAIN next)] ==
            IF k = 0 THEN next[list]
            ELSE IF step[k - 1] = nil THEN nil ELSE next[step[k - 1]]
        stops(k) == step[k] \in {nil, next[list]}
        ends == {k \in 1 .. Cardinality(DOMAIN next) : stops(k)}
    IN  IF next[list] = nil THEN <<>>
        ELSE [k \in 1 .. Min(ends \cup {Cardinality(DOMAIN next)}) |-> step[k]]

\* The node before a node, or nil where the node is not in the list.
clist_find_before(next, list, node) ==
    LET nodes == clist_nodes(next, list)
        found == {k \in DOMAIN nodes : next[nodes[k]] = node}
    IN  IF found = {} THEN nil ELSE nodes[Min(found)]

clist_remove(next, list, node) ==
    LET before == clist_find_before(next, list, node)
    IN  IF clist_lpeek(next, list) = node THEN clist_lpop(next, list)
        ELSE IF before = nil THEN next
        ELSE [next EXCEPT ![before] = next[node],
                          ![list] = IF next[list] = node THEN before ELSE @]

\* A list is sound: it is empty, or its pointers form one circle.
clist_sound(next, list) ==
    LET nodes == clist_nodes(next, list)
    IN  nodes # <<>> => nodes[Len(nodes)] = next[list] /\ IsInjective(nodes)
=============================================================================
