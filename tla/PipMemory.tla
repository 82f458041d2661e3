----------------------------- MODULE PipMemory -----------------------------
(***************************************************************************)
(* The memory services of Pip as safe_exec.c uses them. Pip is a binary    *)
(* outside the repository; its calls are modelled by what their arguments  *)
(* and results in safe_exec.c say. A call is an operator from a memory     *)
(* state to the set of states it may lead to, which is empty if it fails.  *)
(*                                                                         *)
(*   blocks   the blocks by name, each the cells start .. end - 1          *)
(*   kernel   the blocks Pip keeps for itself: descriptors of partitions   *)
(*            and kernel structures                                        *)
(*   shared   the blocks that belong to the child too                      *)
(*   slots    the blocks in the MPU, for each of the two partitions        *)
(*   free     the number of free entries of each kernel structure          *)
(*   entry    the kernel structure each block has its entry in             *)
(*   child    whether the child exists                                     *)
(*   vidt     the address of the child's table of contexts, or 0           *)
(***************************************************************************)
EXTENDS Integers, FiniteSets, TLC

\* MPU regions that are given to a partition.
Slot == 0 .. 7

\* An empty slot, and MAP_DISCARD as the number of a slot.
NONE == "none"
MAP_DISCARD == -1

\* Entries of a kernel structure.
Entries == 8

Cells(block) == block.start .. block.end - 1

Without(f, x) == [y \in DOMAIN f \ {x} |-> f[y]]

\* The structures a partition has: the one it started with and the one that
\* Pip_prepare added, named after the block it is in.
Structures(partition) ==
    IF partition = "riot" THEN {"riot_init", "riot_krn"} ELSE {"child_krn"}

\* RIOT can give away, cut or merge a block.
Own(m, id) == id \in DOMAIN m.blocks /\ id \notin m.kernel \cup m.shared

Mapped(m, partition) ==
    UNION {Cells(m.blocks[id]) : id \in {m.slots[partition][i] : i \in Slot} \ {NONE}}

Map(m, partition, id, slot) ==
    IF slot = MAP_DISCARD THEN m ELSE [m EXCEPT !.slots[partition][slot] = id]

Unmap(m, id) ==
    [m EXCEPT !.slots = [p \in DOMAIN @ |-> [i \in Slot |-> IF @[p][i] = id THEN NONE ELSE @[p][i]]]]

\* The block loses what lies behind address a to a new block.
Pip_cutMemoryBlock(m, id, a, new, slot) ==
    LET b == m.blocks[id]
        cut(k) == [m EXCEPT !.blocks = (new :> [b EXCEPT !.start = a]) @@ [@ EXCEPT ![id].end = a],
                            !.free[k] = @ - 1,
                            !.entry = (new :> k) @@ @]
    IN  IF Own(m, id) /\ b.start < a /\ a < b.end
        THEN {Map(cut(k), "riot", new, slot) :
                  k \in {k \in Structures("riot") \cap DOMAIN m.free : m.free[k] > 0}}
        ELSE {}

\* The second block goes back to the first, behind which it lies.
Pip_mergeMemoryBlocks(m, id, second, slot) ==
    LET merged == [Unmap(m, second) EXCEPT
                      !.blocks = [Without(@, second) EXCEPT ![id].end = m.blocks[second].end],
                      !.free[m.entry[second]] = @ + 1,
                      !.entry = Without(@, second)]
    IN  IF Own(m, id) /\ Own(m, second) /\ m.blocks[id].end = m.blocks[second].start
        THEN {Map(merged, "riot", id, slot)}
        ELSE {}

\* A block, not in use otherwise, becomes a kernel structure of the partition.
Pip_prepare(m, partition, id) ==
    IF Own(m, id) /\ id \in Structures(partition)
    THEN {[Unmap(m, id) EXCEPT !.kernel = @ \cup {id}, !.free = (id :> Entries) @@ @]}
    ELSE {}

\* A kernel structure without any entry in use is given back.
Pip_collect(m, partition) ==
    LET empty == {k \in Structures(partition) \cap m.kernel : m.free[k] = Entries}
    IN  {[m EXCEPT !.kernel = @ \ {k}, !.free = Without(@, k)] : k \in empty}

Pip_createPartition(m, id) ==
    IF Own(m, id) THEN {[Unmap(m, id) EXCEPT !.kernel = @ \cup {id}, !.child = TRUE]} ELSE {}

Pip_deletePartition(m, id) ==
    IF m.child /\ m.shared = {} /\ m.kernel \cap Structures("child") = {}
    THEN {[m EXCEPT !.kernel = @ \ {id}, !.child = FALSE]}
    ELSE {}

Pip_addMemoryBlock(m, id) ==
    IF m.child /\ Own(m, id) /\ "child_krn" \in m.kernel /\ m.free["child_krn"] > 0
    THEN {[m EXCEPT !.shared = @ \cup {id}, !.free["child_krn"] = @ - 1]}
    ELSE {}

Pip_removeMemoryBlock(m, id) ==
    IF /\ id \in m.shared
       /\ \A i \in Slot : m.slots["child"][i] # id
       /\ m.vidt \notin Cells(m.blocks[id])
    THEN {[m EXCEPT !.shared = @ \ {id}, !.free["child_krn"] = @ + 1]}
    ELSE {}

\* Puts a block, or none, in a slot of RIOT or of the child.
Pip_mapMPU(m, partition, id, slot) ==
    IF \/ id = NONE
       \/ partition = "riot" /\ id \in DOMAIN m.blocks \ m.kernel
       \/ partition = "child" /\ id \in m.shared
    THEN {Map(m, partition, id, slot)}
    ELSE {}

Pip_setVIDT(m, a) ==
    IF a = 0 \/ \E id \in m.shared : a \in Cells(m.blocks[id])
    THEN {[m EXCEPT !.vidt = a]}
    ELSE {}
=============================================================================
