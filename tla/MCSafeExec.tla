----------------------------- MODULE MCSafeExec -----------------------------
EXTENDS SafeExec

\* A file of one page between files of two pages and of one.
ThreeFiles ==
    << [start |-> 102, size |-> 3], [start |-> 106, size |-> 1], [start |-> 108, size |-> 1] >>

\* A child passes its strings and buffers in its RAM and its constants in its
\* file, not on its stack.
RamAndFile == {"block_1", "block_2"}
AlsoStack == {"block_0", "block_1", "block_2"}
=============================================================================
