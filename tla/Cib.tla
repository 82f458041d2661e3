-------------------------------- MODULE Cib --------------------------------
(***************************************************************************)
(* The ring buffers of RIOT/core/lib/include/cib.h: two counters of type   *)
(* unsigned that only go up, and wrap around.                              *)
(***************************************************************************)
EXTENDS Integers

CONSTANT UINT_BITS    \* the width of an unsigned

ASSUME CibAssumption == UINT_BITS \in Nat \ {0}

unsigned(n) == n % 2^UINT_BITS

\* (int) of an unsigned
int(n) == IF n >= 2^(UINT_BITS - 1) THEN n - 2^UINT_BITS ELSE n

\* n & mask, of a mask 2^k - 1
and(n, mask) == n % (mask + 1)

\* The size is 0 or a power of 2; the mask of size 0 has all bits set.
cib_init(size) == [read_count |-> 0, write_count |-> 0, mask |-> unsigned(size - 1)]

cib_avail(cib) == unsigned(cib.write_count - cib.read_count)

\* Mutant: the mask is compared as an unsigned, which takes a buffer of size 0
\* for one that is never full.
cib_full_unsigned(cib) == cib_avail(cib) > cib.mask

cib_full(cib) == int(cib_avail(cib)) > int(cib.mask)

\* The index that cib_put_unsafe and cib_get_unsafe return, and what they leave
\* of the buffer.
put_index(cib) == and(cib.write_count, cib.mask)
cib_put_unsafe(cib) == [cib EXCEPT !.write_count = unsigned(@ + 1)]
get_index(cib) == and(cib.read_count, cib.mask)
cib_get_unsafe(cib) == [cib EXCEPT !.read_count = unsigned(@ + 1)]
=============================================================================
