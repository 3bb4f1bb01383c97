----------------------------- MODULE MCMemCache -----------------------------
(***************************************************************************)
(* Instances of MemCache and MemCacheImpl for TLC: a narrow memory whose    *)
(* bytes have two bits, so that programming without erasing gives a third   *)
(* value, and a wide one with room for two breakpoints beside the writes.   *)
(***************************************************************************)
EXTENDS MemCacheImpl

CONSTANTS b1, b2

OneBit == {b1}
TwoBits == {b1, b2}

\* A checksum without collisions: the image itself.
ImageAsCrc == [m \in [0 .. Pages * PageSize - 1 -> SUBSET Bit] |-> m]

At(a, v) == [x \in {a} |-> v]

\* Pages {0, 1} and {2, 3}: a write inside a page, and one across the boundary.
NarrowWrites == {At(0, {b1}), [x \in {1, 2} |-> IF x = 1 THEN {b2} ELSE Bit]}
NarrowReads == {{0}, {1, 2}, {3}}
NarrowMarks == {0, 3}
NarrowLoaded == {[a \in 0 .. 3 |-> IF a = 0 THEN {b1} ELSE Bit]}

\* Pages {0, 1, 2} and {3, 4, 5}; at 5 the program holds BRK itself.
WideWrites == {At(0, {}), [x \in {2, 3} |-> IF x = 2 THEN {} ELSE Bit]}
WideReads == {{0}, {2, 3}}
WideMarks == {1, 5}
WideLoaded == {[a \in 0 .. 5 |-> IF a \in {2, 5} THEN {} ELSE Bit]}
=============================================================================
