---------------------------- MODULE MCRsoHeap ----------------------------
(* Small instances of RsoHeap for TLC. *)
EXTENDS RsoHeap

CONSTANTS CHARS, REALS

\* Strings of three sizes, and arrays of one size that share their chunks.
SizesOfTwo == [t \in Types |-> IF t = CHARS THEN {2, 4, 8} ELSE {4}]
===========================================================================
