---------------------------- MODULE MCFsoHeap ----------------------------
(* Small instances of FsoHeap for TLC: ordinary objects (ANY) and weak     *)
(* references to them (WEAK).                                              *)
EXTENDS FsoRefinement, FsoInvariant, TLC

CONSTANTS ANY, WEAK, w1, w2

WordSymmetry == Permutations({w1, w2})

\* The attribute of an object holds anything.
HoldsAny == [t \in Types |-> Types]

\* A weak reference to ANY objects only: its item has a single type.
HoldsOne == [t \in Types |-> IF t = WEAK THEN {ANY} ELSE Types]
===========================================================================
