----------------------------- MODULE MCLoopStack -----------------------------
(* Small instances of LoopStack for TLC. *)
EXTENDS LoopStack

CONSTANTS a, b, c

(* Two jobs of the same priority and one that comes after them. *)
Prio == [j \in Jobs |-> IF j = c THEN 2 ELSE 1]
=============================================================================
