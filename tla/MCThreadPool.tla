---------------------------- MODULE MCThreadPool ----------------------------
(* Small instances of ThreadPool for TLC. *)
EXTENDS ThreadPool

Program(ops, r, c) == [ops |-> ops, runs |-> r, collections |-> c]

(* Many starts; collections that threads want together; both, with waits;
   and everything. *)
StartsAndAll ==
  {Program({"run"}, 3, 0), Program({"run", "collect"}, 1, 2),
   Program({"run", "wait", "collect"}, 2, 1), Program(AllOps, 1, 1)}

(* Which slots malloc leaves looking used: none, 0 and 2 or none, 1.       *)
Clear     == {{}}
SomeLeft  == {{}, {0, 2}}
OneLeft   == {{1}}

Starts == {Program({"run"}, 2, 0)}
Waits == {Program({"run", "wait"}, 3, 0)}
Stops == {Program({"run", "stop"}, 1, 0)}
Collects == {Program({"run", "collect"}, 1, 1)}
StartsAndCollects == {Program({"run", "collect"}, 2, 1)}
WaitsAndCollects == {Program({"run", "wait", "collect"}, 1, 1)}
=============================================================================
