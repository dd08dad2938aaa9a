---------------------------- MODULE ProcessGroup ----------------------------
(***************************************************************************)
(* PROCESS_POSIX and the PROCESS_GROUP_POSIX all processes register in,    *)
(* over fork, wait and waitpid (exec_posix.c).  A program executes         *)
(* processes, asks is_finished, waits for one or for any of them, and may  *)
(* have the loop's WAITPID_INPUT reap children as well.                    *)
(*                                                                         *)
(* The operating system (external) may give a new child the id of one that *)
(* was reaped.  A contract that is broken is noted in `broken'.            *)
(***************************************************************************)
EXTENDS Integers, FiniteSets, FiniteSetsExt, Functions

CONSTANTS
  Ids,        \* the ids of children, a set of numbers
  Processes,  \* the PROCESS objects, numbers too
  ReuseIds,   \* the system reuses the ids of reaped children
  Waitpid     \* WAITPID_INPUT is in use

ASSUME GroupAssumption ==
  /\ Ids \subseteq Nat \ {0} /\ Processes \subseteq Nat \ {0}
  /\ ReuseIds \in BOOLEAN /\ Waitpid \in BOOLEAN

VARIABLES
  child,    \* the system: what became of the child of each id
  process,  \* PROCESS_POSIX: id, running, is_connected
  idMap,    \* PROCESS_GROUP_POSIX.id_map, id -> process or Void
  broken    \* history: broken contracts

groupVars == <<child, process, idMap, broken>>

Void == 0

GroupInit ==
  /\ child = [i \in Ids |-> "none"]
  /\ process = [p \in Processes |-> [id |-> 0, running |-> FALSE, connected |-> FALSE]]
  /\ idMap = [i \in Ids |-> Void] /\ broken = {}

Living == {i \in Ids : child[i] \in {"running", "zombie"}}

Require(b, contract) == IF b THEN {} ELSE {contract}
-----------------------------------------------------------------------------
(* The system *)
ChildEnds(i) ==
  /\ child[i] = "running" /\ child' = [child EXCEPT ![i] = "zombie"]
  /\ UNCHANGED <<process, idMap, broken>>

Reaped(i) == [child EXCEPT ![i] = IF ReuseIds THEN "none" ELSE "gone"]

(* register: id_map.put(process, process_id).                              *)
Registered(p, i) == [idMap EXCEPT ![i] = p]

(* execute: do_execute with basic_exec_posix_execute.  fork gives id i ... *)
Executed(p, i) ==
  /\ child[i] = "none" /\ child' = [child EXCEPT ![i] = "running"]
  /\ process' = [process EXCEPT ![p] = [id |-> i, running |-> TRUE, connected |-> TRUE]]
  /\ idMap' = Registered(p, i)
  /\ broken' = broken \union
       Require(process[p].connected => ~process[p].running, "do_execute")

(* ... or fails.                                                           *)
ExecuteFailed(p) ==
  /\ process' = [process EXCEPT ![p].connected = FALSE]
  /\ UNCHANGED <<child, idMap, broken>>

(* do_cleanup unregisters whatever has the process's id.                   *)
Unregistered(p) == [idMap EXCEPT ![process[p].id] = Void]

(* basic_exec_cleanup                                                      *)
Stopped(p) == [process EXCEPT ![p].running = FALSE]

(* PROCESS_GROUP_POSIX.wait, and `finished' when a child has ended         *)
GroupWaits(i) ==
  LET p == idMap[i] IN
  /\ child[i] = "zombie" /\ child' = Reaped(i)
  /\ broken' = broken \union Require(p # Void, "id_map.has")
  /\ process' = IF p = Void THEN process ELSE Stopped(p)
  /\ idMap' = IF p = Void THEN idMap ELSE Unregistered(p)
-----------------------------------------------------------------------------
(* A program that uses PROCESS itself: is_ready before execute, and        *)
(* is_connected before the others.                                         *)
Execute(p) == ~process[p].running /\ \E i \in Ids : Executed(p, i)

ExecuteFails(p) == ~process[p].running /\ process[p].connected /\ ExecuteFailed(p)

(* is_finished: waitpid(id, WNOHANG) if the process is running             *)
IsFinished(p) ==
  LET i == process[p].id IN
  /\ process[p].connected
  /\ ~process[p].running \/ child[i] = "zombie"
  /\ child' = IF process[p].running THEN Reaped(i) ELSE child
  /\ process' = Stopped(p) /\ idMap' = Unregistered(p)
  /\ UNCHANGED broken

(* wait: waitpid(id, 0), which fails at once if the child was reaped by    *)
(* someone else; ensure is_finished                                        *)
Wait(p) ==
  LET i == process[p].id
      ends == process[p].running /\ child[i] = "zombie"
  IN
  /\ process[p].connected /\ (process[p].running => child[i] # "running")
  /\ child' = IF ends THEN Reaped(i) ELSE child
  /\ process' = IF ends THEN Stopped(p) ELSE process
  /\ idMap' = Unregistered(p)
  /\ broken' = broken \union Require(ends \/ ~process[p].running, "wait")

(* WAITPID_INPUT reads: waitpid(-1, WNOHANG), whosever child it is.        *)
ReadWaitpid(i) ==
  /\ Waitpid /\ child[i] = "zombie" /\ child' = Reaped(i)
  /\ UNCHANGED <<process, idMap, broken>>

GroupNext ==
  \/ \E p \in Processes : Execute(p) \/ ExecuteFails(p) \/ IsFinished(p) \/ Wait(p)
  \/ \E i \in Ids : ChildEnds(i) \/ GroupWaits(i) \/ ReadWaitpid(i)

GroupSpec == GroupInit /\ [][GroupNext]_groupVars
-----------------------------------------------------------------------------
GroupTypeOK ==
  /\ child \in [Ids -> {"none", "running", "zombie", "gone"}]
  /\ process \in [Processes -> [id : Ids \union {0}, running : BOOLEAN, connected : BOOLEAN]]
  /\ idMap \in [Ids -> Processes \union {Void}]
  /\ broken \subseteq {"do_execute", "id_map.has", "wait"}

(* A child that was not waited for is registered in the group under its    *)
(* id, as the process that runs it, and nothing else is: whoever finds out *)
(* that it has ended, by wait, is_finished or the group, the others agree. *)
GroupKnowsChildren ==
  \A i \in Ids :
    IF i \in Living
    THEN idMap[i] # Void /\ process[idMap[i]] = [id |-> i, running |-> TRUE, connected |-> TRUE]
    ELSE idMap[i] = Void

(* A process that is running has a child of its own: the ends that were    *)
(* seen are those of the children, and no contract was broken on the way.  *)
RunningHasChild ==
  /\ broken = {}
  /\ {p \in Processes : process[p].running} = {idMap[i] : i \in Living}

(* PROCESS_GROUP_POSIX.wait checks id_map.has(process_id).                 *)
IdMapHas == "id_map.has" \notin broken

(* PROCESS.wait ensures is_finished (process.e).                           *)
WaitEnsure == "wait" \notin broken
=============================================================================
