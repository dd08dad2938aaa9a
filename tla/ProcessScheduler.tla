-------------------------- MODULE ProcessScheduler --------------------------
(***************************************************************************)
(* PROCESS_SCHEDULER on the processes of ProcessGroup: programs run at     *)
(* most maximum_process_count at a time, and the process that ends first   *)
(* makes room for the next one.  compile runs the C compiler this way      *)
(* (run_make_file_parallel), with on_finished registered.  All processes   *)
(* of the group are the scheduler's.                                       *)
(***************************************************************************)
EXTENDS ProcessGroup

CONSTANTS
  MaxLaunches,  \* bound: calls of execute
  MaxFailures,  \* bound: failing forks
  Counts        \* what set_parallel_process_count is called with

ASSUME SchedulerAssumption ==
  /\ MaxLaunches \in Nat /\ MaxFailures \in Nat /\ Counts \subseteq Nat \ {0}
  /\ 1 .. MaxLaunches \subseteq Processes

VARIABLES
  processCount, parallelProcessCount, isSerial,  \* PROCESS_SCHEDULER
  made,      \* how many PROCESS objects it has made
  pc,        \* "idle", "wait" (in wait_until), "launch", "crashed"
  toWait,    \* wait_until: processes still to be waited for
  after,     \* what follows the wait: "idle", "launch", "serial", "parallel"
  current,   \* the process that new_process returns
  launches, failures,
  finished   \* history: calls of on_finished

counts == <<parallelProcessCount, isSerial>>
vars == <<groupVars, counts, processCount, made, pc, toWait, after, current, launches,
          failures, finished>>

Init ==
  /\ GroupInit
  /\ processCount = 0 /\ parallelProcessCount = 1 /\ isSerial = FALSE /\ made = 0
  /\ pc = "idle" /\ toWait = 0 /\ after = "idle" /\ current = Void
  /\ launches = 0 /\ failures = 0 /\ finished = 0

maximum_process_count == IF isSerial THEN Min({parallelProcessCount, 1})
                         ELSE parallelProcessCount
-----------------------------------------------------------------------------
Ends(i) ==
  /\ ChildEnds(i)
  /\ UNCHANGED <<counts, processCount, made, pc, toWait, after, current, launches, failures,
                 finished>>

(* Whether one more process may run; mutant: <= for <.                     *)
HasRoomForMore == processCount <= maximum_process_count
HasRoom == processCount < maximum_process_count

(* factory.create_process; mutant: the same object again.                  *)
CreatedOnce == Max({1, made})
Created == made + 1

(* execute: new_process makes a process or waits for one.                  *)
NewProcess ==
  /\ pc = "idle" /\ launches < MaxLaunches /\ maximum_process_count >= 1
  /\ IF HasRoom
     THEN /\ made' = made + 1 /\ current' = Created /\ pc' = "launch"
          /\ UNCHANGED <<toWait, after>>
     ELSE /\ toWait' = 1 /\ after' = "launch" /\ pc' = "wait"
          /\ UNCHANGED <<made, current>>
  /\ UNCHANGED <<groupVars, counts, processCount, launches, failures, finished>>

(* process_count is incremented, p.execute, and post_launch                *)
Launched ==
  /\ pc = "launch" /\ pc' = "idle"
  /\ processCount' = processCount + 1 /\ launches' = launches + 1
  /\ UNCHANGED <<counts, made, toWait, after, current, finished>>

Launch == Launched /\ (\E i \in Ids : Executed(current, i)) /\ UNCHANGED failures

LaunchFails ==
  /\ Launched /\ ExecuteFailed(current)
  /\ failures < MaxFailures /\ failures' = failures + 1

(* process_count := process_count - 1; mutant: forgotten.                  *)
CountKept == processCount
CountAfterWait == processCount - 1

(* wait_process: group.wait, then on_finished is called.                   *)
WaitProcess(i) ==
  /\ pc = "wait" /\ toWait > 0
  /\ GroupWaits(i)
  /\ finished' = finished + 1 /\ processCount' = CountAfterWait
  /\ toWait' = toWait - 1 /\ current' = idMap[i]
  /\ UNCHANGED <<counts, made, pc, after, launches, failures>>

(* wait(2) has no child to wait for: group.wait returns Void, and          *)
(* wait_process calls on_finished with the status of Void.                 *)
WaitNobody ==
  /\ pc = "wait" /\ toWait > 0 /\ Living = {}
  /\ pc' = "crashed"
  /\ UNCHANGED <<groupVars, counts, processCount, made, toWait, after, current, launches,
                 failures, finished>>

WaitEnds ==
  /\ pc = "wait" /\ toWait = 0
  /\ isSerial' = (after = "serial" \/ (isSerial /\ after # "parallel"))
  /\ pc' = IF after = "launch" THEN "launch" ELSE "idle"
  /\ UNCHANGED <<groupVars, parallelProcessCount, processCount, made, toWait, after, current,
                 launches, failures, finished>>

(* How many processes wait_until waits for; mutant: its loop ends one turn *)
(* later.                                                                  *)
ToWaitOneMore(n) == Max({0, processCount - n + 1})
ToWait(n) == Max({0, processCount - n})

(* wait_until(n), then what the caller does next                           *)
WaitUntil(n, next) ==
  /\ pc = "idle" /\ pc' = "wait"
  /\ toWait' = ToWait(n) /\ after' = next
  /\ UNCHANGED <<groupVars, isSerial, processCount, made, current, launches, failures,
                 finished>>

SetParallelProcessCount(n) ==
  parallelProcessCount' = n /\ WaitUntil(processCount, "idle")

SetSerial == WaitUntil(1, "serial") /\ UNCHANGED parallelProcessCount

SetParallel ==
  /\ WaitUntil(IF isSerial THEN 0 ELSE processCount, "parallel")
  /\ UNCHANGED parallelProcessCount

WaitAll == WaitUntil(0, "idle") /\ UNCHANGED parallelProcessCount
-----------------------------------------------------------------------------
Working ==
  \/ Launch \/ LaunchFails \/ WaitNobody \/ WaitEnds
  \/ \E i \in Ids : WaitProcess(i)

Next ==
  \/ Working \/ NewProcess \/ SetSerial \/ SetParallel \/ WaitAll
  \/ \E i \in Ids : Ends(i)
  \/ \E n \in Counts : SetParallelProcessCount(n)

(* A call goes on, and the programs that were started end.                 *)
Spec ==
  /\ Init /\ [][Next]_vars /\ WF_vars(Working)
  /\ \A i \in Ids : WF_vars(Ends(i))
-----------------------------------------------------------------------------
TypeOK ==
  /\ GroupTypeOK
  /\ processCount \in Nat /\ parallelProcessCount \in Counts \union {1} /\ isSerial \in BOOLEAN
  /\ made \in 0 .. MaxLaunches /\ current \in Processes \union {Void}
  /\ pc \in {"idle", "wait", "launch", "crashed"} /\ toWait \in Nat
  /\ after \in {"idle", "launch", "serial", "parallel"}

(* Every child that was not waited for is counted in process_count and     *)
(* known to the group under its id and, until a fork fails, nothing else   *)
(* is counted: no wait forgets its process or takes it off twice.          *)
ChildrenCounted ==
  /\ GroupKnowsChildren
  /\ Cardinality(Living) <= processCount
  /\ failures = 0 => processCount = Cardinality(Living)

(* Never more children than maximum_process_count, through changes of mode *)
(* and failing forks.                                                      *)
WithinMaximum == Cardinality(Living) <= maximum_process_count

(* on_finished is called once for every launch that was waited for, and a  *)
(* PROCESS is not used again while it runs.                                *)
FinishedOnce ==
  /\ "do_execute" \notin broken
  /\ launches = failures + Cardinality(Living) + finished

(* When no fork fails and the programs end, every call of the scheduler    *)
(* returns.                                                                *)
CallsReturn == pc \in {"wait", "launch"} ~> pc = "idle" \/ failures > 0

(* "How many processes are currently running." (process_scheduler.e, of    *)
(* process_count), whether those that have ended and were not yet waited   *)
(* for are meant or not.  execute counts the process before its fork: one  *)
(* whose fork has failed is counted for ever.                              *)
CountIsRunning ==
  processCount \in Cardinality({i \in Ids : child[i] = "running"}) .. Cardinality(Living)

(* The invariant of PROCESS_SCHEDULER (process_scheduler.e).               *)
ProcessCountInRange == pc = "idle" => processCount \in 0 .. maximum_process_count

(* wait_process ensures Result /= Void (process_scheduler.e).              *)
WaitProcessEnsure == pc # "crashed"
=============================================================================
