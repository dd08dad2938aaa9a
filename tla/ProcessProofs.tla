--------------------------- MODULE ProcessProofs ---------------------------
(***************************************************************************)
(* The execution of processes.  First the bookkeeping of                   *)
(* PROCESS_SCHEDULER, for every number of launches and failing forks, and  *)
(* whatever ids the system hands out and reuses.  Then WAITPID_JOB: no end *)
(* of a child is lost or reported twice, for any number of children, any   *)
(* timeouts and any calls of arm, disarm and trigger.                      *)
(***************************************************************************)
EXTENDS ProcessScheduler, WaitpidJob, FiniteSetTheorems, TLAPS

-----------------------------------------------------------------------------
(* PROCESS_SCHEDULER                                                       *)

SchedTypes ==
  /\ child \in [Ids -> {"none", "running", "zombie", "gone"}]
  /\ process \in [Processes -> [id : Ids \union {0}, running : BOOLEAN, connected : BOOLEAN]]
  /\ idMap \in [Ids -> Processes \union {Void}]
  /\ pc \in {"idle", "wait", "launch", "crashed"}
  /\ after \in {"idle", "launch", "serial", "parallel"}
  /\ processCount \in Nat /\ made \in Nat /\ toWait \in Nat
  /\ launches \in Nat /\ failures \in Nat /\ finished \in Nat
  /\ IsFiniteSet(Living)

(* The processes that are running are the ones the group knows.            *)
RunningKnown ==
  \A p \in Processes : process[p].running =>
    process[p].id \in Living /\ idMap[process[p].id] = p

(* One more process is about to be launched, in `current'.                 *)
Launching == pc = "launch" \/ (pc = "wait" /\ after = "launch")
Chosen    == pc = "launch" \/ (pc = "wait" /\ after = "launch" /\ toWait = 0)

(* No more processes are made than launched; the one about to be launched  *)
(* is not running; execute waits for one process at most.                  *)
LaunchOK ==
  /\ launches + (IF Launching THEN 1 ELSE 0) <= MaxLaunches
  /\ made <= launches + (IF pc = "launch" THEN 1 ELSE 0)
  /\ \A i \in Living : idMap[i] <= made
  /\ Chosen => current \in Processes /\ current <= made
               /\ \A i \in Living : idMap[i] # current
  /\ pc = "wait" /\ after = "launch" => toWait <= 1

(* A fork that fails is counted and never waited for.                      *)
Counted == processCount = Cardinality(Living) + failures /\ GroupKnowsChildren

SchedInv ==
  /\ SchedTypes /\ RunningKnown /\ LaunchOK /\ Counted /\ FinishedOnce
-----------------------------------------------------------------------------
LEMMA LivingCount ==
  ASSUME SchedTypes, NEW i \in Ids
  PROVE  /\ Cardinality(Living) \in Nat
         /\ i \notin Living => /\ IsFiniteSet(Living \union {i})
                               /\ Cardinality(Living \union {i}) = Cardinality(Living) + 1
         /\ i \in Living => /\ IsFiniteSet(Living \ {i})
                            /\ Cardinality(Living \ {i}) = Cardinality(Living) - 1
<1>1. IsFiniteSet(Living)
  BY DEF SchedTypes
<1>2. Cardinality(Living) \in Nat
  BY <1>1, FS_CardinalityType
<1>3. QED
  BY <1>1, <1>2, FS_AddElement, FS_RemoveElement

(* Min and Max of the code, on two numbers.                                *)
LEMMA MinMax ==
  ASSUME NEW a \in Int, NEW b \in Int
  PROVE  /\ Min({a, b}) = IF a <= b THEN a ELSE b
         /\ Max({a, b}) = IF a <= b THEN b ELSE a
<1>1. \E x \in {a, b} : \A y \in {a, b} : x <= y
  OBVIOUS
<1>2. \E x \in {a, b} : \A y \in {a, b} : x >= y
  OBVIOUS
<1>3. Min({a, b}) \in {a, b} /\ Min({a, b}) <= a /\ Min({a, b}) <= b
  BY <1>1 DEF Min
<1>4. Max({a, b}) \in {a, b} /\ Max({a, b}) >= a /\ Max({a, b}) >= b
  BY <1>2 DEF Max
<1>5. QED
  BY <1>3, <1>4

LEMMA InitSched == Init => SchedInv
<1>1. ASSUME Init PROVE SchedInv
  <2>1. Living = {} /\ Void \notin Processes
    BY <1>1, GroupAssumption DEF Init, GroupInit, Living, Void
  <2>2. IsFiniteSet(Living) /\ Cardinality(Living) = 0
    BY <2>1, FS_EmptySet
  <2>3. SchedTypes
    BY <1>1, <2>2 DEF Init, GroupInit, SchedTypes
  <2>4. RunningKnown
    BY <1>1 DEF Init, GroupInit, RunningKnown
  <2>5. LaunchOK
    BY <1>1, <2>1, SchedulerAssumption DEF Init, LaunchOK, Launching, Chosen
  <2>6. Counted /\ FinishedOnce
    BY <1>1, <2>1, <2>2 DEF Init, GroupInit, Counted, GroupKnowsChildren, FinishedOnce
  <2>7. QED
    BY <2>3, <2>4, <2>5, <2>6 DEF SchedInv
<1>2. QED
  BY <1>1

(* A step that leaves the processes and the counts alone.                  *)
LEMMA GroupKept ==
  ASSUME SchedInv, LaunchOK',
         UNCHANGED <<process, idMap, broken, processCount, launches, failures, finished>>,
         child' \in [Ids -> {"none", "running", "zombie", "gone"}], Living' = Living,
         pc' \in {"idle", "wait", "launch", "crashed"},
         after' \in {"idle", "launch", "serial", "parallel"}, made' \in Nat, toWait' \in Nat
  PROVE  SchedInv'
BY DEF SchedInv, SchedTypes, RunningKnown, Counted, GroupKnowsChildren, FinishedOnce

LEMMA EndsInv == ASSUME SchedInv, NEW i \in Ids, Ends(i) PROVE SchedInv'
<1>1. /\ child[i] = "running" /\ child' = [child EXCEPT ![i] = "zombie"]
      /\ UNCHANGED <<process, idMap, broken, processCount, made, pc, toWait, after, current,
                     launches, failures, finished>>
  BY DEF Ends, ChildEnds, counts
<1>2. Living' = Living
  BY <1>1 DEF SchedInv, SchedTypes, Living
<1>3. LaunchOK'
  BY <1>1, <1>2 DEF SchedInv, LaunchOK, Launching, Chosen
<1>4. QED
  BY <1>1, <1>2, <1>3, GroupKept DEF SchedInv, SchedTypes

LEMMA WaitUntilInv ==
  ASSUME SchedInv, NEW n \in Nat, NEW next \in {"idle", "serial", "parallel"},
         WaitUntil(n, next)
  PROVE  SchedInv'
<1>1. /\ pc = "idle" /\ pc' = "wait" /\ toWait' = ToWait(n) /\ after' = next
      /\ UNCHANGED <<child, process, idMap, broken, processCount, made, current, launches,
                     failures, finished>>
  BY DEF WaitUntil, groupVars
<1>2. Living' = Living
  BY <1>1 DEF Living
<1>3. toWait' \in Nat
  <2>1. processCount \in Nat
    BY DEF SchedInv, SchedTypes
  <2>2. QED
    BY <1>1, <2>1, MinMax DEF ToWait
<1>4. LaunchOK'
  BY <1>1, <1>2 DEF SchedInv, LaunchOK, Launching, Chosen
<1>5. QED
  BY <1>1, <1>2, <1>3, <1>4, GroupKept DEF SchedInv, SchedTypes

(* A new process is one that no child of the group belongs to.             *)
LEMMA NewProcessInv == ASSUME SchedInv, NewProcess PROVE SchedInv'
<1>1. /\ pc = "idle" /\ launches < MaxLaunches
      /\ UNCHANGED <<child, process, idMap, broken, processCount, launches, failures, finished>>
  BY DEF NewProcess, groupVars
<1>2. Living' = Living
  BY <1>1 DEF Living
<1>3. /\ made \in Nat /\ launches \in Nat /\ MaxLaunches \in Nat /\ made <= launches
      /\ \A i \in Living : idMap[i] \in Nat /\ idMap[i] <= made
  <2>1. made \in Nat /\ launches \in Nat /\ MaxLaunches \in Nat
    BY SchedulerAssumption DEF SchedInv, SchedTypes
  <2>2. made <= launches
    BY <1>1, <2>1 DEF SchedInv, LaunchOK
  <2>3. ASSUME NEW i \in Living PROVE idMap[i] \in Nat /\ idMap[i] <= made
    <3>1. i \in Ids
      BY DEF Living
    <3>2. idMap[i] \in Processes \union {0}
      BY <3>1 DEF SchedInv, SchedTypes, Void
    <3>3. idMap[i] \in Nat
      <4>1. \A x \in Processes \union {0} : x \in Nat
        BY GroupAssumption
      <4>2. QED
        BY <3>2, <4>1, Zenon
    <3>4. idMap[i] <= made
      BY DEF SchedInv, LaunchOK
    <3>5. QED
      BY <3>3, <3>4
  <2>4. QED
    BY <2>1, <2>2, <2>3
<1>4. CASE HasRoom
  <2>1. made' = made + 1 /\ current' = made + 1 /\ pc' = "launch"
        /\ UNCHANGED <<toWait, after>>
    BY <1>4 DEF NewProcess, Created
  <2>2. current' \in Processes
    BY <1>1, <1>3, <2>1, SchedulerAssumption
  <2>3. LaunchOK'
    BY <1>1, <1>2, <1>3, <2>1, <2>2 DEF LaunchOK, Launching, Chosen
  <2>4. QED
    BY <1>1, <1>2, <1>3, <2>1, <2>3, GroupKept DEF SchedInv, SchedTypes
<1>5. CASE ~HasRoom
  <2>1. toWait' = 1 /\ after' = "launch" /\ pc' = "wait" /\ UNCHANGED <<made, current>>
    BY <1>5 DEF NewProcess
  <2>2. LaunchOK'
    BY <1>1, <1>2, <1>3, <2>1 DEF LaunchOK, Launching, Chosen
  <2>3. QED
    BY <1>1, <1>2, <1>3, <2>1, <2>2, GroupKept DEF SchedInv, SchedTypes
<1>6. QED
  BY <1>4, <1>5
-----------------------------------------------------------------------------
(* The counts, as numbers.                                                 *)
LEMMA CountsStep ==
  ASSUME SchedInv
  PROVE  /\ processCount \in Nat /\ failures \in Nat /\ launches \in Nat /\ finished \in Nat
         /\ Cardinality(Living) \in Nat
         /\ processCount = Cardinality(Living) + failures
         /\ launches = failures + Cardinality(Living) + finished
         /\ "do_execute" \notin broken
BY FS_CardinalityType DEF SchedInv, SchedTypes, Counted, FinishedOnce

(* What Launched and LaunchFails share.                                    *)
LEMMA LaunchedFacts ==
  ASSUME SchedInv, Launched
  PROVE  /\ pc = "launch" /\ pc' = "idle" /\ processCount' = processCount + 1
         /\ launches' = launches + 1 /\ UNCHANGED <<made, toWait, after, current, finished>>
         /\ current \in Processes /\ current <= made /\ current # Void
         /\ \A i \in Living : idMap[i] # current
         /\ ~process[current].running
<1>1. /\ pc = "launch" /\ pc' = "idle" /\ processCount' = processCount + 1
      /\ launches' = launches + 1 /\ UNCHANGED <<made, toWait, after, current, finished>>
  BY DEF Launched
<1>2. current \in Processes /\ current <= made /\ \A i \in Living : idMap[i] # current
  BY <1>1 DEF SchedInv, LaunchOK, Chosen
<1>3. ~process[current].running
  BY <1>2 DEF SchedInv, RunningKnown
<1>4. current # Void
  BY <1>2, GroupAssumption DEF Void
<1>5. QED
  BY <1>1, <1>2, <1>3, <1>4

LEMMA LaunchInv == ASSUME SchedInv, Launch PROVE SchedInv'
<1>1. Launched /\ UNCHANGED failures
  BY DEF Launch
<1>2. PICK i \in Ids : Executed(current, i)
  BY DEF Launch
<1>3. /\ child[i] = "none" /\ child' = [child EXCEPT ![i] = "running"]
      /\ process' = [process EXCEPT ![current] =
                       [id |-> i, running |-> TRUE, connected |-> TRUE]]
      /\ idMap' = [idMap EXCEPT ![i] = current]
      /\ broken' = broken
  BY <1>1, <1>2, LaunchedFacts DEF Executed, Registered, Require
<1>4. Living' = Living \union {i} /\ i \notin Living /\ Living \subseteq Ids
  BY <1>3 DEF SchedInv, SchedTypes, Living
<1>5. /\ IsFiniteSet(Living') /\ Cardinality(Living') = Cardinality(Living) + 1
      /\ Cardinality(Living) \in Nat
  BY <1>4, LivingCount DEF SchedInv
<1>6. SchedTypes'
  BY <1>1, <1>3, <1>5, LaunchedFacts DEF SchedInv, SchedTypes
<1>7. \A j \in Living : idMap'[j] = idMap[j] /\ process'[idMap[j]] = process[idMap[j]]
  BY <1>1, <1>3, <1>4, LaunchedFacts DEF SchedInv, SchedTypes
<1>8. /\ idMap'[i] = current
      /\ process'[current] = [id |-> i, running |-> TRUE, connected |-> TRUE]
  BY <1>1, <1>3, LaunchedFacts DEF SchedInv, SchedTypes
<1>9. GroupKnowsChildren'
  <2>1. \A j \in Ids : j \notin Living' => idMap'[j] = Void
    BY <1>3, <1>4 DEF SchedInv, SchedTypes, Counted, GroupKnowsChildren
  <2>2. \A j \in Living : /\ idMap'[j] # Void
                          /\ process'[idMap'[j]] = [id |-> j, running |-> TRUE, connected |-> TRUE]
    BY <1>4, <1>7 DEF SchedInv, Counted, GroupKnowsChildren
  <2>3. idMap'[i] # Void
    BY <1>1, <1>8, LaunchedFacts
  <2>4. QED
    BY <1>4, <1>8, <2>1, <2>2, <2>3 DEF GroupKnowsChildren
<1>10. RunningKnown'
  <2>1. \A p \in Processes : p # current => process'[p] = process[p]
    BY <1>3 DEF SchedInv, SchedTypes
  <2>2. QED
    BY <1>4, <1>7, <1>8, <2>1 DEF SchedInv, RunningKnown
<1>11. LaunchOK'
  BY <1>1, <1>4, <1>7, <1>8, LaunchedFacts
     DEF SchedInv, SchedTypes, LaunchOK, Launching, Chosen
<1>12. Counted' /\ FinishedOnce'
  BY <1>1, <1>3, <1>5, <1>9, LaunchedFacts, CountsStep DEF Counted, FinishedOnce
<1>13. QED
  BY <1>6, <1>10, <1>11, <1>12 DEF SchedInv

LEMMA LaunchFailsInv == ASSUME SchedInv, LaunchFails PROVE SchedInv'
<1>1. Launched /\ failures' = failures + 1
  BY DEF LaunchFails
<1>2. /\ process' = [process EXCEPT ![current].connected = FALSE]
      /\ UNCHANGED <<child, idMap, broken>>
  BY DEF LaunchFails, ExecuteFailed
<1>3. Living' = Living /\ Living \subseteq Ids
  BY <1>2 DEF Living
<1>4. Cardinality(Living) \in Nat
  BY FS_CardinalityType DEF SchedInv, SchedTypes
<1>5. /\ \A p \in Processes : p # current => process'[p] = process[p]
      /\ process'[current] = [process[current] EXCEPT !.connected = FALSE]
      /\ process' \in [Processes -> [id : Ids \union {0}, running : BOOLEAN, connected : BOOLEAN]]
  <2> DEFINE R == [id : Ids \union {0}, running : BOOLEAN, connected : BOOLEAN]
  <2>1. process \in [Processes -> R] /\ current \in Processes
    BY <1>1, LaunchedFacts DEF SchedInv, SchedTypes
  <2>2. \A r \in R : [r EXCEPT !.connected = FALSE] \in R
    OBVIOUS
  <2>3. process' = [process EXCEPT ![current] = [process[current] EXCEPT !.connected = FALSE]]
    BY <1>2
  <2> HIDE DEF R
  <2>4. process' \in [Processes -> R]
    BY <2>1, <2>2, <2>3
  <2>5. QED
    BY <2>1, <2>3, <2>4 DEF R
<1>6. SchedTypes'
  BY <1>1, <1>2, <1>3, <1>5, LaunchedFacts DEF SchedInv, SchedTypes
<1>7. ~process'[current].running
  BY <1>1, <1>5, LaunchedFacts DEF SchedInv, SchedTypes
<1>8. RunningKnown'
  BY <1>2, <1>3, <1>5, <1>7 DEF SchedInv, RunningKnown
<1>9. GroupKnowsChildren'
  <2>1. \A j \in Living : idMap[j] \in Processes /\ idMap[j] # current
    BY <1>1, <1>3, LaunchedFacts DEF SchedInv, SchedTypes, Counted, GroupKnowsChildren
  <2>2. QED
    BY <1>2, <1>3, <1>5, <2>1 DEF SchedInv, Counted, GroupKnowsChildren
<1>10. LaunchOK'
  BY <1>1, <1>2, <1>3, LaunchedFacts DEF SchedInv, SchedTypes, LaunchOK, Launching, Chosen
<1>11. Counted' /\ FinishedOnce'
  BY <1>1, <1>2, <1>3, <1>4, <1>9, LaunchedFacts
     DEF SchedInv, SchedTypes, Counted, FinishedOnce
<1>12. QED
  BY <1>6, <1>8, <1>10, <1>11 DEF SchedInv
-----------------------------------------------------------------------------
(* wait gives the id of a child that is known, and its process is no       *)
(* longer running.                                                         *)
LEMMA WaitProcessInv == ASSUME SchedInv, NEW i \in Ids, WaitProcess(i) PROVE SchedInv'
<1> DEFINE p == idMap[i]
<1>1. /\ pc = "wait" /\ toWait > 0 /\ toWait' = toWait - 1 /\ current' = p
      /\ finished' = finished + 1 /\ processCount' = processCount - 1
      /\ UNCHANGED <<made, pc, after, launches, failures>>
  BY DEF WaitProcess, CountAfterWait
<1>2. /\ i \in Living /\ p \in Processes
      /\ process[p] = [id |-> i, running |-> TRUE, connected |-> TRUE]
  BY DEF WaitProcess, GroupWaits, Living, SchedInv, SchedTypes, Counted,
         GroupKnowsChildren
<1>3. p # Void
  BY <1>2, GroupAssumption DEF Void
<1>4. /\ child' = [child EXCEPT ![i] = IF ReuseIds THEN "none" ELSE "gone"]
      /\ broken' = broken
      /\ process' = [process EXCEPT ![p].running = FALSE]
      /\ idMap' = [idMap EXCEPT ![i] = Void]
  BY <1>2, <1>3 DEF WaitProcess, GroupWaits, Reaped, Require, Stopped, Unregistered
<1>5. Living' = Living \ {i} /\ Living \subseteq Ids
  BY <1>4 DEF SchedInv, SchedTypes, Living
<1>6. /\ IsFiniteSet(Living') /\ Cardinality(Living') = Cardinality(Living) - 1
      /\ Cardinality(Living) \in Nat /\ Cardinality(Living') \in Nat
  BY <1>2, <1>5, LivingCount, FS_CardinalityType DEF SchedInv
<1>7. /\ \A q \in Processes : q # p => process'[q] = process[q]
      /\ ~process'[p].running
      /\ process' \in [Processes -> [id : Ids \union {0}, running : BOOLEAN, connected : BOOLEAN]]
  <2> DEFINE R == [id : Ids \union {0}, running : BOOLEAN, connected : BOOLEAN]
  <2>1. process \in [Processes -> R] /\ p \in Processes
    BY <1>2 DEF SchedInv, SchedTypes
  <2>2. \A r \in R : [r EXCEPT !.running = FALSE] \in R /\ ~[r EXCEPT !.running = FALSE].running
    OBVIOUS
  <2>3. process' = [process EXCEPT ![p] = [process[p] EXCEPT !.running = FALSE]]
    BY <1>4
  <2> HIDE DEF R, p
  <2>4. process' \in [Processes -> R] /\ process'[p] = [process[p] EXCEPT !.running = FALSE]
    BY <2>1, <2>2, <2>3
  <2>5. \A q \in Processes : q # p => process'[q] = process[q]
    BY <2>1, <2>3
  <2>6. QED
    BY <2>1, <2>2, <2>4, <2>5 DEF R
<1>8. processCount' \in Nat
  BY <1>1, <1>6 DEF SchedInv, SchedTypes, Counted
<1>9. idMap' \in [Ids -> Processes \union {Void}]
      /\ child' \in [Ids -> {"none", "running", "zombie", "gone"}]
  BY <1>4 DEF SchedInv, SchedTypes
<1>10. SchedTypes'
  BY <1>1, <1>6, <1>7, <1>8, <1>9 DEF SchedInv, SchedTypes
<1>11. \A j \in Living' : idMap'[j] = idMap[j] /\ idMap[j] # p /\ idMap[j] \in Processes
  <2>1. \A j \in Living : /\ idMap[j] # Void
                          /\ process[idMap[j]] = [id |-> j, running |-> TRUE, connected |-> TRUE]
    BY <1>5 DEF SchedInv, Counted, GroupKnowsChildren
  <2>2. ASSUME NEW j \in Living \ {i}, idMap[j] = p PROVE FALSE
    <3>1. process[idMap[j]].id = j
      <4>1. process[idMap[j]] = [id |-> j, running |-> TRUE, connected |-> TRUE]
        BY <2>1, Zenon
      <4>2. QED
        BY <4>1
    <3>2. process[p].id = i
      BY <1>2
    <3>3. QED
      BY <2>2, <3>1, <3>2
  <2>3. QED
    BY <1>4, <1>5, <2>1, <2>2 DEF SchedInv, SchedTypes
<1>12. GroupKnowsChildren'
  <2>1. \A j \in Ids \ Living' : idMap'[j] = Void
    BY <1>4, <1>5 DEF SchedInv, SchedTypes, Counted, GroupKnowsChildren
  <2>2. \A j \in Living' : /\ idMap'[j] # Void
                           /\ process'[idMap'[j]] = [id |-> j, running |-> TRUE, connected |-> TRUE]
    BY <1>5, <1>7, <1>11 DEF SchedInv, Counted, GroupKnowsChildren
  <2>3. QED
    BY <2>1, <2>2 DEF GroupKnowsChildren
<1>13. RunningKnown'
  <2>1. ASSUME NEW q \in Processes, process'[q].running
        PROVE  process'[q].id \in Living' /\ idMap'[process'[q].id] = q
    <3>1. q # p /\ process'[q] = process[q]
      BY <1>7, <2>1
    <3>2. process[q].id \in Living /\ idMap[process[q].id] = q
      BY <2>1, <3>1 DEF SchedInv, RunningKnown
    <3>3. process[q].id # i
      BY <3>1, <3>2
    <3>4. QED
      BY <1>5, <1>11, <3>1, <3>2, <3>3
  <2>2. QED
    BY <2>1 DEF RunningKnown
<1>14. LaunchOK'
  <2>1. p <= made
    BY <1>2 DEF SchedInv, LaunchOK
  <2>2. \A j \in Living' : idMap'[j] <= made' /\ idMap'[j] # current'
    BY <1>1, <1>5, <1>11 DEF SchedInv, LaunchOK
  <2>3. pc' = "wait" /\ after' = "launch" => toWait' <= 1
    BY <1>1 DEF SchedInv, SchedTypes, LaunchOK
  <2>4. QED
    BY <1>1, <1>2, <2>1, <2>2, <2>3 DEF SchedInv, SchedTypes, LaunchOK, Launching, Chosen
<1>15. Counted' /\ FinishedOnce'
  BY <1>1, <1>4, <1>6, <1>12, CountsStep DEF Counted, FinishedOnce
<1>16. QED
  BY <1>10, <1>13, <1>14, <1>15 DEF SchedInv

LEMMA WaitNobodyInv == ASSUME SchedInv, WaitNobody PROVE SchedInv'
<1>1. /\ pc = "wait" /\ toWait > 0 /\ pc' = "crashed"
      /\ UNCHANGED <<child, process, idMap, broken, processCount, made, toWait, after, current,
                     launches, failures, finished>>
  BY DEF WaitNobody, groupVars
<1>2. Living' = Living
  BY <1>1 DEF Living
<1>3. LaunchOK'
  <2>1. MaxLaunches \in Nat /\ launches \in Nat /\ made \in Nat
    BY SchedulerAssumption DEF SchedInv, SchedTypes
  <2>2. QED
    BY <1>1, <1>2, <2>1 DEF SchedInv, LaunchOK, Launching, Chosen
<1>4. QED
  BY <1>1, <1>2, <1>3, GroupKept DEF SchedInv, SchedTypes

LEMMA WaitEndsInv == ASSUME SchedInv, WaitEnds PROVE SchedInv'
<1>1. /\ pc = "wait" /\ toWait = 0 /\ pc' = IF after = "launch" THEN "launch" ELSE "idle"
      /\ UNCHANGED <<child, process, idMap, broken, processCount, made, toWait, after, current,
                     launches, failures, finished>>
  BY DEF WaitEnds, groupVars
<1>2. Living' = Living
  BY <1>1 DEF Living
<1>3. LaunchOK'
  <2>1. MaxLaunches \in Nat /\ launches \in Nat /\ made \in Nat
    BY SchedulerAssumption DEF SchedInv, SchedTypes
  <2>2. CASE after = "launch"
    BY <1>1, <1>2, <2>1, <2>2 DEF SchedInv, LaunchOK, Launching, Chosen
  <2>3. CASE after # "launch"
    BY <1>1, <1>2, <2>1, <2>3 DEF SchedInv, LaunchOK, Launching, Chosen
  <2>4. QED
    BY <2>2, <2>3
<1>4. QED
  BY <1>1, <1>2, <1>3, GroupKept DEF SchedInv, SchedTypes

LEMMA CallsInv ==
  ASSUME SchedInv, SetSerial \/ SetParallel \/ WaitAll
                   \/ (\E n \in Counts : SetParallelProcessCount(n))
  PROVE  SchedInv'
<1>1. processCount \in Nat
  BY DEF SchedInv, SchedTypes
<1>2. \E n \in Nat, next \in {"idle", "serial", "parallel"} : WaitUntil(n, next)
  BY <1>1 DEF SetSerial, SetParallel, WaitAll, SetParallelProcessCount
<1>3. QED
  BY <1>2, WaitUntilInv

LEMMA SchedNext == SchedInv /\ [Next]_vars => SchedInv'
<1> SUFFICES ASSUME SchedInv, [Next]_vars PROVE SchedInv'
  OBVIOUS
<1>1. CASE NewProcess
  BY <1>1, NewProcessInv
<1>2. CASE Launch
  BY <1>2, LaunchInv
<1>3. CASE LaunchFails
  BY <1>3, LaunchFailsInv
<1>4. ASSUME NEW i \in Ids, WaitProcess(i) PROVE SchedInv'
  BY <1>4, WaitProcessInv
<1>5. CASE WaitNobody
  BY <1>5, WaitNobodyInv
<1>6. CASE WaitEnds
  BY <1>6, WaitEndsInv
<1>7. CASE SetSerial \/ SetParallel \/ WaitAll \/ (\E n \in Counts : SetParallelProcessCount(n))
  BY <1>7, CallsInv
<1>8. ASSUME NEW i \in Ids, Ends(i) PROVE SchedInv'
  BY <1>8, EndsInv
<1>9. CASE UNCHANGED vars
  <2>1. Living' = Living
    BY <1>9 DEF vars, groupVars, Living
  <2>2. LaunchOK'
    BY <1>9, <2>1 DEF vars, groupVars, SchedInv, LaunchOK, Launching, Chosen
  <2>3. QED
    BY <1>9, <2>1, <2>2, GroupKept DEF vars, groupVars, SchedInv, SchedTypes
<1>10. QED
  BY <1>1, <1>2, <1>3, <1>4, <1>5, <1>6, <1>7, <1>8, <1>9 DEF Next, Working
-----------------------------------------------------------------------------
(* SchedInv holds in every state, for all launches and all failures.       *)
THEOREM SchedInvariance == Spec => []SchedInv
<1>1. QED
  BY InitSched, SchedNext, PTL DEF Spec

(* process_count is never less than the number of children that were not   *)
(* waited for, and is that number until a fork fails.                      *)
THEOREM CountRight == Spec => []ChildrenCounted
<1>1. SchedInv => ChildrenCounted
  BY CountsStep DEF SchedInv, Counted, ChildrenCounted
<1>2. QED
  BY <1>1, SchedInvariance, PTL

(* on_finished is called once for every launch that was waited for.        *)
THEOREM FinishedRight == Spec => []FinishedOnce
<1>1. SchedInv => FinishedOnce
  BY DEF SchedInv
<1>2. QED
  BY <1>1, SchedInvariance, PTL
-----------------------------------------------------------------------------
(* The number of processes is set to one value at most: a smaller one      *)
(* would not end the processes that run.                                   *)
OneCount == \A m, n \in Counts : m = n

(* While execute waits there is room for one less, and while set_serial    *)
(* waits there are at most as many processes as it waits for, and one.     *)
MaxInv ==
  /\ parallelProcessCount \in Counts \union {1} /\ isSerial \in BOOLEAN
  /\ WithinMaximum
  /\ Chosen => Cardinality(Living) < maximum_process_count
  /\ pc = "wait" /\ after = "serial" => Cardinality(Living) <= 1 + toWait

LEMMA Maximum ==
  ASSUME NEW k \in Counts \union {1}, NEW b \in BOOLEAN
  PROVE  k \in Nat /\ k >= 1 /\ (IF b THEN Min({k, 1}) ELSE k) = IF b THEN 1 ELSE k
<1>1. k \in Nat /\ k >= 1
  BY SchedulerAssumption
<1>2. QED
  BY <1>1, MinMax

LEMMA InitMax == Init => MaxInv
<1>1. ASSUME Init PROVE MaxInv
  <2>1. Living = {}
    BY <1>1 DEF Init, GroupInit, Living
  <2>2. Cardinality(Living) = 0
    BY <2>1, FS_EmptySet
  <2>3. maximum_process_count = 1
    BY <1>1 DEF Init, maximum_process_count
  <2>4. ~Chosen /\ pc # "wait"
    BY <1>1 DEF Init, Chosen
  <2>5. parallelProcessCount \in Counts \union {1} /\ isSerial \in BOOLEAN
    BY <1>1 DEF Init
  <2>6. QED
    BY <2>2, <2>3, <2>4, <2>5 DEF MaxInv, WithinMaximum
<1>2. QED
  BY <1>1

LEMMA MaxNext == ASSUME OneCount, SchedInv, MaxInv, [Next]_vars PROVE MaxInv'
<1> DEFINE card == Cardinality(Living)
           par  == parallelProcessCount
           most == IF isSerial THEN 1 ELSE par
<1>1. /\ par \in Counts \union {1} /\ par \in Nat /\ par >= 1 /\ isSerial \in BOOLEAN
      /\ maximum_process_count = most
  BY Maximum DEF MaxInv, maximum_process_count
<1>2. card \in Nat /\ processCount \in Nat /\ toWait \in Nat /\ card <= processCount
  BY CountsStep DEF SchedInv, SchedTypes
<1>3. /\ card <= most /\ (Chosen => card < most)
      /\ pc = "wait" /\ after = "serial" => card <= 1 + toWait
  BY <1>1 DEF MaxInv, WithinMaximum
\* What has to be shown of a step, in numbers.
<1>4. ASSUME par' \in Counts \union {1}, isSerial' \in BOOLEAN, card' <= most',
             Chosen' => card' < most',
             pc' = "wait" /\ after' = "serial" => card' <= 1 + toWait'
      PROVE  MaxInv'
  <2>1. maximum_process_count' = most'
    BY <1>4, Maximum DEF maximum_process_count
  <2>2. QED
    BY <1>4, <2>1 DEF MaxInv, WithinMaximum
\* A step that leaves child alone leaves the children alone.
<1>5. UNCHANGED child => card' = card
  BY DEF Living
<1>6. CASE NewProcess
  <2>1. pc = "idle" /\ UNCHANGED <<child, parallelProcessCount, isSerial, processCount>>
    BY <1>6 DEF NewProcess, groupVars, counts
  <2>2. CASE HasRoom
    <3>1. pc' = "launch" /\ processCount < maximum_process_count
      BY <1>6, <2>2 DEF NewProcess, HasRoom
    <3>2. card < most
      BY <1>1, <1>2, <3>1
    <3>3. QED
      BY <1>1, <1>3, <1>4, <1>5, <2>1, <3>1, <3>2
  <2>3. CASE ~HasRoom
    <3>1. pc' = "wait" /\ after' = "launch" /\ toWait' = 1
      BY <1>6, <2>3 DEF NewProcess
    <3>2. ~Chosen'
      BY <3>1 DEF Chosen
    <3>3. QED
      BY <1>1, <1>3, <1>4, <1>5, <2>1, <3>1, <3>2
  <2>4. QED
    BY <2>2, <2>3
<1>7. CASE Launch
  <2>1. pc = "launch" /\ pc' = "idle" /\ UNCHANGED <<parallelProcessCount, isSerial>>
    BY <1>7 DEF Launch, Launched, counts
  <2>2. card' = card + 1
    <3>1. PICK i \in Ids : child[i] = "none" /\ child' = [child EXCEPT ![i] = "running"]
      BY <1>7 DEF Launch, Executed
    <3>2. Living' = Living \union {i} /\ i \notin Living
      BY <3>1 DEF SchedInv, SchedTypes, Living
    <3>3. QED
      BY <3>2, LivingCount DEF SchedInv
  <2>3. card < most
    BY <1>3, <2>1 DEF Chosen
  <2>4. card' <= most'
    BY <1>1, <1>2, <2>1, <2>2, <2>3
  <2>5. QED
    BY <1>1, <1>4, <2>1, <2>4 DEF Chosen
<1>8. CASE LaunchFails
  <2>1. pc' = "idle" /\ UNCHANGED <<child, parallelProcessCount, isSerial>>
    BY <1>8 DEF LaunchFails, Launched, ExecuteFailed, counts
  <2>2. QED
    BY <1>1, <1>3, <1>4, <1>5, <2>1 DEF Chosen
<1>9. ASSUME NEW i \in Ids, WaitProcess(i) PROVE MaxInv'
  <2>1. /\ pc = "wait" /\ toWait > 0 /\ toWait' = toWait - 1
        /\ UNCHANGED <<pc, after, parallelProcessCount, isSerial>>
    BY <1>9 DEF WaitProcess, counts
  <2>2. card' = card - 1
    <3>1. child[i] = "zombie" /\ child' = Reaped(i)
      BY <1>9 DEF WaitProcess, GroupWaits
    <3>2. Living' = Living \ {i} /\ i \in Living
      BY <3>1 DEF SchedInv, SchedTypes, Living, Reaped
    <3>3. QED
      BY <3>2, LivingCount DEF SchedInv
  <2>3. card' < most'
    BY <1>1, <1>2, <1>3, <2>1, <2>2
  <2>4. pc' = "wait" /\ after' = "serial" => card' <= 1 + toWait'
    BY <1>2, <1>3, <2>1, <2>2
  <2>5. card' <= most'
    BY <1>1, <1>2, <1>3, <2>1, <2>2
  <2>6. QED
    BY <1>1, <1>4, <2>1, <2>3, <2>4, <2>5
<1>10. CASE WaitNobody
  <2>1. pc' = "crashed" /\ UNCHANGED <<child, parallelProcessCount, isSerial>>
    BY <1>10 DEF WaitNobody, groupVars, counts
  <2>2. QED
    BY <1>1, <1>3, <1>4, <1>5, <2>1 DEF Chosen
<1>11. CASE WaitEnds
  <2>1. /\ pc = "wait" /\ toWait = 0 /\ pc' = IF after = "launch" THEN "launch" ELSE "idle"
        /\ isSerial' = (after = "serial" \/ (isSerial /\ after # "parallel"))
        /\ UNCHANGED <<child, parallelProcessCount>>
    BY <1>11 DEF WaitEnds, groupVars
  <2>2. isSerial' \in BOOLEAN /\ (isSerial' <=> after = "serial" \/ (isSerial /\ after # "parallel"))
    BY <2>1
  <2>3. CASE after = "serial"
    BY <1>1, <1>2, <1>3, <1>4, <1>5, <2>1, <2>2, <2>3 DEF Chosen
  <2>4. CASE after = "parallel"
    BY <1>1, <1>2, <1>3, <1>4, <1>5, <2>1, <2>2, <2>4 DEF Chosen
  <2>5. CASE after \notin {"serial", "parallel"}
    BY <1>1, <1>2, <1>3, <1>4, <1>5, <2>1, <2>2, <2>5 DEF Chosen
  <2>6. QED
    BY <2>3, <2>4, <2>5
<1>12. CASE SetSerial
  <2>1. /\ pc' = "wait" /\ after' = "serial" /\ toWait' = ToWait(1)
        /\ UNCHANGED <<child, parallelProcessCount, isSerial>>
    BY <1>12 DEF SetSerial, WaitUntil, groupVars
  <2>2. toWait' = IF 0 <= processCount - 1 THEN processCount - 1 ELSE 0
    <3>1. processCount - 1 \in Int
      BY <1>2
    <3>2. Max({0, processCount - 1}) = IF 0 <= processCount - 1 THEN processCount - 1 ELSE 0
      BY <3>1, MinMax
    <3>3. QED
      BY <2>1, <3>2 DEF ToWait
  <2>3. QED
    BY <1>1, <1>2, <1>3, <1>4, <1>5, <2>1, <2>2 DEF Chosen
<1>13. CASE SetParallel \/ WaitAll
  <2>1. /\ pc' = "wait" /\ after' \in {"idle", "parallel"}
        /\ UNCHANGED <<child, parallelProcessCount, isSerial>>
    BY <1>13 DEF SetParallel, WaitAll, WaitUntil, groupVars
  <2>2. QED
    BY <1>1, <1>2, <1>3, <1>4, <1>5, <2>1 DEF Chosen
<1>14. ASSUME NEW n \in Counts, SetParallelProcessCount(n) PROVE MaxInv'
  <2>1. /\ pc' = "wait" /\ after' = "idle" /\ parallelProcessCount' = n
        /\ UNCHANGED <<child, isSerial>>
    BY <1>14 DEF SetParallelProcessCount, WaitUntil, groupVars
  <2>2. n \in Nat /\ n >= par
    BY <1>1, SchedulerAssumption DEF OneCount
  <2>3. card' <= most'
    BY <1>1, <1>2, <1>3, <1>5, <2>1, <2>2
  <2>4. QED
    BY <1>1, <1>4, <2>1, <2>3 DEF Chosen
<1>15. ASSUME NEW i \in Ids, Ends(i) PROVE MaxInv'
  <2>1. /\ child[i] = "running" /\ child' = [child EXCEPT ![i] = "zombie"]
        /\ UNCHANGED <<pc, after, toWait, parallelProcessCount, isSerial>>
    BY <1>15 DEF Ends, ChildEnds, counts
  <2>2. Living' = Living
    BY <2>1 DEF SchedInv, SchedTypes, Living
  <2>3. card' = card
    BY <2>2
  <2>4. QED
    BY <1>1, <1>3, <1>4, <2>1, <2>3 DEF Chosen
<1>16. CASE UNCHANGED vars
  <2>1. UNCHANGED <<child, pc, after, toWait, parallelProcessCount, isSerial>>
    BY <1>16 DEF vars, groupVars, counts
  <2>2. QED
    BY <1>1, <1>3, <1>4, <1>5, <2>1 DEF Chosen
<1>17. QED
  BY <1>6, <1>7, <1>8, <1>9, <1>10, <1>11, <1>12, <1>13, <1>14, <1>15, <1>16 DEF Next, Working

(* There are never more children than maximum_process_count, through all   *)
(* changes of mode, when the number is set to one value.                   *)
THEOREM NeverMore == OneCount /\ Spec => []WithinMaximum
<1>1. ASSUME OneCount PROVE Spec => []WithinMaximum
  <2>1. SchedInv /\ MaxInv /\ [Next]_vars => MaxInv'
    BY <1>1, MaxNext
  <2>2. MaxInv => WithinMaximum
    BY DEF MaxInv
  <2>3. QED
    BY <2>1, <2>2, InitMax, SchedInvariance, PTL DEF Spec
<1>2. QED
  BY <1>1
-----------------------------------------------------------------------------
(* WAITPID_JOB                                                             *)

Places == {"turn", "wait", "query", "timeout", "drain", "reap", "fire"}

JobTypes ==
  /\ childState \in [Children -> {"running", "zombie", "reaped"}]
  /\ handler \in BOOLEAN /\ sigchld \in BOOLEAN /\ pipe \in Nat
  /\ unheard \subseteq Children
  /\ armed \in BOOLEAN /\ triggered \in BOOLEAN /\ running \in BOOLEAN
  /\ timeoutEvent \in BOOLEAN
  /\ oob \in Seq(Children) /\ stage \in Places /\ reports \in [Children -> Nat]

(* Queued(c): the end of c is in oob_info_pid, waiting to be reported.     *)
Queued(c) == \E i \in DOMAIN oob : oob[i] = c

(* What is queued was reaped, is there once, and was not reported yet; the *)
(* queue is filled when the stream is read and emptied by `continue'.      *)
QueueOK ==
  /\ \A i \in DOMAIN oob : childState[oob[i]] = "reaped"
  /\ \A i, k \in DOMAIN oob : oob[i] = oob[k] => i = k
  /\ stage \notin {"reap", "fire"} => oob = <<>>
  /\ \A c \in Children :
       reports[c] = IF childState[c] = "reaped" /\ ~Queued(c) THEN 1 ELSE 0

(* A timeout is reported, and data read, only while the job runs.          *)
RunningOK ==
  /\ stage \in {"timeout", "drain", "reap", "fire"} => running
  /\ stage \in {"drain", "reap", "fire"} => ~timeoutEvent

(* The pipe is drained before the children are reaped: a signal that comes *)
(* in between leaves a byte.                                               *)
JobInv == JobTypes /\ QueueOK /\ RunningOK /\ EndAnnounced /\ ArmedOrTriggered
-----------------------------------------------------------------------------
(* How often c is in the queue that `continue' reports.                    *)
LEMMA CountedOnce ==
  ASSUME JobInv, NEW c \in Children
  PROVE  Cardinality({i \in DOMAIN oob : oob[i] = c}) = IF Queued(c) THEN 1 ELSE 0
<1>1. CASE Queued(c)
  <2>1. PICK i \in DOMAIN oob : oob[i] = c
    BY <1>1 DEF Queued
  <2>2. {k \in DOMAIN oob : oob[k] = c} = {i}
    BY <2>1 DEF JobInv, QueueOK
  <2>3. QED
    BY <1>1, <2>2, FS_Singleton
<1>2. CASE ~Queued(c)
  <2>1. {k \in DOMAIN oob : oob[k] = c} = {}
    BY <1>2 DEF Queued
  <2>2. QED
    BY <1>2, <2>1, FS_EmptySet
<1>3. QED
  BY <1>1, <1>2

LEMMA InitJobInv == JobInit => JobInv
<1>1. ASSUME JobInit PROVE JobInv
  <2>1. JobTypes
    <3>1. oob \in Seq(Children) /\ stage \in Places /\ pipe \in Nat
      BY <1>1 DEF JobInit, Places
    <3>2. /\ childState \in [Children -> {"running", "zombie", "reaped"}]
          /\ reports \in [Children -> Nat]
      BY <1>1 DEF JobInit
    <3>3. QED
      BY <1>1, <3>1, <3>2 DEF JobInit, JobTypes
  <2>2. QueueOK
    BY <1>1 DEF JobInit, QueueOK
  <2>3. RunningOK /\ EndAnnounced /\ ArmedOrTriggered
    BY <1>1 DEF JobInit, RunningOK, EndAnnounced, ArmedOrTriggered
  <2>4. QED
    BY <2>1, <2>2, <2>3 DEF JobInv
<1>2. QED
  BY <1>1

(* A step that leaves the children, the queue and the reports alone.       *)
LEMMA QueueKept ==
  ASSUME QueueOK, UNCHANGED <<oob, reports>>,
         \A c \in Children : childState'[c] = "reaped" <=> childState[c] = "reaped",
         \A i \in DOMAIN oob : oob[i] \in Children,
         stage' \notin {"reap", "fire"} => oob = <<>>
  PROVE  QueueOK'
BY DEF QueueOK, Queued

LEMMA ChildEndsInv == ASSUME JobInv, NEW c \in Children, ChildExits(c) PROVE JobInv'
<1>1. JobTypes'
  BY DEF ChildExits, job, JobInv, JobTypes
<1>2. QueueOK'
  BY QueueKept DEF ChildExits, JobInv, JobTypes, QueueOK
<1>3. QED
  BY <1>1, <1>2 DEF ChildExits, job, JobInv, JobTypes, RunningOK, EndAnnounced, Announced,
     ArmedOrTriggered

LEMMA DeliverInv == ASSUME JobInv, Deliver PROVE JobInv'
<1>1. QueueOK'
  BY QueueKept DEF Deliver, JobInv, JobTypes, QueueOK
<1>2. /\ sigchld' = FALSE /\ pipe' = pipe + 1
      /\ UNCHANGED <<childState, handler, unheard, armed, triggered, running, timeoutEvent, oob,
                     stage, reports>>
  BY DEF Deliver, job
<1>3. JobTypes'
  <2>1. pipe' \in Nat
    BY <1>2 DEF JobInv, JobTypes
  <2>2. QED
    BY <1>2, <2>1 DEF JobInv, JobTypes
<1>4. EndAnnounced'
  BY <1>2 DEF JobInv, JobTypes, EndAnnounced, Announced
<1>5. RunningOK' /\ ArmedOrTriggered'
  BY <1>2 DEF JobInv, RunningOK, ArmedOrTriggered
<1>6. QED
  BY <1>1, <1>3, <1>4, <1>5 DEF JobInv

LEMMA JobCallsInv == ASSUME JobInv, Calls PROVE JobInv'
<1>1. /\ armed' \in BOOLEAN /\ triggered' \in BOOLEAN /\ ~(armed' /\ triggered')
      /\ UNCHANGED <<childState, handler, sigchld, pipe, unheard, running, timeoutEvent, oob,
                     stage, reports>>
  BY DEF Calls, Arm, Disarm, Trigger, Called, kernel, JobInv,
     JobTypes, ArmedOrTriggered
<1>2. QueueOK'
  BY <1>1, QueueKept DEF JobInv, JobTypes, QueueOK
<1>3. JobTypes'
  BY <1>1 DEF JobInv, JobTypes
<1>4. EndAnnounced' /\ RunningOK' /\ ArmedOrTriggered'
  BY <1>1 DEF JobInv, EndAnnounced, Announced, RunningOK, ArmedOrTriggered
<1>5. QED
  BY <1>2, <1>3, <1>4 DEF JobInv

(* The steps of the turn that touch neither the children nor the queue.    *)
LEMMA TurnInv ==
  ASSUME JobInv, Prepare \/ WaitAndAsk \/ WaitForOthers \/ IsReady
     \/ FireTimeout \/ Drain \/ ReapEnds
  PROVE  JobInv'
<1>1. stage' \in Places /\ oob' = oob /\ childState' = childState /\ reports' = reports
  BY DEF Prepare, WaitAndAsk, WaitForOthers, WaitReturns, IsReady,
     FireTimeout, Drain, ReapEnds, kernel, job, Places
<1>2. stage' \notin {"reap", "fire"} => oob = <<>>
  BY DEF Prepare, WaitAndAsk, WaitForOthers, WaitReturns, IsReady,
     FireTimeout, Drain, ReapEnds, JobInv, QueueOK
<1>3. QueueOK'
  BY <1>1, <1>2, QueueKept DEF JobInv, JobTypes
<1>4. CASE Prepare
  BY <1>1, <1>3, <1>4 DEF Prepare, Installed, Expecting, kernel, JobInv, JobTypes,
     RunningOK, EndAnnounced, Announced, ArmedOrTriggered
<1>5. CASE WaitAndAsk \/ WaitForOthers
  BY <1>1, <1>3, <1>5 DEF WaitAndAsk, WaitForOthers, WaitReturns, kernel,
     job, JobInv, JobTypes, RunningOK, EndAnnounced, Announced, ArmedOrTriggered
<1>6. CASE IsReady
  BY <1>1, <1>3, <1>6 DEF IsReady, TimeoutOccurred, kernel, JobInv, JobTypes,
     RunningOK, EndAnnounced, Announced, ArmedOrTriggered
<1>7. CASE FireTimeout
  BY <1>1, <1>3, <1>7 DEF FireTimeout, TimeoutEventAfter, kernel, JobInv,
     JobTypes, RunningOK, EndAnnounced, Announced, ArmedOrTriggered
<1>8. CASE Drain
  BY <1>1, <1>3, <1>8 DEF Drain, PipeRead, job, JobInv, JobTypes, RunningOK,
     EndAnnounced, Announced, ArmedOrTriggered
<1>9. CASE ReapEnds
  BY <1>1, <1>3, <1>9 DEF ReapEnds, kernel, job, JobInv, JobTypes, RunningOK,
     EndAnnounced, Announced, ArmedOrTriggered
<1>10. QED
  BY <1>4, <1>5, <1>6, <1>7, <1>8, <1>9

(* A child is reaped once, so it was not in the queue.                     *)
LEMMA ReapInv == ASSUME JobInv, NEW c \in Children, Reap(c) PROVE JobInv'
<1>1. /\ stage = "reap" /\ stage' = "reap" /\ childState[c] = "zombie"
      /\ childState' = [childState EXCEPT ![c] = "reaped"] /\ oob' = Append(oob, c)
      /\ UNCHANGED <<handler, sigchld, pipe, unheard, armed, triggered, running, timeout,
                     timeoutEvent, reports>>
  BY DEF Reap, WithOobInfo, job
<1>2. oob \in Seq(Children) /\ childState \in [Children -> {"running", "zombie", "reaped"}]
  BY DEF JobInv, JobTypes
<1>3. /\ DOMAIN oob = 1 .. Len(oob) /\ DOMAIN oob' = 1 .. Len(oob) + 1 /\ Len(oob) \in Nat
      /\ \A i \in 1 .. Len(oob) : oob'[i] = oob[i]
      /\ oob'[Len(oob) + 1] = c
  BY <1>1, <1>2
<1>4. \A i \in DOMAIN oob : oob[i] # c /\ oob[i] \in Children
  BY <1>1, <1>2 DEF JobInv, QueueOK
<1>5. \A d \in Children : Queued(d)' <=> Queued(d) \/ d = c
  BY <1>3 DEF Queued
<1>6. reports[c] = 0
  BY <1>1 DEF JobInv, QueueOK
<1>7. QueueOK'
  <2>1. \A i \in DOMAIN oob' : childState'[oob'[i]] = "reaped"
    BY <1>1, <1>2, <1>3, <1>4 DEF JobInv, QueueOK
  <2>2. \A i, k \in DOMAIN oob' : oob'[i] = oob'[k] => i = k
    BY <1>3, <1>4 DEF JobInv, QueueOK
  <2>3. \A d \in Children :
          reports'[d] = IF childState'[d] = "reaped" /\ ~Queued(d)' THEN 1 ELSE 0
    BY <1>1, <1>2, <1>5, <1>6 DEF JobInv, QueueOK
  <2>4. QED
    BY <1>1, <2>1, <2>2, <2>3 DEF QueueOK
<1>8. JobTypes'
  BY <1>1, <1>2 DEF JobInv, JobTypes
<1>9. QED
  BY <1>1, <1>7, <1>8 DEF JobInv, RunningOK, EndAnnounced, Announced, ArmedOrTriggered

LEMMA FireWaitpidInv == ASSUME JobInv, FireWaitpid PROVE JobInv'
<1>1. /\ stage = "fire" /\ stage' = "turn" /\ oob' = <<>> /\ pipe' = pipe
      /\ reports' = [c \in Children |->
                       reports[c] + Cardinality({i \in DOMAIN oob : oob[i] = c})]
      /\ running' = (running /\ oob = <<>>)
      /\ UNCHANGED <<childState, handler, sigchld, unheard, armed, triggered, timeout,
                     timeoutEvent>>
  BY DEF FireWaitpid, OobInfoDropped, PipeRead, Cardinality, Cardinality
<1>2. \A c \in Children : reports'[c] = IF childState[c] = "reaped" THEN 1 ELSE 0
  <2>1. TAKE c \in Children
  <2>2. reports'[c] = reports[c] + IF Queued(c) THEN 1 ELSE 0
    BY <1>1, CountedOnce
  <2>3. Queued(c) => childState[c] = "reaped"
    BY DEF Queued, JobInv, QueueOK
  <2>4. QED
    BY <2>2, <2>3 DEF JobInv, QueueOK
<1>3. \A c \in Children : ~Queued(c)'
  BY <1>1 DEF Queued
<1>4. QueueOK'
  BY <1>1, <1>2, <1>3 DEF QueueOK
<1>5. reports' \in [Children -> Nat]
  BY <1>1, <1>2
<1>6. JobTypes'
  BY <1>1, <1>5 DEF JobInv, JobTypes, Places
<1>7. QED
  BY <1>1, <1>4, <1>6 DEF JobInv, RunningOK, EndAnnounced, Announced, ArmedOrTriggered

LEMMA JobNextInv == JobInv /\ [JobNext]_(jobVars) => JobInv'
<1> SUFFICES ASSUME JobInv, [JobNext]_(jobVars) PROVE JobInv'
  OBVIOUS
<1>1. ASSUME NEW c \in Children, Reap(c) PROVE JobInv'
  BY <1>1, ReapInv
<1>2. CASE FireWaitpid
  BY <1>2, FireWaitpidInv
<1>3. CASE Prepare \/ WaitAndAsk \/ WaitForOthers \/ IsReady
   \/ FireTimeout \/ Drain \/ ReapEnds
  BY <1>3, TurnInv
<1>4. CASE Calls
  BY <1>4, JobCallsInv
<1>5. CASE Deliver
  BY <1>5, DeliverInv
<1>6. ASSUME NEW c \in Children, ChildExits(c) PROVE JobInv'
  BY <1>6, ChildEndsInv
<1>7. CASE UNCHANGED jobVars
  BY <1>7 DEF jobVars, JobInv, JobTypes, QueueOK, Queued, RunningOK, EndAnnounced,
     Announced, ArmedOrTriggered
<1>8. QED
  BY <1>1, <1>2, <1>3, <1>4, <1>5, <1>6, <1>7 DEF JobNext, Loop
-----------------------------------------------------------------------------
(* JobInv holds in every state, for all children and all calls.            *)
THEOREM JobInvariance == JobSpec => []JobInv
<1>1. QED
  BY InitJobInv, JobNextInv, PTL DEF JobSpec

(* No end of a child since the SIGCHLD handler is installed is lost, and   *)
(* none at all is reported twice.                                          *)
THEOREM EndsAllAccounted == JobSpec => []EndsAccounted
<1>1. ASSUME JobInv PROVE ReportedOnce
  <2>1. \A c : c \in ToSet(oob) <=> Queued(c)
    BY DEF ToSet, Queued
  <2>2. QED
    BY <1>1, <2>1 DEF ReportedOnce, JobInv, QueueOK
<1>2. JobInv => EndsAccounted
  BY <1>1 DEF JobInv, EndsAccounted
<1>3. QED
  BY <1>2, JobInvariance, PTL

(* armed and triggered exclude each other, and a timeout_event belongs to  *)
(* a job that runs.                                                        *)
THEOREM ArmedNotTriggered == JobSpec => []ArmedOrTriggered
<1>1. JobInv => ArmedOrTriggered
  BY DEF JobInv
<1>2. QED
  BY <1>1, JobInvariance, PTL
=============================================================================
