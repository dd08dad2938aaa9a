----------------------------- MODULE LoopStack -----------------------------
(***************************************************************************)
(* The event loop of the sequencer cluster: LOOP_STACK, the LOOP_ITEMs on  *)
(* it and the JOBs in them.  LOOP_ITEM.run asks its jobs what they wait    *)
(* for, waits, and continues the ready ones of the first ready priority,   *)
(* last to first; the jobs call back into the stack.                       *)
(*                                                                         *)
(* `running' is the loop whose run is executing; current_loop, the top of  *)
(* the stack, is another one once a job has pushed or broken a loop.       *)
(* Contracts are not checked (boost mode): the calls made outside their    *)
(* precondition are collected in `broken'.                                 *)
(***************************************************************************)
EXTENDS Integers, Sequences, FiniteSets, SequencesExt

CONSTANTS
  Jobs,      \* the jobs
  Priority,  \* their priorities
  MaxLoops,  \* bound: LOOP_ITEMs created
  Programs   \* what `continue' may do: each of them a subset of AllOps

AllOps == {"finish", "finish_other", "add", "new", "push", "break", "exit"}

ASSUME LoopAssumption ==
  /\ IsFiniteSet(Jobs) /\ Priority \in [Jobs -> Int]
  /\ MaxLoops \in Nat \ {0} /\ Programs \subseteq SUBSET AllOps

VARIABLES
  loopStack, stop,  \* LOOP_STACK
  item,             \* LOOP_ITEM: pause, break, job_list, finished_jobs, per loop
  loops,            \* how many LOOP_ITEMs there are
  done,             \* JOB.done
  running,          \* the loop being run, or NoLoop
  readyJobs,        \* its ready_jobs still to be continued
  pc,
  ops,              \* which of the Programs this is
  added, broken     \* history

vars == <<loopStack, stop, item, loops, done, running, readyJobs, pc, ops, added, broken>>

Loops  == 1 .. MaxLoops
NoLoop == 0
Void   == NoLoop

current_loop == IF loopStack = <<>> THEN Void ELSE Last(loopStack)

Made == [pause |-> TRUE, break |-> FALSE, jobList |-> <<>>, finished |-> <<>>]

Init ==
  /\ loopStack = <<1>> /\ stop = FALSE /\ loops = 1
  /\ item = [l \in Loops |-> Made]
  /\ done = [j \in Jobs |-> FALSE]
  /\ running = NoLoop /\ readyJobs = <<>> /\ pc = "idle"
  /\ ops \in Programs /\ added = {} /\ broken = {}

(* The contracts that a step breaks.                                       *)
Require(b, contract) == IF b THEN {} ELSE {contract}
-----------------------------------------------------------------------------
(***************************************************************************)
(* LOOP_STACK.run and LOOP_ITEM.run                                        *)
(***************************************************************************)
Run ==
  /\ pc = "idle" /\ current_loop # Void
  /\ stop' = FALSE /\ pc' = "stack"
  /\ UNCHANGED <<loopStack, item, loops, done, running, readyJobs, added, broken, ops>>

RunEnds ==
  /\ pc = "stack" /\ (stop \/ loopStack = <<>>)
  /\ pc' = "idle"
  /\ UNCHANGED <<loopStack, stop, item, loops, done, running, readyJobs, added, broken, ops>>

(* current_loop.run: require pause and not break                           *)
StartLoop ==
  LET l == current_loop IN
  /\ pc = "stack" /\ ~stop /\ l # Void
  /\ item' = [item EXCEPT ![l].pause = FALSE, ![l].break = FALSE]
  /\ running' = l /\ pc' = "loop"
  /\ broken' = broken \union Require(item[l].pause /\ ~item[l].break, "run")
  /\ UNCHANGED <<loopStack, stop, loops, done, readyJobs, added, ops>>

(* Mutant: a loop without jobs goes on.                                    *)
LoopOverUnlessEmpty(l) == item[l].pause \/ item[l].break
LoopOver(l) == item[l].pause \/ item[l].break \/ item[l].jobList = <<>>

(* LOOP_ITEM.run has returned; a loop that is not paused is taken off.     *)
LoopEnds ==
  LET l == current_loop IN
  /\ pc = "loop" /\ LoopOver(running)
  /\ loopStack' = IF l # Void /\ ~item[l].pause THEN Front(loopStack) ELSE loopStack
  /\ running' = NoLoop /\ pc' = "stack"
  /\ UNCHANGED <<stop, item, loops, done, readyJobs, added, broken, ops>>

(* The jobs of list that are in S, in their order.                         *)
Kept(list, S) ==
  LET k[n \in 0 .. Len(list)] ==
        IF n = 0 THEN <<>>
        ELSE IF list[n] \in S THEN Append(k[n - 1], list[n]) ELSE k[n - 1]
  IN  k[Len(list)]

(* The ready jobs that have the priority of the first ready one.           *)
Selected(list, ready) ==
  LET isReady == Kept(list, ready)
  IN  Kept(isReady, {j \in Jobs : Priority[j] = Priority[isReady[1]]})

(* The jobs that stay in job_list, and the ones that go to finished_jobs;  *)
(* mutant: a job that is done is forgotten.                                *)
Stay(list) == Kept(list, {j \in Jobs : ~done[j]})
OverForgotten(list) == <<>>
Over(list) == Kept(list, {j \in Jobs : done[j]})

(* One turn: jobs that are done go to finished_jobs, the others are        *)
(* prepared, events.wait returns because some event has happened, and the  *)
(* ready jobs are selected.                                                *)
Select ==
  LET l == running
      list == Stay(item[l].jobList)
      over == Over(item[l].jobList)
  IN
  /\ pc = "loop" /\ ~LoopOver(l)
  /\ item' = [item EXCEPT ![l].jobList = list, ![l].finished = @ \o over]
  /\ IF list = <<>> THEN pc' = "loop" /\ UNCHANGED readyJobs
     ELSE \E ready \in SUBSET ToSet(list) \ {{}} :
            /\ readyJobs' = Selected(list, ready)
            /\ pc' = "batch"
  /\ UNCHANGED <<loopStack, stop, loops, done, running, added, broken, ops>>

(* ready_jobs.item(i).continue: require not done                           *)
Continue ==
  /\ pc = "batch" /\ readyJobs # <<>>
  /\ broken' = broken \union Require(~done[Last(readyJobs)], "continue")
  /\ pc' = "job"
  /\ UNCHANGED <<loopStack, stop, item, loops, done, running, readyJobs, added, ops>>

ContinueReturns ==
  /\ pc = "job"
  /\ readyJobs' = Front(readyJobs)
  /\ pc' = "batch"
  /\ UNCHANGED <<loopStack, stop, item, loops, done, running, added, broken, ops>>

BatchOver ==
  /\ pc = "batch" /\ readyJobs = <<>>
  /\ pc' = "loop"
  /\ UNCHANGED <<loopStack, stop, item, loops, done, running, readyJobs, added, broken, ops>>
-----------------------------------------------------------------------------
(***************************************************************************)
(* What the job that continues may do.                                     *)
(***************************************************************************)
MayCall(op) == pc = "job" /\ op \in ops

Finish ==
  /\ MayCall("finish")
  /\ done' = [done EXCEPT ![Last(readyJobs)] = TRUE]
  /\ UNCHANGED <<loopStack, stop, item, loops, running, readyJobs, pc, added, broken, ops>>

(* A job may be done because of another one: a CONNECTION is when its      *)
(* stream is disconnected.                                                 *)
FinishOther(j) ==
  /\ MayCall("finish_other") /\ j \in added /\ ~done[j]
  /\ done' = [done EXCEPT ![j] = TRUE]
  /\ UNCHANGED <<loopStack, stop, item, loops, running, readyJobs, pc, added, broken, ops>>

(* LOOP_ITEM.add_job: before the first job of a greater priority; mutant:  *)
(* at the end.                                                             *)
InsertedLast(list, j) == Append(list, j)
Inserted(list, j) ==
  LET later == {i \in DOMAIN list : Priority[list[i]] > Priority[j]}
      at == IF later = {} THEN Len(list) + 1 ELSE CHOOSE i \in later : \A k \in later : i <= k
  IN  InsertAt(list, at, j)

(* LOOP_STACK.add_job, before run too.                                     *)
AddJob(j) ==
  /\ pc = "idle" \/ MayCall("add")
  /\ j \notin added
  /\ IF current_loop = Void THEN broken' = broken \union {"void"} /\ UNCHANGED item
     ELSE /\ item' = [item EXCEPT ![current_loop].jobList = Inserted(@, j)]
          /\ UNCHANGED broken
  /\ added' = added \union {j}
  /\ UNCHANGED <<loopStack, stop, loops, done, running, readyJobs, pc, ops>>

(* current_loop.pause_loop: require not pause.                             *)
Paused == IF loopStack = <<>> THEN item ELSE [item EXCEPT ![current_loop].pause = TRUE]
PauseRequire == Require(loopStack = <<>> \/ ~item[current_loop].pause, "pause_loop")

NewLoop ==
  /\ MayCall("new") /\ loops < MaxLoops
  /\ loops' = loops + 1
  /\ loopStack' = Append(loopStack, loops + 1)
  /\ item' = Paused /\ broken' = broken \union PauseRequire
  /\ UNCHANGED <<stop, done, running, readyJobs, pc, added, ops>>

(* LOOP_ITEM.restart puts the finished jobs back, last first.              *)
PutBack(list, finished) ==
  LET n == Len(finished)
      put[k \in 0 .. n] == IF k = 0 THEN list ELSE Inserted(put[k - 1], finished[n + 1 - k])
  IN  put[n]
BackInList(l) == PutBack(Paused[l].jobList, Paused[l].finished)
Restarted(l) == [pause |-> TRUE, break |-> FALSE, finished |-> <<>>, jobList |-> BackInList(l)]

(* push_loop of a loop that was on the stack; restart requires             *)
(* not pause or break                                                      *)
PushLoop(l) ==
  /\ MayCall("push") /\ l <= loops /\ l \notin ToSet(loopStack)
  /\ loopStack' = Append(loopStack, l)
  /\ item' = [Paused EXCEPT ![l] = Restarted(l)]
  /\ done' = [j \in Jobs |-> done[j] /\ j \notin ToSet(item[l].finished)]
  /\ broken' = broken \union PauseRequire
                      \union Require(~Paused[l].pause \/ Paused[l].break, "restart")
  /\ UNCHANGED <<stop, loops, running, readyJobs, pc, added, ops>>

(* LOOP_STACK.break: require current_loop /= Void                          *)
Break ==
  /\ MayCall("break")
  /\ IF current_loop = Void
     THEN broken' = broken \union {"void"} /\ UNCHANGED <<item, loopStack>>
     ELSE /\ item' = [item EXCEPT ![current_loop].break = TRUE]
          /\ loopStack' = Front(loopStack)
          /\ UNCHANGED broken
  /\ UNCHANGED <<stop, loops, done, running, readyJobs, pc, added, ops>>

(* LOOP_STACK.exit_all: require stop = False                               *)
ExitAll ==
  /\ MayCall("exit") /\ ~stop
  /\ stop' = TRUE /\ item' = Paused
  /\ broken' = broken \union PauseRequire \union Require(current_loop # Void, "void")
  /\ UNCHANGED <<loopStack, loops, done, running, readyJobs, pc, added, ops>>
-----------------------------------------------------------------------------
Call ==
  \/ Finish \/ NewLoop \/ Break \/ ExitAll
  \/ \E j \in Jobs : FinishOther(j) \/ AddJob(j)
  \/ \E l \in Loops : PushLoop(l)

Sequence ==
  \/ Run \/ RunEnds \/ StartLoop \/ LoopEnds \/ Select \/ Continue \/ ContinueReturns
  \/ BatchOver

Next == Sequence \/ Call

(* The loop itself never waits for anything but events, and `continue' is  *)
(* "small work and non blocking"; a job that is continued again and again  *)
(* ends some day.                                                          *)
Spec ==
  /\ Init /\ [][Next]_vars
  /\ WF_vars(Sequence)
  /\ \A j \in Jobs : SF_vars(Finish /\ Last(readyJobs) = j)
-----------------------------------------------------------------------------
TypeOK ==
  /\ loopStack \in Seq(Loops) /\ stop \in BOOLEAN /\ loops \in Loops
  /\ \A l \in Loops : /\ item[l].pause \in BOOLEAN /\ item[l].break \in BOOLEAN
                      /\ item[l].jobList \in Seq(Jobs) /\ IsInjective(item[l].jobList)
                      /\ item[l].finished \in Seq(Jobs) /\ IsInjective(item[l].finished)
  /\ done \in [Jobs -> BOOLEAN] /\ running \in Loops \union {NoLoop}
  /\ readyJobs \in Seq(Jobs) /\ pc \in {"idle", "stack", "loop", "batch", "job"}
  /\ added \subseteq Jobs /\ ops \in Programs
  /\ broken \subseteq {"run", "continue", "void", "pause_loop", "restart"}

(* A job that was added is in one loop, once, till that loop is broken or  *)
(* ends: the selection, the finished jobs and the restarts lose none and   *)
(* double none.                                                            *)
EveryJobOnce ==
  \A j \in added : "void" \in broken \/
    Cardinality({place \in Loops \X (1 .. 2 * Cardinality(Jobs)) :
                   LET l == place[1]
                       all == item[l].jobList \o item[l].finished
                   IN  place[2] <= Len(all) /\ all[place[2]] = j}) = 1

(* "search ready jobs (with same priority as the first ready job)"         *)
(* (loop_item.e): a batch has one priority, and as the list is sorted no   *)
(* job of the loop that is ahead of it was ready.                          *)
BatchOfOnePriority ==
  /\ \A i, k \in DOMAIN readyJobs : Priority[readyJobs[i]] = Priority[readyJobs[k]]
  /\ \A l \in Loops : \A i, k \in DOMAIN item[l].jobList :
       i < k => Priority[item[l].jobList[i]] <= Priority[item[l].jobList[k]]

(* When every job ends some day and new loops are all that jobs push, so   *)
(* does LOOP_STACK.run, with the loops that were suspended.                *)
RunReturns == pc = "stack" /\ ops \subseteq {"finish", "add", "new"} ~> pc = "idle"

(* "When a new loop is pushed, all jobs in the currently running loop are  *)
(* suspended until the new loop ends" (loop_stack.e): a job that continues *)
(* belongs to the current loop.                                            *)
OthersSuspended == [][Continue => running = current_loop]_vars

(* JOB.continue requires not done (job.e).                                 *)
ContinueRequire == "continue" \notin broken
=============================================================================
