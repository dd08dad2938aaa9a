----------------------------- MODULE ThreadPool -----------------------------
(***************************************************************************)
(* The thread pool of the run-time system (sys/runtime/c/thread.c) and its *)
(* two users: THREAD_CONTEXT.run / wait, and the collector, whose gc_start *)
(* stops every thread at a barrier, once to mark and once to sweep.        *)
(*                                                                         *)
(* A thread is named by its slot of global_thread_pool.threads; slot 0 is  *)
(* the main thread.  pc says where a thread is; what it holds is in lock   *)
(* and qlock.  The se_thread_barrier_t of a barrier is a local variable of *)
(* se_thread_barrier: its address is the creator's, frame[t] its contents, *)
(* which stay in the stack when the function has returned (live = FALSE).  *)
(* A se_thread_run_data is a cell that malloc may give out again.          *)
(***************************************************************************)
EXTENDS Integers, FiniteSets, FiniteSetsExt

CONSTANTS
  Capacity,        \* slots of the pool; thread_pool_extend is not reached
  Cells,           \* addresses malloc gives to se_thread_run_data
  Leftovers,       \* sets of slots: those in whose `running' the memory that
                   \* malloc gave is not zero; memset clears as many bytes as
                   \* there are slots, so that it reaches none of them
  Programs         \* the Eiffel programs: ops, what they do, a subset of AllOps,
                   \* and the bounds runs and collections of how often they
                   \* call se_thread_run and gc_start

AllOps == {"run", "wait", "collect", "allocate", "stop"}

MaxRuns == Max({p.runs : p \in Programs})

ASSUME PoolAssumption ==
  /\ Programs \subseteq [ops : SUBSET AllOps, runs : Nat, collections : Nat]
  /\ Programs # {} /\ IsFiniteSet(Programs)
  /\ Capacity \in Nat \ {0} /\ Capacity > MaxRuns
  /\ Leftovers \subseteq SUBSET (0 .. Capacity - 1)
  /\ Cells \subseteq Nat \ {0} /\ IsFiniteSet(Cells) /\ Cardinality(Cells) >= MaxRuns

VARIABLES
  lock, barrier, poolRunning, stop,                 \* global_thread_pool
  running, qlock, queueFirst, queueLast, queueLength,  \* its threads[]
  data,     \* se_thread_run_data, per cell
  frame,    \* se_thread_barrier_t, per creator
  gcLock,   \* gc_lock, the se_thread_lock of gc_start
  pc, ret,  \* where a thread is, and where thread_pool_barrier returns to
  at,       \* the barrier a thread waits at
  idx,      \* thread_pool_find: the slot looked at, then the slot found
  cell,     \* the cell a caller of se_thread_run or se_thread_wait looks at
  cur,      \* the cell a pool thread runs
  crossing, \* the on_crossing argument of se_thread_barrier
  notified, \* whether all the roots of a thread's stack are marked
  handles,  \* the native_data of the contexts a thread has started
  program,  \* which of the Programs this is
  leftover, \* and which of the Leftovers
  runs, queued, begun, collections

pool    == <<lock, barrier, poolRunning, stop>>
slots   == <<running, qlock, queueFirst, queueLast, queueLength>>
locals  == <<at, idx, cell, cur, crossing>>
history == <<program, leftover, runs, queued, begun, collections>>
vars    == <<pool, slots, data, frame, gcLock, pc, ret, locals, notified,
             handles, history>>

Threads == 0 .. Capacity - 1
main    == 0
None    == -1
NULL    == 0
Huge    == MaxRuns + 1      \* (size_t)~0: the queue length of the main thread

Goto(t, l) == pc' = [pc EXCEPT ![t] = l]

Init ==
  /\ lock = None /\ barrier = None /\ poolRunning = 0 /\ stop = FALSE
  /\ leftover \in Leftovers
  /\ running = [t \in Threads |-> IF t \in leftover THEN 1 ELSE 0]
  /\ qlock = [t \in Threads |-> None]
  /\ queueFirst = [t \in Threads |-> NULL]
  /\ queueLast = [t \in Threads |-> NULL]
  /\ queueLength = [t \in Threads |-> 0]
  /\ data = [d \in Cells |-> [live |-> FALSE, next |-> NULL, started |-> FALSE,
                              done |-> FALSE, run |-> 0]]
  /\ frame = [t \in Threads |-> [live |-> FALSE, count |-> 0, in |-> {}, fn |-> "mark"]]
  /\ gcLock = None
  /\ pc = [t \in Threads |-> IF t = main THEN "register" ELSE "none"]
  /\ ret = [t \in Threads |-> "user"]
  /\ at = [t \in Threads |-> None]
  /\ idx = [t \in Threads |-> 0]
  /\ cell = [t \in Threads |-> NULL]
  /\ cur = [t \in Threads |-> NULL]
  /\ crossing = [t \in Threads |-> "mark"]
  /\ notified = [t \in Threads |-> FALSE]
  /\ handles = [t \in Threads |-> {}]
  /\ program \in Programs
  /\ runs = 0 /\ queued = 0 /\ collections = 0 /\ begun = [r \in 1 .. MaxRuns |-> 0]

(* The queue of the main thread looks longer than any other, so that no    *)
(* routine is given to it; mutant: se_thread_register leaves it empty.     *)
MainQueueLengthZero == 0
MainQueueLength == Huge

(* se_thread_register: thread_pool_find gives the main thread slot 0, for  *)
(* it is free or, when memset left garbage in `running', its queue is      *)
(* empty; only a free slot is counted.                                     *)
Register ==
  /\ pc[main] = "register"
  /\ poolRunning' = IF running[main] = 0 THEN 1 ELSE 0
  /\ running' = [running EXCEPT ![main] = 3]
  /\ queueLength' = [queueLength EXCEPT ![main] = MainQueueLength]
  /\ Goto(main, "user")
  /\ UNCHANGED <<lock, barrier, stop, qlock, queueFirst, queueLast, data, frame, gcLock,
                 ret, locals, notified, handles, history>>
-----------------------------------------------------------------------------
(***************************************************************************)
(* What Eiffel code does between two calls of the run-time system.         *)
(***************************************************************************)

(* An object is created and kept in the stack: a root nobody has marked.   *)
Allocate(t) ==
  /\ pc[t] = "user" /\ "allocate" \in program.ops /\ notified[t]
  /\ notified' = [notified EXCEPT ![t] = FALSE]
  /\ UNCHANGED <<pool, slots, data, frame, gcLock, pc, ret, locals, handles, history>>

(* se_thread_checkpoint, in every routine and every loop: the barrier is   *)
(* read without the lock.                                                  *)
Checkpoint(t) ==
  /\ pc[t] = "user" /\ barrier # None
  /\ ret' = [ret EXCEPT ![t] = "user"]
  /\ Goto(t, "lock")
  /\ UNCHANGED <<pool, slots, data, frame, gcLock, locals, notified, handles, history>>

(* THREAD_CONTEXT.run, down to the lock of thread_pool_find.               *)
Run(t) ==
  /\ pc[t] = "user" /\ "run" \in program.ops /\ runs < program.runs
  /\ runs' = runs + 1
  /\ ret' = [ret EXCEPT ![t] = "find"]
  /\ Goto(t, "lock")
  /\ UNCHANGED <<pool, slots, data, frame, gcLock, locals, notified, handles,
                 program, leftover, queued, begun, collections>>

(* THREAD_CONTEXT.wait of a thread this thread has started.                *)
Wait(t) ==
  /\ pc[t] = "user" /\ "wait" \in program.ops
  /\ \E d \in handles[t] : /\ cell' = [cell EXCEPT ![t] = d]
                           /\ handles' = [handles EXCEPT ![t] = @ \ {d}]
  /\ Goto(t, "waiting")
  /\ UNCHANGED <<pool, slots, data, frame, gcLock, ret, at, idx, cur, crossing,
                 notified, history>>

(* gc_start: se_thread_lock_lock(gc_lock) comes first.                     *)
Collect(t) ==
  /\ pc[t] = "user" /\ "collect" \in program.ops
  /\ collections < program.collections
  /\ collections' = collections + 1
  /\ Goto(t, "gclock")
  /\ UNCHANGED <<pool, slots, data, frame, gcLock, ret, locals, notified, handles,
                 program, leftover, runs, queued, begun>>

(* The root procedure has returned: se_thread_stop locks the pool.         *)
Stop ==
  /\ pc[main] = "user" /\ "stop" \in program.ops /\ lock = None
  /\ lock' = main /\ stop' = TRUE
  /\ ret' = [ret EXCEPT ![main] = "create"]
  /\ Goto(main, "lock")
  /\ UNCHANGED <<barrier, poolRunning, slots, data, frame, gcLock, locals, notified,
                 handles, history>>
-----------------------------------------------------------------------------
(***************************************************************************)
(* thread_pool_barrier, and the lock its callers take.  pthread mutexes    *)
(* are not recursive: the owner waits for itself.                          *)
(***************************************************************************)
Lock(t) ==
  /\ pc[t] = "lock" /\ lock = None
  /\ lock' = t
  /\ Goto(t, "pool")
  /\ UNCHANGED <<barrier, poolRunning, stop, slots, data, frame, gcLock, ret, locals,
                 notified, handles, history>>

(* The loop of thread_pool_barrier ends when there is no barrier; mutant:  *)
(* it is not looked at again.                                              *)
NoBarrierUnchecked == TRUE
NoBarrier == barrier = None

(* There is a barrier: unlock, and wait at it.                             *)
EnterBarrier(t) ==
  /\ pc[t] = "pool" /\ barrier # None
  /\ lock' = None
  /\ at' = [at EXCEPT ![t] = barrier]
  /\ Goto(t, "arrive")
  /\ UNCHANGED <<barrier, poolRunning, stop, slots, data, frame, gcLock, ret, idx, cell,
                 cur, crossing, notified, handles, history>>

(* There is none: se_thread_checkpoint unlocks and returns, to Eiffel code *)
(* or to the queue_cond wait of an idle thread, which gives queue_lock up. *)
LeaveCheckpoint(t) ==
  /\ pc[t] = "pool" /\ NoBarrier /\ ret[t] \in {"user", "idle"}
  /\ lock' = None
  /\ qlock' = IF ret[t] = "idle" THEN [qlock EXCEPT ![t] = None] ELSE qlock
  /\ Goto(t, IF ret[t] = "idle" THEN "sleep" ELSE "user")
  /\ UNCHANGED <<barrier, poolRunning, stop, running, queueFirst, queueLast, queueLength,
                 data, frame, gcLock, ret, locals, notified, handles, history>>

StartFind(t) ==
  /\ pc[t] = "pool" /\ NoBarrier /\ ret[t] = "find"
  /\ idx' = [idx EXCEPT ![t] = 0]
  /\ Goto(t, "scan")
  /\ UNCHANGED <<pool, slots, data, frame, gcLock, ret, at, cell, cur, crossing, notified,
                 handles, history>>

(* How many threads a barrier stops; mutant: without the one that makes it.*)
BarrierCountOthers == poolRunning - 1
BarrierCount == poolRunning

(* The middle of se_thread_barrier: a barrier for the threads that run.    *)
CreateBarrier(t) ==
  /\ pc[t] = "pool" /\ NoBarrier /\ ret[t] = "create"
  /\ frame' = [frame EXCEPT ![t] = [live |-> TRUE, count |-> BarrierCount, in |-> {},
                                    fn |-> crossing[t]]]
  /\ barrier' = t /\ lock' = None
  /\ at' = [at EXCEPT ![t] = t]
  /\ Goto(t, "arrive")
  /\ UNCHANGED <<poolRunning, stop, slots, data, gcLock, ret, idx, cell, cur, crossing,
                 notified, handles, history>>

(* pthread_barrier_wait: the last of `count' threads lets all of them go.  *)
Arrive(t) ==
  LET b == at[t]
      in == frame[b].in \union {t}
      full == Cardinality(in) = frame[b].count
  IN
  /\ pc[t] = "arrive"
  /\ frame' = [frame EXCEPT ![b].in = IF full THEN {} ELSE in]
  /\ pc' = [u \in Threads |-> IF full /\ u \in in THEN "crossed"
                              ELSE IF u = t THEN "blocked" ELSE pc[u]]
  /\ UNCHANGED <<pool, slots, data, gcLock, ret, locals, notified, handles, history>>

(* thread.c:100, a participant: the function to call is read in the frame   *)
(* of the thread that has made the barrier.                                *)
ReadCrossing(t) ==
  /\ pc[t] = "crossed" /\ at[t] # t
  /\ Goto(t, frame[at[t]].fn)
  /\ UNCHANGED <<pool, slots, data, frame, gcLock, ret, locals, notified, handles, history>>

(* The creator, once through, forgets the barrier under the lock...        *)
ResetBarrier(t) ==
  /\ pc[t] = "crossed" /\ at[t] = t /\ lock = None
  /\ barrier' = None
  /\ Goto(t, "destroy")
  /\ UNCHANGED <<lock, poolRunning, stop, slots, data, frame, gcLock, ret, locals,
                 notified, handles, history>>

(* ... and destroys it, which waits for the threads that are still inside. *)
DestroyBarrier(t) ==
  /\ pc[t] = "destroy" /\ frame[t].in = {}
  /\ frame' = [frame EXCEPT ![t].live = FALSE]
  /\ Goto(t, crossing[t])
  /\ UNCHANGED <<pool, slots, data, gcLock, ret, locals, notified, handles, history>>
-----------------------------------------------------------------------------
(***************************************************************************)
(* gc_start and the two functions it has every thread call.                *)
(***************************************************************************)
GcStart(t) ==
  /\ pc[t] = "gclock" /\ gcLock = None
  /\ gcLock' = t
  /\ crossing' = [crossing EXCEPT ![t] = "mark"]
  /\ ret' = [ret EXCEPT ![t] = "create"]
  /\ Goto(t, "lock")
  /\ UNCHANGED <<pool, slots, data, frame, at, idx, cell, cur, notified, handles, history>>

(* gc_is_off, or garbage_delayed(): nothing but the lock of gc_start.      *)
GcDelayed(t) ==
  /\ pc[t] = "gclock" /\ gcLock = None
  /\ Goto(t, "user")
  /\ UNCHANGED <<pool, slots, data, frame, gcLock, ret, locals, notified, handles, history>>

(* Past a barrier, thread_pool_barrier takes the lock again.               *)
AfterCrossing == "lock"

(* mark_stack_and_registers.  A participant goes back to the loop of       *)
(* thread_pool_barrier, gc_start to its second barrier.                    *)
MarkStackAndRegisters(t) ==
  /\ pc[t] = "mark"
  /\ notified' = [notified EXCEPT ![t] = TRUE]
  /\ crossing' = IF at[t] = t THEN [crossing EXCEPT ![t] = "sweep"] ELSE crossing
  /\ Goto(t, IF at[t] = t THEN "lock" ELSE AfterCrossing)
  /\ UNCHANGED <<pool, slots, data, frame, gcLock, ret, at, idx, cell, cur, handles, history>>

(* gc_sweep.  For the thread in gc_start it is the end of the collection.  *)
GcSweep(t) ==
  /\ pc[t] = "sweep"
  /\ notified' = [notified EXCEPT ![t] = FALSE]
  /\ gcLock' = IF at[t] = t THEN None ELSE gcLock
  /\ Goto(t, IF at[t] = t THEN "user" ELSE AfterCrossing)
  /\ UNCHANGED <<pool, slots, data, frame, ret, locals, handles, history>>
-----------------------------------------------------------------------------
(***************************************************************************)
(* se_thread_run: thread_pool_find, thread_pool_start, thread_pool_run.    *)
(***************************************************************************)

(* A free slot: thread_pool_start creates the thread and waits until it    *)
(* runs.                                                                   *)
StartThread(t) ==
  LET i == idx[t] IN
  /\ pc[t] = "scan" /\ i < Capacity /\ running[i] = 0
  /\ running' = [running EXCEPT ![i] = 2]
  /\ poolRunning' = poolRunning + 1
  /\ lock' = None
  /\ pc' = [pc EXCEPT ![t] = "append", ![i] = "sleep"]
  /\ UNCHANGED <<barrier, stop, qlock, queueFirst, queueLast, queueLength, data, frame,
                 gcLock, ret, locals, notified, handles, history>>

(* A thread with nothing to do: queue_length < s, where s is 1.            *)
Idle(i) == queueLength[i] < 1

(* A used slot: its queue must be empty, else the next one is looked at.   *)
LookAtThread(t) ==
  LET i == idx[t]
      idle == Idle(i)
  IN
  /\ pc[t] = "scan" /\ i < Capacity /\ running[i] # 0 /\ qlock[i] = None
  /\ lock' = IF idle THEN None ELSE lock
  /\ idx' = IF idle THEN idx ELSE [idx EXCEPT ![t] = i + 1]
  /\ Goto(t, IF idle THEN "append" ELSE "scan")
  /\ UNCHANGED <<barrier, poolRunning, stop, slots, data, frame, gcLock, ret, at, cell, cur,
                 crossing, notified, handles, history>>

(* thread_pool_run: a new cell at the end of the queue of the thread that  *)
(* was found; the pool lock is no longer held.                             *)
AppendRun(t) ==
  LET i == idx[t] IN
  /\ pc[t] = "append" /\ qlock[i] = None
  /\ \E d \in {c \in Cells : ~data[c].live} :
       LET fresh == [live |-> TRUE, next |-> NULL, started |-> FALSE, done |-> FALSE,
                     run |-> queued + 1]
           alloc == [data EXCEPT ![d] = fresh]
           last  == queueLast[i]
       IN
       /\ data' = IF last = NULL THEN alloc ELSE [alloc EXCEPT ![last].next = d]
       /\ queueFirst' = IF last = NULL THEN [queueFirst EXCEPT ![i] = d] ELSE queueFirst
       /\ queueLast' = [queueLast EXCEPT ![i] = d]
       /\ cell' = [cell EXCEPT ![t] = d]
  /\ queueLength' = [queueLength EXCEPT ![i] = @ + 1]
  /\ queued' = queued + 1
  /\ Goto(t, "starting")
  /\ UNCHANGED <<pool, running, qlock, frame, gcLock, ret, at, idx, cur, crossing, notified,
                 handles, program, leftover, runs, begun, collections>>

(* se_thread_run returns when the cell is marked started.                  *)
RunReturns(t) ==
  /\ pc[t] = "starting" /\ data[cell[t]].started
  /\ handles' = [handles EXCEPT ![t] = @ \union {cell[t]}]
  /\ ret' = [ret EXCEPT ![t] = "user"]
  /\ Goto(t, "user")
  /\ UNCHANGED <<pool, slots, data, frame, gcLock, locals, notified, history>>

(* se_thread_wait returns when it is marked done, and frees it.            *)
WaitReturns(t) ==
  /\ pc[t] = "waiting" /\ data[cell[t]].done
  /\ data' = [data EXCEPT ![cell[t]].live = FALSE]
  /\ Goto(t, "user")
  /\ UNCHANGED <<pool, slots, frame, gcLock, ret, locals, notified, handles, history>>
-----------------------------------------------------------------------------
(***************************************************************************)
(* thread_pool_thread_unqueue, the loop of a pool thread.  "sleep" is the  *)
(* wait on queue_cond, with a timeout of about a second.                   *)
(***************************************************************************)

(* The checkpoint of an idle thread is made with queue_lock held.          *)
IdleCheckpoint(w) ==
  /\ pc[w] = "sleep" /\ qlock[w] = None /\ queueFirst[w] = NULL /\ ~stop /\ barrier # None
  /\ qlock' = [qlock EXCEPT ![w] = w]
  /\ ret' = [ret EXCEPT ![w] = "idle"]
  /\ Goto(w, "lock")
  /\ UNCHANGED <<pool, running, queueFirst, queueLast, queueLength, data, frame, gcLock,
                 locals, notified, handles, history>>

(* The thread sees the stop flag while it has nothing to do, and ends.     *)
EndThread(w) ==
  /\ pc[w] = "sleep" /\ qlock[w] = None /\ queueFirst[w] = NULL /\ stop
  /\ Goto(w, "ended")
  /\ UNCHANGED <<pool, slots, data, frame, gcLock, ret, locals, notified, handles, history>>

Unqueue(w) ==
  /\ pc[w] = "sleep" /\ qlock[w] = None /\ queueFirst[w] # NULL
  /\ cur' = [cur EXCEPT ![w] = queueFirst[w]]
  /\ Goto(w, "begin")
  /\ UNCHANGED <<pool, slots, data, frame, gcLock, ret, at, idx, cell, crossing, notified,
                 handles, history>>

(* thread_run sets is_started and calls thread_pool_thread_signal.         *)
Begin(w) ==
  /\ pc[w] = "begin"
  /\ data' = [data EXCEPT ![cur[w]].started = TRUE]
  /\ begun' = [begun EXCEPT ![data[cur[w]].run] = @ + 1]
  /\ Goto(w, "user")
  /\ UNCHANGED <<pool, slots, frame, gcLock, ret, locals, notified, handles, program,
                 leftover, runs, queued, collections>>

(* thread_run returns, is_finished set; `done' is signalled.               *)
Finish(w) ==
  /\ pc[w] = "user" /\ w # main
  /\ data' = [data EXCEPT ![cur[w]].done = TRUE]
  /\ handles' = [handles EXCEPT ![w] = {}]
  /\ Goto(w, "dequeue")
  /\ UNCHANGED <<pool, slots, frame, gcLock, ret, locals, notified, history>>

(* The ends of the queue once its first cell is out; mutants: the last one *)
(* is not reset, or the first one stays.                                   *)
FirstKept(w, next) == queueFirst[w]
First(w, next) == next
LastKept(w, next) == queueLast[w]
Last(w, next) == IF next = NULL THEN NULL ELSE queueLast[w]

(* Only now does the cell leave the queue: data->next is read, and the     *)
(* thread that waited for `done' may have freed the cell.                  *)
Dequeue(w) ==
  LET next == data[cur[w]].next IN
  /\ pc[w] = "dequeue" /\ qlock[w] = None
  /\ queueFirst' = [queueFirst EXCEPT ![w] = First(w, next)]
  /\ queueLast' = [queueLast EXCEPT ![w] = Last(w, next)]
  /\ queueLength' = [queueLength EXCEPT ![w] = @ - 1]
  /\ Goto(w, "sleep")
  /\ UNCHANGED <<pool, running, qlock, data, frame, gcLock, ret, locals, notified, handles,
                 history>>
-----------------------------------------------------------------------------
(* What a thread does by itself once it is in the run-time system.         *)
Step(t) ==
  \/ Lock(t) \/ EnterBarrier(t) \/ LeaveCheckpoint(t) \/ StartFind(t) \/ CreateBarrier(t)
  \/ Arrive(t) \/ ReadCrossing(t) \/ ResetBarrier(t) \/ DestroyBarrier(t)
  \/ GcStart(t) \/ GcDelayed(t) \/ MarkStackAndRegisters(t) \/ GcSweep(t)
  \/ StartThread(t) \/ LookAtThread(t) \/ AppendRun(t) \/ RunReturns(t) \/ WaitReturns(t)
  \/ IdleCheckpoint(t) \/ EndThread(t) \/ Unqueue(t) \/ Begin(t) \/ Dequeue(t)

UserStep(t) == Allocate(t) \/ Run(t) \/ Wait(t) \/ Collect(t)

Next ==
  \/ Register \/ Stop
  \/ \E t \in Threads : UserStep(t) \/ Checkpoint(t) \/ Finish(t) \/ Step(t)

(* Fairness.  The system runs every thread that can run; Eiffel code calls *)
(* se_thread_checkpoint in every routine and loop, and a thread's routine  *)
(* returns.  A mutex is not fair, but only finitely many calls compete.    *)
Fairness ==
  /\ WF_vars(Register) /\ WF_vars(Stop)
  /\ \A t \in Threads : WF_vars(Step(t)) /\ WF_vars(Checkpoint(t)) /\ WF_vars(Finish(t))

Spec == Init /\ [][Next]_vars /\ Fairness
-----------------------------------------------------------------------------
(***************************************************************************)
(* Properties.                                                             *)
(***************************************************************************)
Labels == {"none", "register", "user", "lock", "pool", "arrive", "blocked", "crossed",
           "mark", "sweep", "destroy", "gclock", "scan", "append", "starting", "waiting",
           "sleep", "begin", "dequeue", "ended"}

TypeOK ==
  /\ lock \in Threads \union {None} /\ barrier \in Threads \union {None}
  /\ gcLock \in Threads \union {None}
  /\ poolRunning \in 0 .. Capacity /\ stop \in BOOLEAN
  /\ running \in [Threads -> 0 .. 3]
  /\ qlock \in [Threads -> Threads \union {None}]
  /\ queueFirst \in [Threads -> Cells \union {NULL}]
  /\ queueLast \in [Threads -> Cells \union {NULL}]
  /\ queueLength \in [Threads -> 0 .. Huge]
  /\ data \in [Cells -> [live : BOOLEAN, next : Cells \union {NULL}, started : BOOLEAN,
                         done : BOOLEAN, run : 0 .. MaxRuns]]
  /\ frame \in [Threads -> [live : BOOLEAN, count : 0 .. Capacity, in : SUBSET Threads,
                            fn : {"mark", "sweep"}]]
  /\ pc \in [Threads -> Labels]
  /\ ret \in [Threads -> {"user", "idle", "find", "create"}]
  /\ at \in [Threads -> Threads \union {None}]
  /\ idx \in [Threads -> 0 .. Capacity]
  /\ cell \in [Threads -> Cells \union {NULL}] /\ cur \in [Threads -> Cells \union {NULL}]
  /\ crossing \in [Threads -> {"mark", "sweep"}]
  /\ notified \in [Threads -> BOOLEAN] /\ handles \in [Threads -> SUBSET Cells]
  /\ runs \in 0 .. MaxRuns /\ queued \in 0 .. MaxRuns
  /\ program \in Programs /\ leftover \in Leftovers /\ collections \in 0 .. program.collections
  /\ begun \in [1 .. MaxRuns -> Nat]

(* A barrier stands for all the threads there are: none is started between *)
(* its creation, where they are counted, and its end, for thread_pool_find *)
(* waits at it.  The pool counts the main thread only if its slot looked   *)
(* free when it registered: this and CrossTogether are about pools where   *)
(* it did, whatever malloc left in the other slots.                        *)
BarrierCountsAll ==
  main \notin leftover => \A b \in Threads : barrier = b =>
    frame[b].count = Cardinality({t \in Threads : running[t] \in {2, 3}})

(* A thread is let through a barrier only together with every other one:   *)
(* no thread is in Eiffel code when the first of them gets through.        *)
CrossTogether ==
  [][main \notin leftover =>
       \A t \in Threads : pc[t] # "crossed" /\ pc'[t] = "crossed" =>
         \A u \in Threads : running[u] \in {2, 3} => pc'[u] = "crossed"]_vars

(* Every queue is a chain of cells of its own: empty in its three fields   *)
(* at once, ended by its last cell, and no cell is in two queues or freed, *)
(* also in a slot that was taken for a thread and has none.                *)
(* This and RunOnce hold in programs that do not call THREAD_CONTEXT.wait. *)
QueuesSound ==
  "wait" \notin program.ops => \A t \in Threads \ {main} :
    /\ queueFirst[t] = NULL <=> queueLength[t] = 0
    /\ queueLast[t] = NULL <=> queueLength[t] = 0
    /\ queueLast[t] # NULL => data[queueLast[t]].next = NULL
    /\ queueFirst[t] # NULL =>
         /\ data[queueFirst[t]].live
         /\ \A u \in Threads : u # t => queueFirst[u] # queueFirst[t]

(* A routine given to se_thread_run is begun once, on one thread.          *)
RunOnce == "wait" \notin program.ops => \A r \in 1 .. MaxRuns : begun[r] <= 1

(* A routine is begun once even when threads wait for it: "The returned    *)
(* context gives some information on the running thread" (thread.e).       *)
WaitedRunOnce == \A r \in 1 .. MaxRuns : begun[r] <= 1

(* A call of THREAD_CONTEXT.run returns, whoever else is looking for a     *)
(* thread, if no collection interferes and all slots looked free at first. *)
StartReturns ==
  \A t \in Threads :
    ret[t] = "find" /\ program.ops = {"run"} /\ leftover = {} ~> ret[t] = "user"

(* "Starts the thread.  The returned context gives some information on the *)
(* running thread." (thread.e): a call of THREAD_CONTEXT.run returns,      *)
(* whatever malloc left in the slots.                                      *)
StartsThread ==
  \A t \in Threads : ret[t] = "find" /\ program.ops = {"run"} ~> ret[t] = "user"

(* A call of THREAD_CONTEXT.run ("Starts the thread", thread.e) that holds *)
(* the pool's lock and looks at the queue of an idle thread never waits    *)
(* for one that holds its queue lock and waits for the pool's.             *)
FindProceeds ==
  ~ \E t, u \in Threads :
      /\ lock = t /\ pc[t] = "scan" /\ idx[t] = u
      /\ qlock[u] = u /\ pc[u] = "lock" /\ ret[u] = "idle"

(* What a program calls returns: the start of a thread, the wait for one   *)
(* ("Wait for the thread to finish", thread_context.e), a collection       *)
(* ("Force a full collection cycle", memory.e), the end of the program.    *)
InCall(t) == pc[t] \notin {"none", "register", "user", "sleep", "begin", "dequeue", "ended"}
CallsReturn == \A t \in Threads : InCall(t) ~> ~InCall(t)

(* mark_stack_and_registers "is supposed to notify the GC with all the     *)
(* possible roots one can find in the C stack" (gc_lib.c:48): a thread     *)
(* that sweeps has marked its stack, and has put nothing there since.      *)
RootsNotified == \A t \in Threads : pc[t] = "sweep" => notified[t]
=============================================================================
