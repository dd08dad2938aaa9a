# A TLA+ development for Liberty Eiffel

Liberty Eiffel is a compiler from Eiffel to C, the C runtime its programs run
on, and the Eiffel class library.  What makes the system correct at run time,
and is hardest to test, is where control leaves the straight line: the
SmartEiffel garbage collector (half of it C, `sys/runtime/c/gc_lib.c`, half of it
emitted by the compiler for each live type,
`src/smarteiffel/generation/c/memory/se/`), the thread pool it stops at a barrier
(`sys/runtime/c/thread.c`), and the event loop of the library with what is built
on it: events, child processes, network servers.  Those are modelled here.

## 1. Inventory

| Component | State | Operations | Interactions | What is hard |
|---|---|---|---|---|
| Fixed-size object heap (`gc_lib.c`, `c_garbage_collector_functions_compiler.e`, `gc_handler.e`) | chunk table `gcmt`, free chunks `fsocfl`, per type `gc_free`, `store`, `store_left`, `store_chunk`, headers, ceilings | `newXXX`, `gc_fsoc_get1/2`, `gc_start`, `gc_markXXX`, `gc_align_markXXX`, `gc_sweepXXX`, `gc_dispose_before_exit` | the program calls `newXXX` and `full_collect`; the collector reads its stack | recycling of slots and chunks, conservative roots, marks reset while the sweep goes, uninitialised headers |
| Weak references (`weak_reference.e`) | the item of each | `item`, `set_item`, `gc_update_weak_ref_item*` | inside the sweep | the answer depends on which of the two is swept first |
| Resizable object heap (native arrays; `gc_lib.c`) | `rsocfl`, per array type `store`, `chunk_list`, `free_list_of_large` | `new_na`, `rsocfl_best_fit`, `rsoc_sweep`, `may_free_rsocfl` | marked from objects, swept in the same `gc_sweep` | splitting and merging chunks, lists rebuilt while memory is carved |
| Threads (`thread.c`, `thread.e`, `thread_context.e`) | pool, per-thread queues, barrier | `se_thread_run`, `se_thread_wait`, `se_thread_barrier`, `se_thread_checkpoint`, `se_thread_stop` | a collection stops all threads at two barriers | interleavings, deadlock, a barrier in a stack frame, cells freed while they are queued |
| Thread locks (`thread.c`, `thread_lock.e`) | mutex, condition, `locker` | `lock`, `unlock`, `wait`, `timed_wait`, `notify`, `notify_all` | the program's threads | lost notifications, spurious wakeups, timeouts |
| Event loop (`lib/sequencer`) | stack of loops, lists of jobs | `run`, `new_loop`, `push_loop`, `break`, `exit_all`, `add_job`, `restart` | jobs call back into the stack | jobs that change the loop they run in |
| Events (`events_set.e`, `time_events.e`) | what is expected, the pool of date events | `expect`, `wait`, `event_occurred`, `at_date`, `timeout` | jobs, collector (weak references), system clock | a minimum of absolute and relative times, shared events |
| Waitpid jobs (`lib/exec/waitpid`, `exec_posix.c`) | self-pipe, armed/triggered, out-of-band data | SIGCHLD handler, `arm`, `disarm`, `trigger`, `prepare`, `is_ready`, `continue` | signals, loop | merged signals, timeouts racing ends |
| Processes and groups (`lib/exec`) | `id`, `running`, `id_map` | `execute`, `is_finished`, `wait`, group `wait` | the kernel's table of children | several callers that reap, identifiers handed out again |
| Scheduler (`process_scheduler.e`) | counts, modes | `execute`, `set_serial`, `set_parallel`, `set_parallel_process_count`, `wait` | group; used by `compile` | a maximum that changes while processes run, failing forks |
| Network server (`lib/net`) | connections, sockets and their pool | `start`, accept, `disconnect`, `shutdown`, `halt` | jobs of the loop, kernel | a connection that ends the server in the batch the server is in |
| Agents (`agents.c`) | an own store and free list | `new_agent`, `gc_sweep_agent` | as the fixed-size heap | as above, sizes vary |
| Exceptions (`exceptions.c`), debugging (`no_check.c`, `sedb.c`, `profile.c`) | stacks of contexts and frames | raise, retry, print, step | generated into every routine | signals, interactive I/O |
| `deep_twin.c` | table of visited objects | `deep_twin`, `is_deep_equal` | allocation | cycles |
| Containers, strings, numbers, parsers | sequential data | class features | none | boundaries |
| Compiler front end and back end (`smarteiffel/*`) | abstract syntax, live types | parse, simplify, adapt, generate | sequential passes | size |
| Other collectors, tools, wrappers, germ | - | - | - | adapters or generated code |

What makes each correct: for a heap, that memory the program can reach is never
reused, that nothing is lost or handed out twice, that `dispose` runs once, that
a collection ends; for threads, that a barrier stops everyone and releases
everyone, and that a routine is begun once; for the event loop, that no job is
lost, that jobs run by priority and not before their time; for processes, that
every end is noticed once and the counts are those of the kernel; for the
server, that a stream is served by one socket till it is closed.

## 2. Modules

| Module | What it is |
|---|---|
| `FsoHeap` | the fixed-size object heap: allocator, collector, weak references, exit |
| `ManagedHeap` | what a memory manager promises to the program |
| `FsoRefinement` | `FsoHeap` implements `ManagedHeap` |
| `FsoInvariant`, `FsoHeapProofs` | its inductive invariant and the proofs |
| `RsoHeap`, `RsoProofs` | native arrays in chunks of varying size |
| `ThreadPool` | the pool of threads with the collector on top |
| `ThreadLock` | locks and conditions |
| `ThreadProofs` | the proofs about both |
| `LoopStack`, `LoopProofs` | the stack of loops and the jobs |
| `EventsSet`, `EventsSetProofs` | what a turn of the loop waits for |
| `WaitpidJob` | how a loop learns of the end of a child |
| `ProcessGroup` | processes and the group that knows them |
| `ProcessScheduler` | the scheduler, which extends `ProcessGroup` |
| `ProcessProofs` | the proofs about the scheduler and `WaitpidJob` |
| `Server`, `ServerProofs` | a server and its connections as jobs of a loop |
| `ListLemmas` | what the proofs share: numbers, lists, lists in an order |
| `MC*` | definitions for the instances TLC checks |

### FsoHeap and the code

A chunk is a number, because the sweep goes through `gcmt` in address order; an
object is `<<chunk, slot>>`.  `state`, `type`, `flag`, `attr` are the headers and
the contents of the chunks; `flag` is one word used as a mark or as the link of
a free list (`u_fso_header`), so a free slot is recognised by `flag = "next"`.
A free list is a sequence whose last element is the head.  The per-type C
globals `gc_freeXXX`, `storeXXX`, `store_leftXXX`, `store_chunkXXX` are functions
of the type.  The stack and the registers are the words `word`; `live` says which
of them the compiled program may still read.  A word that went out of scope
keeps its value: the collector sees it, the program does not.

| Code | Actions |
|---|---|
| `newXXX`, one branch each | `NewFromStore`, `NewFromFree`, `NewLast`, `NewFromGet1`, `NewCollects`, `NewFails` |
| the rest of `newXXX` after `gc_start` | `ResumeFree`, `ResumeGet2`, `ResumeFails` |
| `gc_start` and its early exits (`gc_is_off`, `garbage_delayed`) | `GcStart`, from `NewCollects` or `FullCollect` |
| marking the once results, then the recursion of `gc_markXXX` | `StartMarking`, `MarkAttributes` |
| `mark_stack_and_registers`, `gc_find_chunk`, `gc_align_markXXX` | `MarkStack`, `IsRoot` |
| `gc_sweepXXX`, one slot at a time | `SweepMarked`, `SweepOther` |
| the end of a chunk | `SweptDead`, `SweptOther` |
| the return of `gc_sweep`, of `gc_dispose_before_exit` | `EndSweep` |
| assignments, reads, once functions, `collection_on/off` | `Assign`, `Load`, `LeaveScope`, `OnceResult`, `Switch` |

One thread runs: no action of the program is enabled while the collector works,
as in the code, where `gc_start` is a plain call.

Abstractions.  The recursion of `gc_markXXX` is a set of grey objects visited in
any order.  The headers of slots that were never handed out hold one arbitrary
value of `Garbage` per chunk; `Garbage` leaves out "marked" since a fresh chunk
is never looked at beyond `store`, and the invariant shows it.  Interior
pointers and integers that look like addresses are not enumerated: a dead stack
word already gives the collector roots the program does not have.  An object of
the type of the root (`eiffel_root_object`) is a global like a once result.
`Assign` takes any value the program holds (`Held`).  `SwitchAt` says after how
many creations the program may turn collections on or off.  The contents of free
memory are `Nil`.  `dispose` is a call that is counted; a `dispose` that itself
allocates is not modelled.  `-gc_info` (a collection before exit, for its report)
is not modelled.  `se_malloc` without memory ends the program; with
`SE_EXCEPTIONS` it would raise an exception.

### ManagedHeap and FsoRefinement

`ManagedHeap` says what the program may rely on: a new object is not an existing
one and starts Void, the object graph changes only by assignment, `Reclaim`
keeps a set closed under the strong references from the roots and clears the
weak references to what goes.  The refinement mapping makes the reclaimed
objects disappear when the sweep begins: from then on an object exists if it
survived so far or is marked and still to be swept.  Allocation maps to
`Create`, the steps of mark and sweep to stuttering.

### RsoHeap and the code

Memory is a range of addresses whose unit is `sizeof(rsoh)`.  `chunk[a]` is the
`rsoc` header at address `a`, `rsoh[a]` the header of a block, or what is left of
one: nothing erases the header of a block that was joined to another, and the
collector, which takes stack words for pointers, may look at it.  Words of
memory that never were headers have the flag `DATA` and may look like an unmarked
header.  `gcmt` keeps only the resizable chunks.  The `na_env` of each type is a
record; the intrusive lists (`chunk_list`, `free_list_of_large`, `rsocfl`) are
sequences, head first.  A dead stack word keeps its pointer, is cleared, or gets
one of the integers `Ints`.  `Sizes` gives the sizes the program asks for, per
type.  Three history variables serve the properties: `regions` (what malloc
returned), `heads` (where blocks begin) and `arrays` (what the program was given).

| Code | Actions |
|---|---|
| `newXXX`, `rso_from_store` | `NewFromStore`, `FromStore` |
| `new_na`: the rest of the store is filed, then its sources in order | `NewNa`, `NewInStoreChunk`, `NewInChunkList`, `NewInFreeChunk`, `NewMalloc`, `NewCollects` |
| `new_na` after `gc_start` | `ResumeFromStore`, then the same, and `ResumeMalloc` |
| `se_malloc` without memory | `OutOfMemory` |
| `rsocfl_best_fit`, splitting and shrinking | `BestFit`, the three cases of `NewInFreeChunk` |
| `just_before_mark`, exact marking from objects | `GcStart` |
| `gcna_align_mark` | `SkipWord`, `MarkLarge`, `StartWalk`, `Walk`, `EndWalk` |
| `rsoc_sweep`, one block at a time | `EnterChunk`, `SweepLarge`, `SweepMarked`, `SweepFree`, `Coalesce`, `CloseRun`, `EndChunk` |
| `gc_sweep`: table and `rsocfl` | `BeginSweep`, `Link`, `EndSweep` |
| `may_free_rsocfl` | `MayFree`, `FreeChunk` |

Abstractions.  The objects that hold arrays are the attributes `attr`, marked at
once; the elements of an array of references, which marking follows, are left
out (they belong to a composition with `FsoHeap`).  The growth of `gcmt` by
`se_realloc`, external arrays (`from_pointer`) and the statistics of `gc_info`
are left out.  Fixed-size chunks are taken to be below their ceiling in
`garbage_delayed`, and malloc returns one of `Places`.

The binary search of the table, `Search`, is a recursive function of its two
bounds.  `ArraysSafe` asks of a store that holds something to lie apart from the
arrays; the address of a store with nothing left may be that of an old block.

Two things the model makes visible and no property forbids: what
`new_na_from_chunk_list` gives up when it shrinks a chunk (line 681) is lost for
good, since the chunk never has its initial size again; and a chunk found empty
resets the store of its type (line 526), so that a free block of another chunk
waits for the next collection.

### ThreadPool and the code

A thread is its slot of `global_thread_pool.threads`; slot 0 is the main thread.
`pc` says where it is, `ret` where `thread_pool_barrier` returns to, `lock` and
`qlock` who has the pool's lock and those of the queues.  The
`se_thread_barrier_t` of a barrier is a local variable of `se_thread_barrier`:
`frame[t]` is what the stack of its creator holds, and stays when the function
has returned.  A `se_thread_run_data` is a cell that malloc may give out again.
The `Programs` say what the Eiffel code calls and how often; one is chosen at
the start.

| Code | Actions |
|---|---|
| `se_thread_register`, `se_thread_stop` | `Register`, `Stop` |
| `se_thread_checkpoint`, from Eiffel code or an idle thread | `Checkpoint`, `IdleCheckpoint`, `LeaveCheckpoint` |
| `thread_pool_barrier`: its loop, the wait, `on_crossing` | `NoBarrier`, `EnterBarrier`, `Arrive`, `ReadCrossing`, `AfterCrossing` |
| `se_thread_barrier` | `CreateBarrier`, `ResetBarrier`, `DestroyBarrier` |
| `gc_start`: delay, the two barriers with `mark_stack_and_registers` and `gc_sweep` | `Collect`, `GcDelayed`, `GcStart`, `MarkStackAndRegisters`, `GcSweep` |
| `se_thread_run`, `thread_pool_find`, `thread_pool_start`, `thread_pool_run` | `Run`, `StartFind`, `StartThread`, `Idle`, `LookAtThread`, `AppendRun`, `RunReturns` |
| the loop of a pool thread | `Begin`, `Finish`, `Unqueue`, `Dequeue`, `EndThread` |
| `se_thread_wait` | `Wait`, `WaitReturns` |

Abstractions.  The table of threads is never extended (`Capacity > MaxRuns`).
When it is made, `memset` clears 16 bytes instead of 16 slots (`thread.c:120`),
which reaches the `running` of no slot: what malloc left there is the history
variable `leftover`, a set of slots that look used, one of `Leftovers`.  The
queues and mutexes of such slots are taken to be null and initialised, which
nothing in the code sees to either.
`pthread_barrier_destroy` waits, as glibc's does, until everyone has left.
Memory that was freed keeps its contents until it is handed out again.  Mutexes
that one statement takes and gives back are one step.  A pair of program locks
taken in opposite orders deadlocks as in any program and is not modelled.

### ThreadLock and the code

The threads are those of `tutorial/test_thread.e`: the main thread waits on a
lock until all workers have counted themselves.  `AcquireMutex`, `SetLocker`,
`ClearLocker`, `ReleaseMutex`, `CondWait` are the steps of
`se_thread_lock_lock`, `unlock`, `wait`, `timed_wait`; `Notify` and `NotifyAll`
those functions; `TimedOut` and `SpuriousWakeup` what pthreads may do; the
`check` mutex makes an access of `locker` one step.  The header of the tutorial
says "Does not work; don't use it!"; with the locks as they are its protocol does.

### LoopStack, EventsSet and the code

`LoopStack`: `item[l]` is a LOOP_ITEM (`pause`, `break`, `job_list`,
`finished_jobs`), `loopStack` the stack, `running` the loop whose `run` executes,
`readyJobs` what is left of its batch.  `Run`, `StartLoop`, `RunEnds` are
`LOOP_STACK.run`; `Select`, `Over`, `Stay`, `Continue`, `ContinueReturns`,
`BatchOver`, `LoopEnds` are `LOOP_ITEM.run`; what a job does in `continue` is
`Finish`, `FinishOther`, `AddJob`, `NewLoop`, `PushLoop`, `Break`, `ExitAll`.
Which jobs are ready is chosen freely.  The contracts of `continue`, `run`,
`restart` and `pause_loop` are noted in `broken` when a call breaks them, as in
boost mode, and execution goes on; two pushes by one batch, for instance, break
the require of `pause_loop` ("not pause", `loop_item.e:124`).

`EventsSet` is the content of one turn: `Reset`, `Prepare` (PERIODIC_JOB, a job
that keeps a date, a timeout, a stream), `Wait`, `WaitReturns`, `Query`.  Time is
a bounded counter, `Tick`.  `Collect` voids the weak references of the pool of
events, at any point.  `expected` is the record that only require clauses write;
with `boost` it stays empty.  `select` retried after a signal with its full
timeout, streams that are written, exceptional conditions and the Win32 flags
are left out.

### WaitpidJob, ProcessGroup, ProcessScheduler and the code

`WaitpidJob`: `ChildExits` and `Deliver` are the kernel and the handler of
SIGCHLD.  The handler and the pipe exist only since the first call of
`basic_exec_waitpid_fd` (`Installed`), which is made by the job's first `prepare`
that expects the input; the stream itself is a once that is created there.
Programs start children before (the conductor of `eiffeltest` adds the job,
starts its servers, arms the job and runs the loop), and a child that ends in
between sends no signal and no byte: the history variable `unheard` holds those.
`Prepare`, `WaitReturns`, `IsReady`, `FireTimeout` are the job; `Drain`,
`Reap`, `ReapEnds` are the C function `basic_exec_waitpid_read_buffer`, child by
child, so that a signal comes between any two of its calls; `Arm`, `Disarm`,
`Trigger` are what other jobs call.  The pipe is unbounded and opened without error,
and the list of actions fixed.

`ProcessGroup`: `child[i]` is the kernel's record of the child with id `i`,
`process[p]` the fields of a PROCESS_POSIX, `idMap` the group's dictionary.
`Execute`, `ExecuteFails`, `IsFinished`, `Wait`, `GroupWaits`, `ReadWaitpid` are
the calls.  `ProcessScheduler` extends it: `NewProcess`, `Launch`,
`LaunchFails`, `WaitProcess`, `WaitNobody`, `SetParallelProcessCount`,
`SetSerial`, `SetParallel`, `WaitAll`, used as `compile` does.  The group has the
scheduler's processes only; a program that executes others in the default group
shares it, which is `ProcessGroup`'s concern.  `on_finished` does not call the
scheduler back.  A second `wait` for the same process frees its data twice in
the code and is not made.

### Server and the code

The loop is one LOOP_ITEM whose batch runs last to first.  `ContinueServer` is
SOCKET_SERVER_JOB.continue with the accept and the `SOCKET` from the pool
(`NewSocket`, `Popped`); a connection that is continued reads, disconnects
(`ContinueDisconnects`, which recycles its socket), shuts the server down
(`ContinueShutsDown`) or halts it (`ContinueHalts`, which closes the other
connections); `OtherShutsDown` is a shutdown from elsewhere, `Collect` empties
the pool.  Reading and writing of data is left out.

## 3. Runs

| Run | Instance | Properties | Shows |
|---|---|---|---|
| `fso_heap` | 2 chunks of 2, types ANY and WEAK, one word and one once result, 4 creations, 2 collections, memory exhausted | `NoDangling` `HeapPartition` `DisposedOnce` `CollectorInv` `WeakItemKept` `CollectExact` `ImplementsManagedHeap` `ExitReclaimsAll` `CollectionEnds` | memory safety, exactness, weak references on both sides of their item, exit, termination, refinement |
| `weak_item_monomorphic` | the item has one type | `WeakItemKept` | violated: finding 1 |
| `one_object_chunks` | chunks of one object | `NoDangling` | violated: finding 2 |
| `rso_heap` | memory of 3 chunks of 8 units, arrays of 2, 4, 8 and of a second type, a word and an attribute, 3 creations, 2 collections | `ArraysSafe` `HeapTiled` `ChunkTable` `NoDangling` `CollectExact` `ContentsKept` `Compacted` `NewNaReturns` | memory stays well formed while chunks are split, shrunk, merged, shared between types and freed |
| `thread_pool` | 4 slots, none or two of them left looking used, 3 cells, four programs | `QueuesSound` `RunOnce` `BarrierCountsAll` `CrossTogether` `StartReturns` | starts, waits, collections and stop, interleaved |
| `thread_calls` | one thread started, waited for, one collection | `CallsReturn` | violated: finding 3 |
| `thread_lock` | 3 workers of 2 turns, 2 spurious wakeups, timeouts 0 and 2 | `LockerOwnsMutex` `LockContracts` `MainGetsThrough` | contracts hold, no notification is lost |
| `loop_stack` | 3 jobs of 2 priorities, 2 loops, two programs | `EveryJobOnce` `BatchOfOnePriority` `RunReturns` | no job lost or doubled, priorities, termination |
| `events_set` | 4 jobs of 3 kinds, clock to 6, with and without assertions | `WaitsLongEnough` `OccurredIfHappened` `DatesRun` | no date is slept through, every period is served |
| `waitpid_job` | 2 children, 3 calls, no timeout and one | `EndsAccounted` `ArmedOrTriggered` `EndsReported` | no end since the handler is lost, none is reported twice |
| `process_scheduler` | 3 ids reused, 5 launches, 2 failing forks | `ChildrenCounted` `WithinMaximum` `FinishedOnce` `CallsReturn` | counts, maximum, callbacks, termination |
| `server` | 3 clients | `SocketsSound` `StandAloneStops` | sockets and streams, `start` returns |

Bounds of the heaps.  `NChunks` is the memory of the machine, `MaxNew` and
`MaxCollections` the length of the program.  Two slots per chunk have a first and
a last one; two chunks put an item before and after its weak reference, and let
a dead chunk change type; two collections sweep the free slots the first one
left.  `CeilAtStart` and `FsocLimit` are small so that the ceiling is reached,
doubled and passed.  In `RsoHeap` a chunk of 8 units holds at most three arrays;
an array of 8 gets a chunk of 16, of which 13 units remain when an array of 2 is
split off (more than `RSOC_MIN_STORE * 4`), while an array of 4 shrinks it: so
both cases, and the merge after them, occur.  `MayFreeMin` stands for the 50
chunks below which nothing is given back.  Two configurations that are not among
the runs widen the instances: `FsoDelayed.cfg` (collections delayed by a large
stack, other leftovers in headers, `FsocWithinCeil`) and `RsoChunkList.cfg` (three
places, two words, four creations), which shows a disagreement (below); the
properties of `rso_heap` in place of its invariant hold there.

Bounds of the others.  Three starts fill three queues and give a cell out twice
while a thread idles; slots 0 and 2 left looking used have the main thread not
counted and a slot skipped or taken between two others; two collections make a thread that left the first barrier
late meet the second; three workers let two of them compete while the main
thread is between its test and its wait.  Three jobs make a batch of two of one
priority with a third behind; two loops are what it takes to push and to break.
Clock 6 is two periods of 3 and three of 2.  Two children are merged in one
signal; three calls arm, disarm and arm again.  Five launches reuse an id after
three, with two forks that fail among them.  Three clients have the second take
the socket of the first while a third waits.

Fairness.  `FsoHeap`: `WF_vars(Collector)`, since the collector is straight-line
code of the thread that called it; in `RsoHeap` this extends to the rest of
`new_na`; nothing is assumed of the program.  `ThreadPool`: each thread that can
run does, Eiffel code reaches a checkpoint and routines return.  Mutexes are not
fair, but only finitely many calls compete.  `ThreadLock`: the threads run;
nothing is assumed of timeouts and spurious wakeups.  `LoopStack`: the loop runs,
and a job continued again and again ends some day (SF, since it is only
sometimes its turn).  `EventsSet`: the loop runs and time passes.  `WaitpidJob`:
signals are delivered, and the loop asks the job again and again (SF: other
priorities may come first).  `ProcessScheduler`: a call goes on, children end.
`Server`: the loop runs and a connection is disconnected some day.

Every property of a passing run has a mutant in `PROJECT.json`: a change of one mapped definition
that a slip in the code would make, under which the run finds it violated.  The
mutated definitions stand beside the ones they replace.

### Findings

1. `gc_update_weak_ref_itemXXX`, the version for an item of a single type,
   tests `swept != (flag == FSOH_MARKED)`, the opposite of the polymorphic one.
   It drops live items and keeps reclaimed ones.
2. An object larger than half a chunk: `store_left` starts at 0, the chunk stays
   in the store state, and `gc_align_markXXX` and `gc_sweepXXX` compare its
   addresses with a `store` that has moved to another chunk.  A stack word that
   designates an object beyond that `store` marks nothing.  The sweep leaves the
   object itself alone, by the same comparison, but reclaims what only it refers
   to, so that it holds a reference to free memory.  (The loop of the sweep may
   also run past the end of the chunk; the model stops at its last slot.)
3. The barrier of a collection waits for all running threads.  One that is
   blocked in `se_thread_wait` is among them and makes no checkpoint there: when
   the thread it waits for collects, both wait for ever.

### Further disagreements: demonstration configurations

These configurations are not among the runs.  Each shows, under the name of a
definition of its module, a statement of the repository that the code does not
keep; `tlc -config X.cfg M` prints the behaviour.  The two configurations with two
of them, `SchedVoid` and `LoopContinue`, show both with `-continue`.

| Configuration (module) | Violated | The code, and the statement |
|---|---|---|
| `RsoChunkList` (`MCRsoHeap`) | `ChunkListHasAll` | chunks with free blocks are missing from `chunk_list` (`gc_lib.c:692`, `:484`); `gc_lib.h:132`: "List of chunks of that type that have a non-null free_list_of_large". Memory safety is not affected |
| `ThreadCallsCollect` (`MCThreadPool`) | `CallsReturn` | `thread_pool_barrier` goes round while `global_thread_pool.barrier` is set (`thread.c:96`): a thread that has crossed may be back there before the creator resets it (line 354), and waits again at the barrier it has crossed, where nobody will come |
| `ThreadCallsStop` (`MCThreadPool`) | `CallsReturn` | `se_thread_stop` calls `se_thread_barrier` with the lock it takes (`thread.c:375`); `thread.c:127`: "NO!! locks must be released!!" |
| `ThreadRoots` (`MCThreadPool`) | `RootsNotified` | `barrier->on_crossing` is read when the frame may hold the next barrier (`thread.c:100`); `gc_lib.c:49`: "supposed to notify the GC with all the possible roots" |
| `ThreadFind` (`MCThreadPool`) | `FindProceeds` | `thread_pool_find` locks queues while it has the pool's lock (`thread.c:158`, `:103`); a thread that is idle at a checkpoint has its queue's lock and takes the pool's (`thread.c:250`). A thread started right after a collection can meet one that comes back from the barrier, and both wait for ever; `thread.e:11`: "Starts the thread." |
| `ThreadUncleared` (`MCThreadPool`) | `StartsThread` | `memset` counts slots as bytes (`thread.c:120`): a slot whose `running` malloc did not leave 0 is taken for an idle thread, a routine is queued where no thread runs, and `se_thread_run` never returns; `thread.e:11`: "Starts the thread." |
| `ThreadWait` (`MCThreadPool`) | `WaitedRunOnce` | a cell is freed by its waiter before it is unqueued (`thread.c:183`), and its routine runs twice; `thread.e:11`: "Starts the thread." |
| `LockTimeout` (`ThreadLock`) | `FalseIfTimedOut` | the deadline of `pthread_cond_timedwait` is a duration (`thread.c:448`); `thread_lock.e:33`: "True if the wait succeeded, False if timed out" |
| `LoopContinue` (`MCLoopStack`) | `OthersSuspended` | the batch goes on after a push (`loop_item.e:106`); `loop_stack.e:5`: "all jobs in the currently running loop are suspended" |
| `LoopContinue` (`MCLoopStack`) | `ContinueRequire` | a job ended by another one of its batch is continued; `job.e:53` requires "not done" |
| `EventsBoost` (`MCEventsSet`) | `EventOccurred` | in boost mode jobs share one DATE_EVENT (`time_events.e:67`); `events_set.e:131`: "True if `wait' returned because that `event' happened." |
| `WaitpidFirst` (`WaitpidJob`) | `EveryEndReported` | the handler is installed at the first `prepare` (`exec_posix.c:224`): a child that has ended before is reported only when another one ends; `waitpid_input.e:9` promises more only "If this stream is created", which happens there too |
| `WaitpidTimeout` (`WaitpidJob`) | `TimeoutPassed` | TIMEOUT_EVENT.occurred is always True (`timeout_event.e:36`, "OK??"), so the end of a child is reported as a timeout |
| `GroupReuse` (`ProcessGroup`) | `IdMapHas` | `is_finished` unregisters an id again that another child has by then (`process_posix.e:40`); `process_group_posix.e:27` checks "id_map.has(process_id)" |
| `GroupWaitpid` (`ProcessGroup`) | `WaitEnsure` | a child that WAITPID_INPUT reaped is never finished (`exec_posix.c:171`); `process.e:56` ensures "is_finished" |
| `SchedVoid` (`ProcessScheduler`) | `CountIsRunning` | `process_count` is incremented before the fork (`process_scheduler.e:25`, `:42`) and decremented only in `wait_process`: a fork that fails is counted for ever; line 86: "How many processes are currently running." `ChildrenCounted`, in the passing run, says what remains true |
| `SchedVoid` (`ProcessScheduler`) | `WaitProcessEnsure` | the same: after a failed fork the scheduler waits for nothing; line 203 ensures "Result /= Void" |
| `SchedCount` (`ProcessScheduler`) | `ProcessCountInRange` | `set_parallel_process_count` waits for nobody (`process_scheduler.e:59`) and may lower the maximum; line 216, the invariant: "process_count.in_range(0, maximum_process_count)" |
| `ServerHandled` (`Server`) | `ShutdownHandled` | `connections` is never decremented (`server.e:114`); `server.e:108`: "Shutdown gracefully when all connections are closed." |
| `ServerPool` (`Server`) | `OwnSocket` | a closed stream keeps a recycled socket (`ipv4_socket_server.e:79`); `recycling_pool.e:65`: "be sure not to hold any reference to a recycled object" |

`GroupFinish.cfg` shows the group without identifiers handed out again and
without WAITPID_INPUT: `GroupKnowsChildren` and `RunningHasChild` hold.

A set of programs is excluded from a passing run where one of these would end
it: `QueuesSound` and `RunOnce` are about programs that do not call
`THREAD_CONTEXT.wait`, `OccurredIfHappened` about checked programs,
`WithinMaximum` about one number of processes.  Others say their condition:
`BarrierCountsAll` and `CrossTogether` that the slot of the main thread looked
free, so that the pool counted it; `StartReturns` that all slots did;
`EndsAccounted` and `EndsReported` which ends are announced; `ChildrenCounted`
that it is a lower bound once a fork has failed.

## 4. Proofs

Every theorem holds for all values of the constants that meet the named
assumptions of its module, and the hypothesis of the table.

| Module | Theorem | Statement | Hypothesis |
|---|---|---|---|
| `FsoHeapProofs` | `Invariance`, `TypeCorrect`, `NothingDangles`, `DisposeOnce` | `[]IInv`, `[]TypeOK`, `[]NoDangling`, `[]DisposedOnce` | `SafeInstance`: two objects per chunk at least, no monomorphic weak reference (findings 1 and 2 show both necessary) |
| `FsoHeapProofs` | `Partition`, `Implements` | `[]HeapPartition`, `ImplementsManagedHeap` | `SafeInstance` |
| `FsoHeapProofs` | `CollectorInvariance`, `CollectionExact` | `[]CollectorInv`, `CollectExact` | `SafeInstance` |
| `FsoHeapProofs` | `WeakItemsKept`, `ExitReclaims` | `WeakItemKept`, `ExitReclaimsAll` | `SafeInstance` |
| `FsoHeapProofs` | `WithinCeil` | `[]FsocWithinCeil` | none |
| `ThreadProofs` | `LockInvariance`, `LockerIsOwner`, `ContractsHold` | `[]LockInv`, `[]LockerOwnsMutex`, `[]LockContracts` | none |
| `ThreadProofs` | `PoolInvariance`, `BarrierForAll`, `TogetherThrough` | `[]PoolInv`, `[]BarrierCountsAll`, `CrossTogether` | none; the properties are about pools that counted the main thread (`main \notin leftover`) |
| `ThreadProofs` | `QueueInvariance`, `QueuesRight`, `BegunOnce` | `[]QueueInv`, `[]QueuesSound`, `[]RunOnce` | none; the properties are about programs that do not call `THREAD_CONTEXT.wait` (`ThreadWait.cfg` shows that necessary) |
| `LoopProofs` | `LoopInvariance`, `LoopTypeSafety`, `JobsKept`, `OnePriority` | `[]LoopInv`, `[]TypeOK`, `[]EveryJobOnce`, `[]BatchOfOnePriority` | none |
| `RsoProofs` | `TableInvariance`, `TableKept` | `[]TableInv`, `[]ChunkTable` | none |
| `RsoProofs` | `HeapInvariance`, `ArraysApartAlways`, `HeapTiledAlways`, `NoDanglingEver` | `[](TableInv /\ Typed /\ HeapInv)`, `[]ArraysSafe`, `[]HeapTiled`, `[]NoDangling` | none |
| `RsoProofs` | `CollectionExact`, `ContentsUntouched`, `FragmentsJoined` | `CollectExact`, `ContentsKept`, `Compacted` | none |
| `EventsSetProofs` | `EventsInvariance`, `LongEnough`, `OccurredRight` | `[]EventsInv`, `[]WaitsLongEnough`, `[]OccurredIfHappened` | none |
| `ProcessProofs` | `JobInvariance`, `EndsAllAccounted`, `ArmedNotTriggered` | `[]JobInv`, `[]EndsAccounted`, `[]ArmedOrTriggered` | none |
| `ProcessProofs` | `SchedInvariance`, `CountRight`, `FinishedRight` | `[]SchedInv`, `[]ChildrenCounted`, `[]FinishedOnce` | none |
| `ProcessProofs` | `NeverMore` | `[]WithinMaximum` | `OneCount`: the number of processes is set to one value (`SchedCount.cfg` shows it necessary) |
| `ServerProofs` | `ServerInvariance`, `SocketsAreSound` | `[]ServerInv`, `[]SocketsSound` | none |

`NoDangling` speaks of the states where the program runs and says nothing of the
middle of a collection, so it is far from inductive.  `IInv` adds: the chunk in
the store state is the one its type fills (`StoreOK`), headers tell allocated
from free slots (`AllocOK`), marks exist only between the start of marking and
the passage of the sweep (`MarksOK`), the free lists hold free slots already
swept, once, and `old_gc_free` none of the current chunk (`FreeListsOK`),
`fsocfl` holds free chunks, once (`FreeChunksOK`), a marked object that is not
grey has only marked attributes (`MarkingOK`), which at the end of marking makes
the marked set closed, and this closure is carried by the set of survivors
through the sweep, where a weak item is either a survivor or recognisably free
(`SweepOK`), and `dead` means only free slots so far (`DeadOK`).  There is one
lemma per action and the last lemma puts them together.

`HeapPartition` speaks of the program's states too, and of completeness, which
nothing in `IInv` needs.  `PartInv` adds it: while the program runs every free
slot is in the list of its type, and during a sweep every free slot already
passed is; `old_gc_free` holds all those of the earlier chunks, so that it may
replace the list when the chunk turns out dead; `fsocfl` holds every free
chunk; `fsoc_count` is the number of chunks made.  `WithinCeil` rests on
`CeilInv`: the ceiling is positive, so doubling it always leaves room for the
chunk just made.

`Implements` maps the objects alive to those allocated, and during a sweep to
those that survive it.  `BeginSweep` is the abstract `Reclaim`: the marked
objects are closed under attributes, by `IInv`.  The steps of the sweep change
nothing the program can see: freeing a slot removes an object that was already
counted as gone, and a weak reference loses its item only if the item does not
survive.  This is where a monomorphic weak reference must be excluded.

`CollectExact` says that nothing unreachable is left, which needs what `IInv` does
not have: that marking goes no further than reachability.  `ExactInv` says that
marked objects are among `Reached`, that before the sweep every word that
designates an object has it marked, and that in the sweep the survivors are
`Reached` all along.  `Reached` is computed in as many rounds as there are
objects; that it is the least set that holds the roots and is closed
(`ReachedLeast`) is proved by counting: a round that adds nothing is the last, and
one that adds something cannot happen more often than there are objects
(`ReachedRounds`).  From then on only its being least is used: a step that leaves
the roots and the attributes of what is reached alone leaves `Reached` alone
(`ReachedKept`), also when it frees slots around it.  The last part of `ExactInv`
is about the sweep before exit, which has no object behind it.  A weak item is
lost only where the sweep meets its weak reference, and there `SweepOK` tells
whether the item survives, from either side of it (`WeakItemsKept`).

`LockerOwnsMutex` does not say that `locker` is still Nobody when the next thread
takes the mutex.  `LockInv` adds that the owner of the mutex is the one thread
between its acquisition and its release, that the sleepers are those inside
`pthread_cond_wait`, and that `locker` is Nobody on both sides of its assignment.

The barrier of `ThreadPool` is crossed when as many threads have arrived as it
counts.  A thread that has crossed may come back before the barrier is reset and
arrive once more (`ThreadCallsCollect.cfg`), so arrivals are not simply the threads that have
still to come.  `PoolInv` says that each thread arrives at one barrier, that those
at the barrier in force are among the running threads, that a barrier that is
gone still has a running thread that was never sent to it, and so is never
filled (those two when the main thread was counted, `MainCounted`), that a barrier is made and threads are started under the pool's lock
while no barrier is in force, and that `global_thread_pool.running` counts the
threads, but for a main thread whose slot looked used.

`QueuesSound` looks at the two ends of a queue; what lies between them are links
through cells that other threads append to and that are freed and used again.
`QueueInv` says that there is, for each thread, a sequence of all the cells ever
put into its queue and a number of those that have left it, such that the cells
after that number are live, linked in that order, end at `queue_last`, are in no
other queue and, but for the first one, not started (`Chains`); that a thread
between taking a cell and unqueueing it has the first cell of its queue
(`CurrentOK`); that the main thread has no queue (`MainOK`); that whoever made
the barrier in force is in `gc_start` or `se_thread_stop`, and so never takes a
cell (`CreatorOK`); and that every routine begun has been begun by the one cell
it has (`RunsOK`).  The sequences are named by an existential and replaced at
every step that appends or unqueues: no induction over the list is needed.

The lists of a loop are built by the loops of `add_job`, `run` and `restart`.
What these do for a list of any length is `KeptFacts` of `ListLemmas`, and
`InsertedFacts` and `PutBackFacts` of `LoopProofs`: which jobs the result holds, that none is in it
twice, that it stays sorted.  `LoopInv` says that the lists of a loop hold no
job twice, that no job is in the lists of two loops, that `job_list` is sorted,
that every job added is in some list unless it was added to no loop, and that
the jobs selected have one priority.  `EveryJobOnce` then follows by counting
the places of a job.  A push of an old loop needs that its finished jobs were
not in its `job_list` any more.

`ChunkTable` holds when no sweep is under way, and says nothing of what makes
the next one work.  `TableInv` says that `gcmt` is sorted and without doubles,
that the end of each chunk is at most the next one's beginning (`Cells`), that
what malloc gave is finite, lies apart, inside memory (`Apart`), and contains
every chunk, and that a chunk with an initial size is the one its malloc began
with (`Regions`).  This last part is what `may_free_rsocfl` rests on: it returns a
chunk whose size is its initial size, and the theorem shows that no other chunk
lies in the memory it gives back; the merge of `gc_sweep` keeps it because a
chunk with an initial size is never merged into the one before.  `FreeLists`
says for each phase which free chunks `rsocfl` has: all of them; those before the
chunk being swept; or, with `rest`, all of them again while `may_free_rsocfl`
goes down the table with ever smaller addresses, so that the upper bound it
keeps for its searches (`where`) stays right.  `SearchFacts` gives the value of
the binary search over any sorted table: how many chunks begin before the
address.  It is an induction over the distance of the bounds, stated as a
property of numbers (`LeastNat`).

`HeapTiled` and `ArraysSafe` speak of the states where the program runs;
`HeapInv` says what the blocks are at every step of `new_na` and of a collection.
There is a size for each block: what its header says, or `store_left` for the
store of a type, whose header is only written when a collection or a split needs
it (`Contents`, and `Headers` for when it must be written).  With these sizes the
blocks of a used chunk follow each other from its first address to its end, and a
large chunk has one block (`Tiles`); a store lies in a chunk of its own type
(`Stores`), and the free lists have free blocks of their chunk, once (`Lists`).
The sizes are named by an existential: each step gives the new ones, and no
induction over the blocks is needed, because to say that a block ends where
another begins or where the chunk ends (`FitsIn`) is enough.

The rest is about the collection.  `Passed` and `Done` tell from the place of the
sweep which blocks and chunks lie behind it.  Before it (`MarkedSoFar`) no type has
a store and every word looked at so far has its array marked.  During it
(`SweptSoFar`) what the program holds is marked or passed, what is passed is not
marked any more and is held, and the stores and lists of chunks that the sweep
builds lie behind it (`StoresPassed`), so that no block it is still to read can be
a store.  `WalkAt` is what makes `gcna_align_mark` right for a word that is an
array: the walk from `free_list_of_large` or from the beginning of the chunk
stands at a block that is not past the word.  `SweepAt` is what makes the joining
of free blocks right: the run being joined, from `gp` to `pp`, is one block of the
chunk, and every block filed lies before it.  `Typed` says that a chunk's type
is one of the types.  `NoDangling`, `CollectExact` and `ContentsKept` then follow
from the steps `GcStart`, `EndSweep` and those that write a header.

`Compacted` needs more of the sweep than that it frees what is not marked.
`Compact` says of what the sweep has passed that no two free blocks are
neighbours (`RunsApart`) and that every chunk it is done with has an array
(`HasArray`).  The first part alone is not inductive: where a run has just been
closed, the free block before the block the sweep will look at next is passed
and that block is not, so `RunsApart` adds that it is marked, which is what
ended the run (`Coalesces`).  The second follows from the first at the end of a
chunk: if no array is left, the first block is free, no free block is behind it,
so it ends where the chunk does, and `WholeFree` has the chunk given back
(`ArrayKept`).  `SweepsBy` shows that no other action enters or leaves the sweep.

`EventsInv` follows the jobs that have expected something this turn and were not
asked yet: what EVENTS_SET waits for is at most what each of them wants
(`Covered`); in a checked program the event of a job that keeps one is expected
and has the date of that job (`DateKept`), and expected events are in the pool
(`InPool`), so that `TIME_EVENTS.item` gives them to nobody else and an event it
makes is not one of them.

`JobInv` places the end of a child: unheard, announced by a signal or a byte, or
being reaped; queued once; or reported.  Its parts tie the queue to the place in the
loop (`QueueOK`) and `running` to what the turn expected (`RunningOK`).

`SchedInv` ties `running` of a PROCESS to a living child that the group has
under its id (`RunningKnown`), which survives the reuse of ids because
the scheduler asks the group, not the processes; and the number of calls of
`on_finished` to launches, failures and living children.  Its part `Counted` is
`process_count` exactly: the living children and the forks that failed, of which
`ChildrenCounted` is what a caller may rely on.  `MaxInv` adds that
whoever is about to launch has room for one.

`SocketsSound` is threatened by a stream that keeps its socket after it has been
disconnected, while the pool gives the socket to another stream (`ServerPool`
shows it).  `ServerInv` says that a socket that is open is the one of the stream
of the client it is connected to, and that this client is being served
(`ConnectedOwn`); that the pool has closed sockets only, each once
(`PoolClosed`); that sockets not yet made are closed, since streams have taken the
first ones (`SocketsTaken`); and that clients are accepted in the order they come
(`ClientsInOrder`, `ReadyForOne`), so that a socket is never connected for a
client that has one.

Only model-checked: liveness (`CollectionEnds`, `NewNaReturns`, `StartReturns`,
`MainGetsThrough`, `RunReturns`, `DatesRun`, `EndsReported`, `CallsReturn`,
`StandAloneStops`), which under fairness is out of the prover's reach.  Every
invariant of the passing runs and every other action property is proved.

Recursion over data is proved about where it is a recursive function over the
numbers up to a length: a set of naturals has a least member (`LeastNat`, from
`WFMin`), so a property stated as a set of numbers holds up to any number
(`UpTo`), and a recursion has an outcome (`RecursionUpTo`).

`ThreadProofs` and `ProcessProofs` prove about two components each and extend the
modules of both.  That is why `ThreadLock` and `WaitpidJob` have names of their own
for what every module has: `LockSpec` and `JobSpec`, with `stage` for `pc`.

## 5. Not modelled, and what is left

Left, in order:

1. `RsoHeap`: an abstract specification of block allocation it implements.
2. `AgentHeap`: agents are allocated and swept the way fixed-size objects are,
   with sizes that vary.
3. The dictionaries the groups and scopes are built on, with their nodes
   recycled through weak references, and `deep_twin`.
4. `thread_pool_extend`: the table of threads moves while others hold pointers
   into it.

Not planned.  The compiler's passes are sequential and far larger than what a
model checker reaches; what they emit for the collector is modelled.  Almost all
of the repository's lines of C (`src/resources/smarteiffel-germ`) are the
compiler compiled by itself: generated code.  Exceptions, run-time checks, the
debugger and the profiler are a stack discipline woven into every routine, or
interactive.  Streams, clients and terminals are effects of the operating
system.  Containers, strings, numbers and parsers are sequential code with test
suites of their own.
