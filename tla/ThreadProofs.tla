---------------------------- MODULE ThreadProofs -----------------------------
(***************************************************************************)
(* Threads.  First the barrier of the thread pool, for every number of     *)
(* threads, starts and collections: it counts all the threads there are,   *)
(* and nobody is let through before everybody has come, provided that the  *)
(* main thread was counted when it registered.                             *)
(*                                                                         *)
(* A thread that comes back to thread_pool_barrier before the creator of   *)
(* the barrier has reset it enters the same barrier once more, and may     *)
(* still be on its way there when the barrier is gone.  What has to be     *)
(* shown is that such latecomers never fill a barrier.                     *)
(*                                                                         *)
(* Then the queues of the pool, in programs that do not wait for a         *)
(* routine: chains of cells that no two threads share, so that a routine   *)
(* is begun at most once.  Last the locks of the program's threads: their  *)
(* owner is the locker they name, and the contracts of THREAD_LOCK hold.   *)
(***************************************************************************)
EXTENDS ThreadPool, ThreadLock, FiniteSetTheorems, WellFoundedInduction, TLAPS

Lists == INSTANCE ListLemmas

(* The pool knows of the main thread: its slot looked free when the main   *)
(* thread registered.  Nothing in thread.c sees to that.                   *)
MainCounted == main \notin leftover

Alive == {t \in Threads : running[t] \in {2, 3}}

(* The threads that have been sent to the barrier of b.                    *)
Sent(b) == {t \in Threads : pc[t] \in {"arrive", "blocked"} /\ at[t] = b}

PoolTypes ==
  /\ lock \in Threads \union {None} /\ barrier \in Threads \union {None}
  /\ poolRunning \in Nat /\ running \in [Threads -> 0 .. 3]
  /\ pc \in [Threads -> Labels] /\ at \in [Threads -> Threads \union {None}]
  /\ frame \in [Threads -> [live : BOOLEAN, count : Nat, in : SUBSET Threads,
                            fn : {"mark", "sweep"}]]
  /\ crossing \in [Threads -> {"mark", "sweep"}]
  /\ idx \in [Threads -> Nat]

(* Only threads that were started act; before the first there is nothing.  *)
Started ==
  /\ \A t \in Threads : running[t] \in {2, 3} <=> pc[t] \notin {"none", "register"}
  /\ \A t \in Threads : pc[t] = "register" =>
       /\ t = main /\ barrier = None /\ Alive = {}
       /\ MainCounted => running[main] = 0

(* thread_pool_find holds the lock from the last look at the barrier on.   *)
LockHeld ==
  \A t \in Threads : /\ pc[t] \in {"pool", "scan"} => lock = t
                     /\ pc[t] = "scan" => barrier = None

RunningCounted == MainCounted => poolRunning = Cardinality(Alive)

(* Who counts at a barrier is blocked there.                               *)
InBlocked ==
  \A b \in Threads : \A t \in frame[b].in : pc[t] = "blocked" /\ at[t] = b

(* At a barrier that is gone there are fewer threads than it waits for.    *)
NoneFills ==
  /\ \A t \in Threads : pc[t] \in {"arrive", "blocked", "crossed"} => at[t] \in Threads
  /\ MainCounted => \A b \in Threads :
       b # barrier /\ Sent(b) # {} => Cardinality(Sent(b)) < frame[b].count

PoolInv ==
  /\ PoolTypes /\ Started /\ LockHeld /\ RunningCounted /\ BarrierCountsAll
  /\ InBlocked /\ NoneFills
-----------------------------------------------------------------------------
LEMMA ThreadsFinite ==
  /\ IsFiniteSet(Threads) /\ None \notin Threads /\ main \in Threads
  /\ \A S \in SUBSET Threads : IsFiniteSet(S) /\ Cardinality(S) \in Nat
<1>1. Capacity \in Nat \ {0}
  BY PoolAssumption
<1>2. IsFiniteSet(Threads)
  BY <1>1, FS_Interval DEF Threads
<1>3. None \notin Threads /\ main \in Threads
  BY <1>1 DEF Threads, None, main
<1>4. ASSUME NEW S \in SUBSET Threads PROVE IsFiniteSet(S) /\ Cardinality(S) \in Nat
  BY <1>2, FS_Subset, FS_CardinalityType
<1>5. QED
  BY <1>2, <1>3, <1>4

LEMMA AliveSent == Alive \in SUBSET Threads /\ \A b : Sent(b) \in SUBSET Threads
BY DEF Alive, Sent

LEMMA InitPoolInv == ASSUME Init PROVE PoolInv
<1>1. main \in Threads /\ None \notin Threads
  BY ThreadsFinite
<1>2. /\ Alive = {} /\ \A b : Sent(b) = {}
      /\ running \in [Threads -> 0 .. 1]
  BY <1>1 DEF Init, Alive, Sent
<1>3. PoolTypes
  BY <1>1, <1>2 DEF Init, PoolTypes, Labels
<1>4. Started
  BY <1>1, <1>2 DEF Init, Started, MainCounted
<1>5. LockHeld /\ BarrierCountsAll /\ InBlocked
  BY <1>1 DEF Init, LockHeld, BarrierCountsAll, InBlocked
<1>6. RunningCounted
  BY <1>2, FS_EmptySet DEF Init, RunningCounted
<1>7. NoneFills
  BY <1>1, <1>2 DEF Init, NoneFills
<1>8. QED
  BY <1>3, <1>4, <1>5, <1>6, <1>7 DEF PoolInv

(* What the program calls, and what malloc left in the pool, do not        *)
(* change.                                                                 *)
LEMMA SameProgram == [Next]_vars => UNCHANGED <<program, leftover>>
<1>1. ASSUME NEW t \in Threads, Step(t) PROVE UNCHANGED <<program, leftover>>
  BY <1>1 DEF Step, Lock, EnterBarrier, LeaveCheckpoint, StartFind, CreateBarrier, Arrive,
     ReadCrossing, ResetBarrier, DestroyBarrier, GcStart, GcDelayed, MarkStackAndRegisters,
     GcSweep, StartThread, LookAtThread, AppendRun, RunReturns, WaitReturns, IdleCheckpoint,
     EndThread, Unqueue, Begin, Dequeue, history
<1>2. ASSUME NEW t \in Threads, UserStep(t) \/ Checkpoint(t) \/ Finish(t)
      PROVE  UNCHANGED <<program, leftover>>
  BY <1>2 DEF UserStep, Allocate, Run, Wait, Collect, Checkpoint, Finish, history
<1>3. Register \/ Stop \/ UNCHANGED vars => UNCHANGED <<program, leftover>>
  BY DEF Register, Stop, vars, history
<1> QED
  BY <1>1, <1>2, <1>3 DEF Next
-----------------------------------------------------------------------------
Elsewhere == Labels \ {"none", "register", "arrive", "blocked", "crossed"}

(* A thread that is not at a barrier goes from one place to another, and   *)
(* takes or gives up the lock of the pool as it may.                       *)
LEMMA Moves ==
  ASSUME PoolInv, NEW t \in Threads, NEW l \in Elsewhere,
         pc' = [pc EXCEPT ![t] = l], pc[t] \notin {"none", "register", "blocked"},
         UNCHANGED <<barrier, poolRunning, running, at, leftover>>,
         frame' = frame \/ \E b \in Threads : frame' = [frame EXCEPT ![b].live = FALSE],
         crossing' = crossing \/ \E c \in {"mark", "sweep"} : crossing' = [crossing EXCEPT ![t] = c],
         idx' \in [Threads -> Nat],
         \/ lock' = lock
         \/ lock = None /\ lock' = t
         \/ lock = t /\ lock' = None,
         l \in {"pool", "scan"} => lock' = t,
         l = "scan" => barrier = None
  PROVE  PoolInv'
<1>1. PoolTypes'
  <2>1. frame' \in [Threads -> [live : BOOLEAN, count : Nat, in : SUBSET Threads,
                                fn : {"mark", "sweep"}]]
    <3>1. CASE frame' = frame
      BY <3>1 DEF PoolInv, PoolTypes
    <3>2. ASSUME NEW b \in Threads, frame' = [frame EXCEPT ![b].live = FALSE]
          PROVE  frame' \in [Threads -> [live : BOOLEAN, count : Nat, in : SUBSET Threads,
                                         fn : {"mark", "sweep"}]]
      <4> DEFINE R == [live : BOOLEAN, count : Nat, in : SUBSET Threads, fn : {"mark", "sweep"}]
      <4>1. frame \in [Threads -> R]
        BY DEF PoolInv, PoolTypes
      <4>2. \A f \in R : [f EXCEPT !.live = FALSE] \in R
        OBVIOUS
      <4>3. frame' = [frame EXCEPT ![b] = [frame[b] EXCEPT !.live = FALSE]]
        BY <3>2
      <4> HIDE DEF R
      <4>4. frame' \in [Threads -> R]
        BY <4>1, <4>2, <4>3
      <4>5. QED
        BY <4>4 DEF R
    <3>4. QED
      BY <3>1, <3>2
  <2>2. crossing' \in [Threads -> {"mark", "sweep"}]
    BY DEF PoolInv, PoolTypes
  <2>3. lock' \in Threads \union {None} /\ pc' \in [Threads -> Labels]
    BY DEF PoolInv, PoolTypes, Elsewhere
  <2>4. QED
    BY <2>1, <2>2, <2>3 DEF PoolInv, PoolTypes
<1>2. Alive' = Alive
  BY DEF Alive
<1>3. Started'
  BY <1>2 DEF PoolInv, PoolTypes, Started, Elsewhere, MainCounted
<1>4. LockHeld'
  BY ThreadsFinite DEF PoolInv, PoolTypes, LockHeld, Elsewhere
<1>5. \A b \in Threads : frame'[b].count = frame[b].count /\ frame'[b].in = frame[b].in
  BY DEF PoolInv, PoolTypes
<1>6. RunningCounted'
  BY <1>2 DEF PoolInv, RunningCounted, MainCounted
<1>7. BarrierCountsAll'
  BY <1>5 DEF PoolInv, BarrierCountsAll, MainCounted
<1>8. InBlocked'
  BY <1>5 DEF PoolInv, PoolTypes, InBlocked, Elsewhere
<1>9. \A b \in Threads : Sent(b)' \subseteq Sent(b)
  BY DEF PoolInv, PoolTypes, Sent, Elsewhere
<1>10. \A b \in Threads : Cardinality(Sent(b)') <= Cardinality(Sent(b))
  BY <1>9, AliveSent, ThreadsFinite, FS_Subset
<1>11. NoneFills'
  <2>1. \A u \in Threads : pc'[u] \in {"arrive", "blocked", "crossed"} =>
          pc[u] \in {"arrive", "blocked", "crossed"}
    BY DEF PoolInv, PoolTypes, Elsewhere
  <2>2. \A b \in Threads : Cardinality(Sent(b)) \in Nat /\ Cardinality(Sent(b)') \in Nat
                           /\ frame[b].count \in Nat
    BY <1>9, AliveSent, ThreadsFinite DEF PoolInv, PoolTypes
  <2>3. MainCounted => \A b \in Threads :
          b # barrier /\ Sent(b)' # {} => Cardinality(Sent(b)') < frame[b].count
    BY <1>9, <1>10, <2>2 DEF PoolInv, NoneFills, MainCounted
  <2>4. QED
    BY <1>5, <2>1, <2>3 DEF PoolInv, NoneFills, MainCounted
<1>12. QED
  BY <1>1, <1>3, <1>4, <1>6, <1>7, <1>8, <1>11 DEF PoolInv

(* A step that none of this is about.                                      *)
LEMMA Quiet ==
  ASSUME PoolInv, UNCHANGED <<lock, barrier, poolRunning, running, pc, at, frame, crossing, idx,
                              leftover>>
  PROVE  PoolInv'
<1>1. Alive' = Alive /\ \A b : Sent(b)' = Sent(b)
  BY DEF Alive, Sent
<1>2. QED
  BY <1>1 DEF PoolInv, PoolTypes, Started, LockHeld, RunningCounted, BarrierCountsAll,
              InBlocked, NoneFills, MainCounted
-----------------------------------------------------------------------------
LEMMA RegisterInv == ASSUME PoolInv, leftover' = leftover, Register PROVE PoolInv'
<1>1. /\ main \in Threads /\ pc[main] = "register"
      /\ barrier = None /\ Alive = {} /\ poolRunning' \in Nat
      /\ MainCounted => poolRunning' = 1
  BY ThreadsFinite DEF Register, PoolInv, PoolTypes, Started, MainCounted
<1>2. running' = [running EXCEPT ![main] = 3] /\ pc' = [pc EXCEPT ![main] = "user"]
  BY DEF Register, Goto
<1>3. UNCHANGED <<lock, barrier, frame, at, crossing, idx>>
  BY DEF Register, locals
<1>4. Alive' = {main}
  BY <1>1, <1>2 DEF Alive, PoolInv, PoolTypes
<1>5. PoolTypes'
  BY <1>1, <1>2, <1>3 DEF PoolInv, PoolTypes, Labels
<1>6. Started'
  BY <1>1, <1>2, <1>3 DEF PoolInv, PoolTypes, Started, MainCounted
<1>7. LockHeld'
  BY <1>1, <1>2, <1>3 DEF PoolInv, PoolTypes, LockHeld
<1>8. RunningCounted'
  BY <1>1, <1>4, FS_Singleton DEF RunningCounted, MainCounted
<1>9. BarrierCountsAll'
  BY <1>1, <1>3, ThreadsFinite DEF BarrierCountsAll, MainCounted
<1>10. InBlocked'
  BY <1>1, <1>2, <1>3 DEF PoolInv, PoolTypes, InBlocked
<1>11. \A b : Sent(b)' = Sent(b)
  BY <1>1, <1>2, <1>3 DEF PoolInv, PoolTypes, Sent
<1>12. NoneFills'
  BY <1>1, <1>2, <1>3, <1>11 DEF PoolInv, PoolTypes, NoneFills, MainCounted
<1>13. QED
  BY <1>5, <1>6, <1>7, <1>8, <1>9, <1>10, <1>12 DEF PoolInv

(* thread_pool_find holds the lock and there is no barrier: one more       *)
(* thread runs, and is counted.                                            *)
LEMMA StartThreadInv ==
  ASSUME PoolInv, leftover' = leftover, NEW t \in Threads, StartThread(t) PROVE PoolInv'
<1> DEFINE i == idx[t]
<1>1. i \in Threads /\ running[i] = 0 /\ pc[t] = "scan" /\ lock = t /\ barrier = None /\ i # t
  BY PoolAssumption DEF StartThread, PoolInv, PoolTypes, LockHeld, Started, Threads, MainCounted
<1>2. /\ running' = [running EXCEPT ![i] = 2] /\ poolRunning' = poolRunning + 1
      /\ lock' = None /\ pc' = [pc EXCEPT ![t] = "append", ![i] = "sleep"]
      /\ UNCHANGED <<barrier, frame, at, crossing, idx>>
  BY DEF StartThread, locals
<1>3. Alive' = Alive \union {i} /\ i \notin Alive
  BY <1>1, <1>2 DEF Alive, PoolInv, PoolTypes
<1>4. PoolTypes'
  BY <1>1, <1>2 DEF PoolInv, PoolTypes, Labels
<1>5. pc[i] \in {"none", "register"} /\ t \in Alive
  BY <1>1 DEF PoolInv, PoolTypes, Started, Alive, MainCounted
<1>6. Started'
  BY <1>1, <1>2, <1>5 DEF PoolInv, PoolTypes, Started, MainCounted
<1>7. LockHeld'
  BY <1>1, <1>2, ThreadsFinite DEF PoolInv, PoolTypes, LockHeld
<1>8. RunningCounted'
  BY <1>2, <1>3, AliveSent, ThreadsFinite, FS_AddElement DEF PoolInv, RunningCounted, MainCounted
<1>9. BarrierCountsAll'
  BY <1>1, <1>2, ThreadsFinite DEF BarrierCountsAll, MainCounted
<1>10. InBlocked'
  BY <1>1, <1>2, <1>5 DEF PoolInv, PoolTypes, InBlocked
<1>11. \A b : Sent(b)' = Sent(b)
  BY <1>1, <1>2, <1>5 DEF PoolInv, PoolTypes, Sent
<1>12. NoneFills'
  BY <1>1, <1>2, <1>11 DEF PoolInv, PoolTypes, NoneFills, MainCounted
<1>13. QED
  BY <1>4, <1>6, <1>7, <1>8, <1>9, <1>10, <1>12 DEF PoolInv
-----------------------------------------------------------------------------
LEMMA EnterBarrierInv ==
  ASSUME PoolInv, leftover' = leftover, NEW t \in Threads, EnterBarrier(t) PROVE PoolInv'
<1>1. /\ pc[t] = "pool" /\ lock = t /\ barrier \in Threads /\ lock' = None
      /\ at' = [at EXCEPT ![t] = barrier] /\ pc' = [pc EXCEPT ![t] = "arrive"]
      /\ UNCHANGED <<barrier, poolRunning, running, frame, crossing, idx>>
  BY DEF EnterBarrier, Goto, PoolInv, PoolTypes, LockHeld, slots
<1>2. Alive' = Alive
  BY <1>1 DEF Alive
<1>3. PoolTypes'
  BY <1>1 DEF PoolInv, PoolTypes, Labels
<1>4. Started' /\ LockHeld'
  BY <1>1, <1>2, ThreadsFinite DEF PoolInv, PoolTypes, Started, LockHeld, MainCounted
<1>5. RunningCounted' /\ BarrierCountsAll'
  BY <1>1, <1>2 DEF PoolInv, RunningCounted, BarrierCountsAll, MainCounted
<1>6. InBlocked'
  BY <1>1 DEF PoolInv, PoolTypes, InBlocked
<1>7. \A b \in Threads : b # barrier => Sent(b)' = Sent(b)
  BY <1>1 DEF PoolInv, PoolTypes, Sent
<1>8. NoneFills'
  BY <1>1, <1>7 DEF PoolInv, PoolTypes, NoneFills, MainCounted
<1>9. QED
  BY <1>3, <1>4, <1>5, <1>6, <1>8 DEF PoolInv

LEMMA CreateBarrierInv ==
  ASSUME PoolInv, leftover' = leftover, NEW t \in Threads, CreateBarrier(t) PROVE PoolInv'
<1>1. /\ pc[t] = "pool" /\ lock = t /\ barrier = None /\ barrier' = t /\ lock' = None
      /\ frame' = [frame EXCEPT ![t] = [live |-> TRUE, count |-> poolRunning, in |-> {},
                                        fn |-> crossing[t]]]
      /\ at' = [at EXCEPT ![t] = t] /\ pc' = [pc EXCEPT ![t] = "arrive"]
      /\ UNCHANGED <<poolRunning, running, crossing, idx>>
  BY DEF CreateBarrier, Goto, NoBarrier, BarrierCount, PoolInv, PoolTypes, LockHeld, slots
<1>2. Alive' = Alive
  BY <1>1 DEF Alive
<1>3. PoolTypes'
  BY <1>1 DEF PoolInv, PoolTypes, Labels
<1>4. \A u \in Threads : pc[u] # "scan" /\ pc[u] # "register"
  BY <1>1 DEF PoolInv, PoolTypes, LockHeld, Started, Alive, MainCounted
<1>5. Started'
  BY <1>1, <1>2, <1>4 DEF PoolInv, PoolTypes, Started, MainCounted
<1>6. LockHeld'
  BY <1>1, <1>4, ThreadsFinite DEF PoolInv, PoolTypes, LockHeld
<1>7. RunningCounted' /\ BarrierCountsAll'
  BY <1>1, <1>2 DEF PoolInv, PoolTypes, RunningCounted, BarrierCountsAll, Alive, MainCounted
<1>8. InBlocked'
  BY <1>1 DEF PoolInv, PoolTypes, InBlocked
<1>9. \A b \in Threads \ {t} : Sent(b)' = Sent(b) /\ frame'[b] = frame[b]
  BY <1>1 DEF PoolInv, PoolTypes, Sent
<1>10. NoneFills'
  <2>1. \A u \in Threads : pc'[u] \in {"arrive", "blocked", "crossed"} => at'[u] \in Threads
    BY <1>1 DEF PoolInv, PoolTypes, NoneFills, MainCounted
  <2>2. \A b \in Threads \ {t} : b # barrier
    BY <1>1, ThreadsFinite
  <2>3. MainCounted => \A b \in Threads \ {t} :
          Sent(b)' # {} => Cardinality(Sent(b)') < frame'[b].count
    BY <1>9, <2>2 DEF PoolInv, NoneFills, MainCounted
  <2>4. QED
    BY <1>1, <2>1, <2>3 DEF NoneFills, MainCounted
<1>11. QED
  BY <1>3, <1>5, <1>6, <1>7, <1>8, <1>10 DEF PoolInv

(* The creator is through the barrier it resets, so that at least it is    *)
(* not among the latecomers.                                               *)
LEMMA ResetBarrierInv ==
  ASSUME PoolInv, leftover' = leftover, NEW t \in Threads, ResetBarrier(t) PROVE PoolInv'
<1>1. /\ pc[t] = "crossed" /\ barrier' = None /\ pc' = [pc EXCEPT ![t] = "destroy"]
      /\ UNCHANGED <<lock, poolRunning, running, frame, at, crossing, idx>>
  BY DEF ResetBarrier, Goto, locals, slots
<1>2. Alive' = Alive
  BY <1>1 DEF Alive
<1>3. PoolTypes'
  BY <1>1 DEF PoolInv, PoolTypes, Labels
<1>4. Started' /\ LockHeld'
  BY <1>1, <1>2 DEF PoolInv, PoolTypes, Started, LockHeld, MainCounted
<1>5. RunningCounted' /\ BarrierCountsAll'
  BY <1>1, <1>2, ThreadsFinite DEF PoolInv, RunningCounted, BarrierCountsAll, MainCounted
<1>6. InBlocked'
  BY <1>1 DEF PoolInv, PoolTypes, InBlocked
<1>7. \A b \in Threads : Sent(b)' = Sent(b)
  BY <1>1 DEF PoolInv, PoolTypes, Sent
<1>8. ASSUME MainCounted, NEW b \in Threads, b = barrier
      PROVE  Cardinality(Sent(b)) < frame[b].count
  <2>1. t \in Alive /\ t \notin Sent(b)
    BY <1>1 DEF PoolInv, PoolTypes, Started, Alive, Sent, MainCounted
  <2>2. Sent(b) \subseteq Alive
    BY DEF PoolInv, PoolTypes, Started, Alive, Sent, MainCounted
  <2>3. IsFiniteSet(Alive) /\ Sent(b) # Alive
    BY <2>1, AliveSent, ThreadsFinite
  <2>4. Cardinality(Sent(b)) < Cardinality(Alive)
    <3>1. Cardinality(Sent(b)) <= Cardinality(Alive)
          /\ (Cardinality(Sent(b)) = Cardinality(Alive) => Sent(b) = Alive)
      BY <2>2, <2>3, FS_Subset
    <3>2. QED
      BY <3>1, <2>3, AliveSent, ThreadsFinite
  <2>5. QED
    BY <1>8, <2>4 DEF PoolInv, BarrierCountsAll, Alive, MainCounted
<1>9. NoneFills'
  BY <1>1, <1>7, <1>8 DEF PoolInv, PoolTypes, NoneFills, MainCounted
<1>10. QED
  BY <1>3, <1>4, <1>5, <1>6, <1>9 DEF PoolInv
-----------------------------------------------------------------------------
(* The set of threads a barrier has when t arrives.                        *)
In(t) == frame[at[t]].in \union {t}

(* A barrier that is full is the current one, and everybody is there.      *)
LEMMA FullHasAll ==
  ASSUME PoolInv, MainCounted, NEW t \in Threads, pc[t] = "arrive",
         Cardinality(In(t)) = frame[at[t]].count
  PROVE  In(t) = Alive
<1> DEFINE b == at[t]
<1>1. b \in Threads /\ In(t) \subseteq Sent(b) /\ In(t) # {}
  BY DEF PoolInv, PoolTypes, NoneFills, InBlocked, In, Sent, MainCounted
<1>2. Cardinality(In(t)) <= Cardinality(Sent(b))
  BY <1>1, AliveSent, ThreadsFinite, FS_Subset
<1>3. /\ Cardinality(Sent(b)) \in Nat /\ Cardinality(In(t)) \in Nat
      /\ IsFiniteSet(Alive) /\ Cardinality(Alive) \in Nat
  BY <1>1, AliveSent, ThreadsFinite, FS_Subset
<1>4. b = barrier
  BY <1>1, <1>2, <1>3 DEF PoolInv, NoneFills, MainCounted
<1>5. Cardinality(In(t)) = Cardinality(Alive)
  BY <1>1, <1>4 DEF PoolInv, BarrierCountsAll, Alive, MainCounted
<1>6. In(t) \subseteq Alive
  BY <1>1 DEF PoolInv, PoolTypes, Started, Alive, Sent, MainCounted
<1>7. QED
  BY <1>3, <1>5, <1>6, FS_Subset

LEMMA ArriveInv ==
  ASSUME PoolInv, leftover' = leftover, NEW t \in Threads, Arrive(t) PROVE PoolInv'
<1> DEFINE b == at[t]
           full == Cardinality(In(t)) = frame[b].count
<1>1. /\ pc[t] = "arrive" /\ b \in Threads
      /\ frame' = [frame EXCEPT ![b].in = IF full THEN {} ELSE In(t)]
      /\ pc' = [u \in Threads |-> IF full /\ u \in In(t) THEN "crossed"
                                  ELSE IF u = t THEN "blocked" ELSE pc[u]]
      /\ UNCHANGED <<lock, barrier, poolRunning, running, at, crossing, idx>>
  BY DEF Arrive, In, pool, slots, locals, PoolInv, NoneFills, MainCounted
<1>2. Alive' = Alive
  BY <1>1 DEF Alive
<1>3. In(t) \in SUBSET Threads /\ \A u \in In(t) : pc[u] \in {"arrive", "blocked"} /\ at[u] = b
  BY <1>1 DEF In, PoolInv, PoolTypes, InBlocked
<1>3a. \A u \in Threads : \/ pc'[u] = pc[u]
                          \/ pc[u] \in {"arrive", "blocked"} /\ pc'[u] \in {"blocked", "crossed"}
  <2>1. TAKE u \in Threads
  <2>2. CASE full /\ u \in In(t)
    <3>1. pc'[u] = "crossed"
      BY <1>1, <2>2
    <3>2. QED
      BY <1>3, <2>2, <3>1
  <2>3. CASE ~(full /\ u \in In(t)) /\ u = t
    <3>1. pc'[u] = "blocked"
      BY <1>1, <2>3
    <3>2. QED
      BY <1>1, <2>3, <3>1
  <2>4. CASE ~(full /\ u \in In(t)) /\ u # t
    <3>1. pc'[u] = pc[u]
      BY <1>1, <2>4
    <3>2. QED
      BY <3>1
  <2>5. QED
    BY <2>2, <2>3, <2>4
<1>4. PoolTypes'
  <2>1. pc' \in [Threads -> Labels]
    <3>1. \A u \in Threads : pc'[u] \in Labels
      BY <1>3a DEF PoolInv, PoolTypes, Labels
    <3>2. DOMAIN pc' = Threads /\ pc' = [u \in Threads |-> pc'[u]]
      BY <1>1
    <3>3. QED
      BY <3>1, <3>2
  <2>2. QED
    BY <1>1, <1>3, <2>1 DEF PoolInv, PoolTypes
<1>5. Started' /\ LockHeld'
  <2>2. Started'
    <3>1. \A u \in Threads : /\ pc'[u] \in {"none", "register"} <=> pc[u] \in {"none", "register"}
                             /\ pc'[u] = "register" => pc[u] = "register"
      BY <1>3a
    <3>2. UNCHANGED <<running, barrier, leftover, Alive>>
      BY <1>1, <1>2
    <3>3. QED
      BY <3>1, <3>2 DEF PoolInv, Started, MainCounted
  <2>3. LockHeld'
    BY <1>1, <1>3a DEF PoolInv, LockHeld
  <2>4. QED
    BY <2>2, <2>3
<1>6. \A c \in Threads : frame'[c].count = frame[c].count
  BY <1>1 DEF PoolInv, PoolTypes
<1>7. RunningCounted' /\ BarrierCountsAll'
  BY <1>1, <1>2, <1>6 DEF PoolInv, RunningCounted, BarrierCountsAll, MainCounted
<1>8. InBlocked'
  <2>1. CASE full
    BY <1>1, <1>3, <2>1 DEF PoolInv, PoolTypes, InBlocked
  <2>2. CASE ~full
    BY <1>1, <1>3, <2>2 DEF PoolInv, PoolTypes, InBlocked, In
  <2>3. QED
    BY <2>1, <2>2
<1>9. \A c \in Threads : Sent(c)' \subseteq Sent(c)
  BY <1>1, <1>3 DEF PoolInv, PoolTypes, Sent
<1>10. \A c \in Threads : /\ Cardinality(Sent(c)') <= Cardinality(Sent(c))
                          /\ Cardinality(Sent(c)') \in Nat /\ Cardinality(Sent(c)) \in Nat
                          /\ frame[c].count \in Nat
  BY <1>9, AliveSent, ThreadsFinite, FS_Subset DEF PoolInv, PoolTypes
<1>11. MainCounted => \A c \in Threads :
          c # barrier /\ Sent(c)' # {} => Cardinality(Sent(c)') < frame[c].count
  BY <1>9, <1>10 DEF PoolInv, NoneFills, MainCounted
<1>12. \A u \in Threads : pc'[u] \in {"arrive", "blocked", "crossed"} => at'[u] \in Threads
  BY <1>1, <1>3 DEF PoolInv, NoneFills, MainCounted
<1>13. NoneFills'
  BY <1>1, <1>6, <1>11, <1>12 DEF NoneFills, MainCounted
<1>14. QED
  BY <1>4, <1>5, <1>7, <1>8, <1>13 DEF PoolInv
-----------------------------------------------------------------------------
(* The steps of a thread in the run-time system.                           *)
LEMMA StepInv == ASSUME PoolInv, leftover' = leftover, NEW t \in Threads, Step(t) PROVE PoolInv'
<1>0. PoolTypes /\ LockHeld
  BY DEF PoolInv
<1> USE DEF Goto, Labels, Elsewhere, pool, slots, locals
<1>1. CASE Lock(t)
  BY <1>0, <1>1, Moves DEF Lock, PoolTypes
<1>2. CASE EnterBarrier(t)
  BY <1>2, EnterBarrierInv
<1>3. CASE LeaveCheckpoint(t)
  BY <1>0, <1>3, Moves DEF LeaveCheckpoint, PoolTypes, LockHeld
<1>4. CASE StartFind(t)
  <2>1. idx' \in [Threads -> Nat]
    BY <1>0, <1>4 DEF StartFind, PoolTypes
  <2>2. QED
    BY <1>0, <1>4, <2>1, Moves DEF StartFind, NoBarrier, LockHeld
<1>5. CASE CreateBarrier(t)
  BY <1>5, CreateBarrierInv
<1>6. CASE Arrive(t)
  BY <1>6, ArriveInv
<1>7. CASE ReadCrossing(t)
  <2>1. at[t] \in Threads
    BY <1>7 DEF ReadCrossing, PoolInv, NoneFills, MainCounted
  <2>2. frame[at[t]].fn \in {"mark", "sweep"}
    BY <1>0, <2>1 DEF PoolTypes
  <2>3. QED
    BY <1>0, <1>7, <2>2, Moves DEF ReadCrossing, PoolTypes
<1>8. CASE ResetBarrier(t)
  BY <1>8, ResetBarrierInv
<1>9. CASE DestroyBarrier(t)
  <2>1. crossing[t] \in {"mark", "sweep"}
    BY <1>0 DEF PoolTypes
  <2>2. QED
    BY <1>0, <1>9, <2>1, Moves DEF DestroyBarrier, PoolTypes
<1>10. CASE GcStart(t)
  BY <1>0, <1>10, Moves DEF GcStart, PoolTypes
<1>11. CASE GcDelayed(t)
  BY <1>0, <1>11, Moves DEF GcDelayed, PoolTypes
<1>12. CASE MarkStackAndRegisters(t)
  BY <1>0, <1>12, Moves DEF MarkStackAndRegisters, AfterCrossing, PoolTypes
<1>13. CASE GcSweep(t)
  BY <1>0, <1>13, Moves DEF GcSweep, AfterCrossing, PoolTypes
<1>14. CASE StartThread(t)
  BY <1>14, StartThreadInv
<1>15. CASE LookAtThread(t)
  <2>1. idx' \in [Threads -> Nat]
    BY <1>0, <1>15 DEF LookAtThread, PoolTypes
  <2>2. pc[t] = "scan" /\ lock = t /\ barrier = None
    BY <1>0, <1>15 DEF LookAtThread, LockHeld
  <2>3. CASE Idle(idx[t])
    BY <1>15, <2>1, <2>2, <2>3, Moves DEF LookAtThread
  <2>4. CASE ~Idle(idx[t])
    BY <1>15, <2>1, <2>2, <2>4, Moves DEF LookAtThread
  <2>5. QED
    BY <2>3, <2>4
<1>16. CASE AppendRun(t)
  BY <1>0, <1>16, Moves DEF AppendRun, PoolTypes
<1>17. CASE RunReturns(t)
  BY <1>0, <1>17, Moves DEF RunReturns, PoolTypes
<1>18. CASE WaitReturns(t)
  BY <1>0, <1>18, Moves DEF WaitReturns, PoolTypes
<1>19. CASE IdleCheckpoint(t)
  BY <1>0, <1>19, Moves DEF IdleCheckpoint, PoolTypes
<1>20. CASE EndThread(t)
  BY <1>0, <1>20, Moves DEF EndThread, PoolTypes
<1>21. CASE Unqueue(t)
  BY <1>0, <1>21, Moves DEF Unqueue, PoolTypes
<1>22. CASE Begin(t)
  BY <1>0, <1>22, Moves DEF Begin, PoolTypes
<1>23. CASE Dequeue(t)
  BY <1>0, <1>23, Moves DEF Dequeue, PoolTypes
<1>24. QED
  BY <1>1, <1>2, <1>3, <1>4, <1>5, <1>6, <1>7, <1>8, <1>9, <1>10, <1>11, <1>12, <1>13,
     <1>14, <1>15, <1>16, <1>17, <1>18, <1>19, <1>20, <1>21, <1>22, <1>23 DEF Step

(* What the Eiffel code of a thread does.                                  *)
LEMMA CodeInv ==
  ASSUME PoolInv, leftover' = leftover, NEW t \in Threads, UserStep(t) \/ Checkpoint(t) \/ Finish(t)
  PROVE  PoolInv'
<1>0. PoolTypes
  BY DEF PoolInv
<1> USE DEF Goto, Labels, Elsewhere, pool, slots, locals
<1>1. CASE Allocate(t)
  BY <1>1, Quiet DEF Allocate
<1>2. CASE Run(t)
  BY <1>0, <1>2, Moves DEF Run, PoolTypes
<1>3. CASE Wait(t)
  BY <1>0, <1>3, Moves DEF Wait, PoolTypes
<1>4. CASE Collect(t)
  BY <1>0, <1>4, Moves DEF Collect, PoolTypes
<1>5. CASE Checkpoint(t)
  BY <1>0, <1>5, Moves DEF Checkpoint, PoolTypes
<1>6. CASE Finish(t)
  BY <1>0, <1>6, Moves DEF Finish, PoolTypes
<1>7. QED
  BY <1>1, <1>2, <1>3, <1>4, <1>5, <1>6 DEF UserStep

LEMMA StopInv == ASSUME PoolInv, leftover' = leftover, Stop PROVE PoolInv'
<1>1. PoolTypes /\ main \in Threads
  BY ThreadsFinite DEF PoolInv
<1>2. QED
  BY <1>1, Moves DEF Stop, Goto, Labels, Elsewhere, slots, locals, PoolTypes

LEMMA PoolNextInv == PoolInv /\ [Next]_vars => PoolInv'
<1> SUFFICES ASSUME PoolInv, [Next]_vars PROVE PoolInv'
  OBVIOUS
<1>0. leftover' = leftover
  BY SameProgram
<1>1. CASE Register
  BY <1>0, <1>1, RegisterInv
<1>2. CASE Stop
  BY <1>0, <1>2, StopInv
<1>3. ASSUME NEW t \in Threads, UserStep(t) \/ Checkpoint(t) \/ Finish(t) PROVE PoolInv'
  BY <1>0, <1>3, CodeInv
<1>4. ASSUME NEW t \in Threads, Step(t) PROVE PoolInv'
  BY <1>0, <1>4, StepInv
<1>5. CASE UNCHANGED vars
  BY <1>0, <1>5, Quiet DEF vars, pool, slots, locals
<1>6. QED
  BY <1>1, <1>2, <1>3, <1>4, <1>5 DEF Next

(* Only the last arrival lets threads through, and it lets all of them.    *)
LEMMA CrossingStep ==
  ASSUME PoolInv, MainCounted, [Next]_vars,
         NEW t \in Threads, pc[t] # "crossed", pc'[t] = "crossed",
         NEW u \in Threads, running[u] \in {2, 3}
  PROVE  pc'[u] = "crossed"
<1>0. pc \in [Threads -> Labels]
  BY DEF PoolInv, PoolTypes
<1>1. PICK a \in Threads : Arrive(a)
  <2>1. PoolTypes /\ LockHeld /\ main \in Threads
    BY ThreadsFinite DEF PoolInv
  <2>2. ~Register /\ ~Stop /\ ~(UNCHANGED vars)
    BY <1>0 DEF Register, Stop, Goto, vars
  <2>3. ASSUME NEW a \in Threads, UserStep(a) \/ Checkpoint(a) \/ Finish(a) PROVE FALSE
    BY <1>0, <2>3 DEF UserStep, Allocate, Run, Wait, Collect, Checkpoint, Finish, Goto
  <2>4. ASSUME NEW a \in Threads, Step(a), ~Arrive(a) PROVE FALSE
    <3> USE <1>0 DEF Goto
    <3>1. ASSUME NEW l, l # "crossed", pc' = [pc EXCEPT ![a] = l] PROVE FALSE
      BY <3>1
    <3>2. ~ReadCrossing(a)
      <4>1. pc[a] = "crossed" => at[a] \in Threads
        BY DEF PoolInv, NoneFills, MainCounted
      <4>2. at[a] \in Threads => frame[at[a]].fn # "crossed"
        BY <2>1 DEF PoolTypes
      <4>3. QED
        BY <3>1, <4>1, <4>2 DEF ReadCrossing
    <3>3. ~DestroyBarrier(a)
      <4>1. crossing[a] # "crossed"
        BY <2>1 DEF PoolTypes
      <4>2. QED
        BY <3>1, <4>1 DEF DestroyBarrier
    <3>4. ~StartThread(a)
      BY DEF StartThread
    <3>5. QED
      BY <2>4, <3>1, <3>2, <3>3, <3>4
         DEF Step, Lock, EnterBarrier, LeaveCheckpoint, StartFind, CreateBarrier,
             ResetBarrier, GcStart, GcDelayed, MarkStackAndRegisters, AfterCrossing, GcSweep,
             LookAtThread, AppendRun, RunReturns, WaitReturns, IdleCheckpoint, EndThread,
             Unqueue, Begin, Dequeue
  <2>5. QED
    BY <2>2, <2>3, <2>4 DEF Next
<1>2. /\ pc[a] = "arrive"
      /\ pc' = [v \in Threads |->
                  IF Cardinality(In(a)) = frame[at[a]].count /\ v \in In(a) THEN "crossed"
                  ELSE IF v = a THEN "blocked" ELSE pc[v]]
  BY <1>1 DEF Arrive, In
<1>3. Cardinality(In(a)) = frame[at[a]].count
  BY <1>2
<1>4. u \in In(a)
  BY <1>2, <1>3, FullHasAll DEF Alive
<1>5. QED
  BY <1>2, <1>3, <1>4
-----------------------------------------------------------------------------
(* PoolInv holds in every state, whatever malloc left in the slots.        *)
THEOREM PoolInvariance == Spec => []PoolInv
<1>1. Init => PoolInv
  BY InitPoolInv
<1>2. QED
  BY <1>1, PoolNextInv, PTL DEF Spec

(* A barrier stands for all the threads there are, for any number of them, *)
(* if the pool has counted the main thread, and whichever other slots      *)
(* looked used.                                                            *)
THEOREM BarrierForAll == Spec => []BarrierCountsAll
<1>1. PoolInv => BarrierCountsAll
  BY DEF PoolInv
<1>2. QED
  BY <1>1, PoolInvariance, PTL

(* Nobody gets through a barrier before every thread has come, whatever    *)
(* latecomers there are, if the pool has counted the main thread: all      *)
(* stacks are at rest when marking begins.                                 *)
THEOREM TogetherThrough == Spec => CrossTogether
<1>1. PoolInv /\ [Next]_vars =>
        [main \notin leftover =>
           \A t \in Threads : pc[t] # "crossed" /\ pc'[t] = "crossed" =>
             \A u \in Threads : running[u] \in {2, 3} => pc'[u] = "crossed"]_vars
  BY CrossingStep DEF MainCounted
<1>2. QED
  BY <1>1, PoolInvariance, PTL DEF Spec, CrossTogether
-----------------------------------------------------------------------------
(* Numbers that are finitely many have a greatest among them.              *)
LEMMA Greatest ==
  ASSUME NEW n \in Nat \ {0}, NEW r \in [1 .. n -> Nat]
  PROVE  \E m \in 1 .. n : \A i \in 1 .. n : r[i] <= r[m]
<1> DEFINE HasGreatest(k) == \E m \in 1 .. k : \A i \in 1 .. k : r[i] <= r[m]
           Without == {k \in 1 .. n : ~HasGreatest(k)}
<1>1. SUFFICES ASSUME Without # {} PROVE FALSE
  <2>1. n \in 1 .. n
    OBVIOUS
  <2> QED
    BY <2>1
<1>2. PICK k \in Without : \A l \in Without : k <= l
  <2> HIDE DEF Without
  <2>1. Without \in SUBSET Nat
    BY DEF Without
  <2> QED
    BY <1>1, <2>1, Lists!LeastNat
<1>3. k \in 1 .. n /\ ~HasGreatest(k)
  BY <1>2
<1> HIDE DEF HasGreatest
<1>4. CASE k = 1
  BY <1>3, <1>4 DEF HasGreatest
<1>5. CASE k # 1
  <2>1. k - 1 \in 1 .. n /\ HasGreatest(k - 1)
    <3>1. k - 1 \in 1 .. n /\ ~(k <= k - 1)
      BY <1>3, <1>5
    <3> QED
      BY <1>2, <3>1
  <2>2. PICK m \in 1 .. k - 1 : \A i \in 1 .. k - 1 : r[i] <= r[m]
    BY <2>1 DEF HasGreatest
  <2>3. \A i \in 1 .. k : i = k \/ i \in 1 .. k - 1
    BY <1>3
  <2>4. r[k] \in Nat /\ r[m] \in Nat /\ \A i \in 1 .. k - 1 : r[i] \in Nat
    BY <1>3, <2>1
  <2>5. CASE r[k] <= r[m]
    <3>1. m \in 1 .. k /\ \A i \in 1 .. k : r[i] <= r[m]
      BY <1>3, <2>2, <2>3, <2>5
    <3> QED
      BY <1>3, <3>1 DEF HasGreatest
  <2>6. CASE r[m] <= r[k]
    <3>1. k \in 1 .. k /\ \A i \in 1 .. k : r[i] <= r[k]
      BY <1>3, <2>2, <2>3, <2>4, <2>6
    <3> QED
      BY <1>3, <3>1 DEF HasGreatest
  <2> QED
    BY <2>4, <2>5, <2>6
<1> QED
  BY <1>4, <1>5

(* The bounds of the programs have a maximum.                              *)
LEMMA MaxRunsNat == MaxRuns \in Nat
<1> DEFINE S == {p.runs : p \in Programs}
<1>1. S \in SUBSET Nat /\ S # {}
  BY PoolAssumption
<1>2. PICK n \in Nat : ExistsSurjection(1 .. n, Programs)
  BY PoolAssumption, FS_NatSurjection
<1>3. PICK f \in [1 .. n -> Programs] : \A p \in Programs : \E i \in 1 .. n : f[i] = p
  BY <1>2 DEF ExistsSurjection, Surjection
<1> DEFINE r == [i \in 1 .. n |-> f[i].runs]
<1>4. n # 0 /\ r \in [1 .. n -> Nat]
  BY <1>3, PoolAssumption
<1>5. PICK m \in 1 .. n : \A i \in 1 .. n : r[i] <= r[m]
  BY <1>4, Greatest
<1>6. \E x \in S : \A y \in S : x >= y
  <2>1. ASSUME NEW p \in Programs PROVE f[m].runs >= p.runs
    BY <1>3, <1>4, <1>5
  <2> QED
    BY <2>1
<1> QED
  <2> HIDE DEF S
  <2>1. Max(S) \in S
    BY <1>6 DEF Max
  <2> QED
    BY <1>1, <2>1 DEF MaxRuns, S
-----------------------------------------------------------------------------
(***************************************************************************)
(* The queues, in a program that does not call THREAD_CONTEXT.wait.        *)
(***************************************************************************)
WaitFree == "wait" \notin program.ops

Pooled == Threads \ {main}

Inside == {"lock", "pool", "arrive", "blocked", "crossed", "mark", "sweep"}

(* A thread that has taken a cell and not yet removed it from its queue.   *)
Busy(t) ==
  /\ t # main
  /\ \/ pc[t] \in {"begin", "user", "gclock", "scan", "append", "starting", "destroy", "dequeue"}
     \/ pc[t] \in Inside /\ ret[t] # "idle"
Past(t) == Busy(t) /\ pc[t] # "begin"

CellRecord ==
  [live : BOOLEAN, next : Cells \union {NULL}, started : BOOLEAN, done : BOOLEAN, run : Nat]

QueueTypes ==
  /\ queueFirst \in [Threads -> Cells \union {NULL}]
  /\ queueLast \in [Threads -> Cells \union {NULL}]
  /\ queueLength \in [Threads -> Nat]
  /\ data \in [Cells -> CellRecord]
  /\ ret \in [Threads -> {"user", "idle", "find", "create"}]
  /\ cur \in [Threads -> Cells \union {NULL}]
  /\ queued \in Nat /\ begun \in [1 .. MaxRuns -> Nat]

(* Whoever makes a barrier is in gc_start or se_thread_stop, not in the    *)
(* checkpoint of an idle thread.                                           *)
CreatorOK ==
  /\ barrier # None =>
       pc[barrier] \in {"arrive", "blocked", "crossed"} /\ at[barrier] = barrier
  /\ \A t \in Threads :
       /\ pc[t] \in {"arrive", "blocked", "crossed", "mark", "sweep", "destroy"} /\ at[t] = t =>
            ret[t] # "idle"
       /\ pc[t] = "destroy" => at[t] = t

(* The main thread has no queue and is given no cell.                      *)
MainOK ==
  /\ pc[main] \notin {"none", "sleep", "begin", "dequeue", "ended"}
  /\ ret[main] # "idle"
  /\ pc[main] # "register" => queueLength[main] = Huge
  /\ queueFirst[main] = NULL
  /\ \A t \in Threads : /\ pc[t] = "append" => idx[t] \in Pooled
                        /\ pc[t] # "waiting"

CurrentOK == \A t \in Threads : Busy(t) => queueLength[t] > 0 /\ cur[t] = queueFirst[t]

(* q[t][i] is the i-th cell ever put into the queue of t; the first lo[t]  *)
(* of them have left it.  Only the first may have been started.            *)
Ends(q, lo, t) ==
  /\ queueLength[t] = 0 => queueFirst[t] = NULL /\ queueLast[t] = NULL
  /\ queueLength[t] > 0 => /\ queueFirst[t] = q[t][lo[t] + 1]
                           /\ queueLast[t] = q[t][lo[t] + queueLength[t]]
Present(lo, t) == lo[t] + 1 .. lo[t] + queueLength[t]
Linked(q, lo, t) ==
  \A i \in Present(lo, t) :
    /\ q[t][i] \in Cells /\ data[q[t][i]].live
    /\ data[q[t][i]].next = IF i = lo[t] + queueLength[t] THEN NULL ELSE q[t][i + 1]
    /\ data[q[t][i]].started => i = lo[t] + 1 /\ Past(t)
Apart(q, lo, t, u) ==
  \A i \in Present(lo, t), j \in Present(lo, u) : q[t][i] = q[u][j] => t = u /\ i = j
Chained(q, lo) ==
  \A t \in Pooled : /\ Ends(q, lo, t) /\ Linked(q, lo, t)
                    /\ \A u \in Pooled : Apart(q, lo, t, u)
Chains ==
  \E q \in [Threads -> [Nat -> Cells \union {NULL}]], lo \in [Threads -> Nat] : Chained(q, lo)

(* A cell has a run of its own, which was begun if the cell was started.   *)
RunsOK ==
  /\ \A d, e \in Cells : data[d].live /\ data[e].live /\ data[d].run = data[e].run => d = e
  /\ \A d \in Cells : data[d].live => data[d].run <= queued
  /\ \A r \in 1 .. MaxRuns :
       \/ begun[r] = 0
       \/ begun[r] = 1 /\ \E d \in Cells : data[d].live /\ data[d].started /\ data[d].run = r

QueueInv ==
  WaitFree => /\ QueueTypes /\ CreatorOK /\ MainOK /\ CurrentOK /\ Chains /\ RunsOK
-----------------------------------------------------------------------------
LEMMA NoNULL == NULL \notin Cells
BY PoolAssumption DEF NULL

LEMMA HugeNat == Huge \in Nat /\ Huge > 0
BY MaxRunsNat DEF Huge

LEMMA InitQueue == ASSUME Init PROVE QueueInv
<1>1. main \in Threads /\ None \notin Threads /\ MaxRuns \in Nat
  BY ThreadsFinite, MaxRunsNat
<1>2. QueueTypes
  BY <1>1 DEF Init, QueueTypes, NULL, CellRecord
<1>3. CreatorOK /\ MainOK /\ CurrentOK
  BY <1>1 DEF Init, CreatorOK, MainOK, CurrentOK, Busy, Inside
<1>4. Chains
  <2> DEFINE q == [t \in Threads |-> [i \in Nat |-> NULL]]
             lo == [t \in Threads |-> 0]
  <2>1. \A t \in Threads : Present(lo, t) = {}
    BY DEF Init, Present
  <2>2. \A t \in Threads : Ends(q, lo, t)
    BY DEF Init, Ends
  <2>3. Chained(q, lo)
    <3> HIDE DEF q, lo
    <3> QED
      BY <2>1, <2>2 DEF Chained, Linked, Apart, Pooled
  <2>4. q \in [Threads -> [Nat -> Cells \union {NULL}]] /\ lo \in [Threads -> Nat]
    OBVIOUS
  <2> HIDE DEF q, lo
  <2> QED
    BY <2>3, <2>4 DEF Chains
<1>5. RunsOK
  BY <1>1 DEF Init, RunsOK
<1> QED
  BY <1>2, <1>3, <1>4, <1>5 DEF QueueInv

cellVars == <<queueFirst, queueLast, queueLength, cur, begun, queued>>

(* What a step that leaves the queues alone does to the cells.             *)
CellsKept ==
  /\ data' \in [Cells -> CellRecord]
  /\ \A d \in Cells : /\ data'[d].live = data[d].live /\ data'[d].next = data[d].next
                      /\ data'[d].started = data[d].started /\ data'[d].run = data[d].run

LEMMA CellsSame == ASSUME QueueTypes, UNCHANGED data PROVE CellsKept
BY DEF QueueTypes, CellsKept

LEMMA CellDone ==
  ASSUME QueueTypes, NEW e \in Cells, data' = [data EXCEPT ![e].done = TRUE] PROVE CellsKept
<1>1. \A r \in CellRecord :
        LET r2 == [r EXCEPT !.done = TRUE] IN
        /\ r2 \in CellRecord
        /\ r2.live = r.live /\ r2.next = r.next /\ r2.started = r.started /\ r2.run = r.run
  BY DEF CellRecord
<1>2. data' = [data EXCEPT ![e] = [data[e] EXCEPT !.done = TRUE]]
  OBVIOUS
<1> QED
  BY <1>1, <1>2 DEF QueueTypes, CellsKept

LEMMA QueuesKept ==
  ASSUME QueueInv, WaitFree, UNCHANGED cellVars, CellsKept,
         ret' \in [Threads -> {"user", "idle", "find", "create"}],
         CreatorOK', MainOK',
         \A t \in Pooled : /\ Busy(t)' => Busy(t)
                           /\ Past(t) => Past(t)'
  PROVE  QueueInv'
<1>1. /\ QueueTypes /\ CreatorOK /\ MainOK /\ CurrentOK /\ Chains /\ RunsOK
  BY DEF QueueInv
<1>2. UNCHANGED <<queueFirst, queueLast, queueLength, cur, begun, queued>>
  BY DEF cellVars
<1>3. /\ data' \in [Cells -> CellRecord]
      /\ \A d \in Cells : /\ data'[d].live = data[d].live /\ data'[d].next = data[d].next
                          /\ data'[d].started = data[d].started /\ data'[d].run = data[d].run
  BY DEF CellsKept
<1>4. QueueTypes'
  BY <1>1, <1>2, <1>3 DEF QueueTypes
<1>5. CurrentOK'
  <2>1. \A t \in Threads : Busy(t)' => t \in Pooled
    BY DEF Busy, Pooled
  <2> QED
    BY <1>1, <1>2, <2>1 DEF CurrentOK
<1>6. Chains'
  <2>1. PICK q \in [Threads -> [Nat -> Cells \union {NULL}]], lo \in [Threads -> Nat] :
          Chained(q, lo)
    BY <1>1 DEF Chains
  <2>2. \A t \in Pooled : Ends(q, lo, t)' /\ Linked(q, lo, t)'
    BY <1>2, <1>3, <2>1 DEF Chained, Ends, Linked, Present
  <2>3. \A t, u \in Pooled : Apart(q, lo, t, u)'
    BY <1>2, <2>1 DEF Chained, Apart, Present
  <2>4. Chained(q, lo)'
    BY <2>2, <2>3 DEF Chained
  <2> QED
    BY <2>4 DEF Chains
<1>7. RunsOK'
  BY <1>1, <1>2, <1>3 DEF RunsOK
<1> QED
  BY <1>4, <1>5, <1>6, <1>7 DEF QueueInv

BusyAt(l, r) ==
  \/ l \in {"begin", "user", "gclock", "scan", "append", "starting", "destroy", "dequeue"}
  \/ l \in Inside /\ r # "idle"

(* One thread goes on, and meets what CreatorOK and MainOK ask of it.      *)
Alone(t) ==
  /\ ret' \in [Threads -> {"user", "idle", "find", "create"}]
  /\ \A u \in Threads \ {t} : pc'[u] = pc[u] /\ ret'[u] = ret[u] /\ idx'[u] = idx[u]
  /\ UNCHANGED <<cellVars, barrier, at>>

Allowed(t) ==
  /\ pc[t] # "register" /\ pc'[t] \notin {"none", "register", "waiting"}
  /\ barrier = t => pc'[t] \in {"arrive", "blocked", "crossed"}
  /\ pc'[t] = "append" => idx'[t] \in Pooled
  /\ pc'[t] = "destroy" => at[t] = t
  /\ pc'[t] \in {"arrive", "blocked", "crossed", "mark", "sweep", "destroy"} /\ at[t] = t =>
       ret'[t] # "idle"
  /\ t = main => pc'[t] \notin {"sleep", "begin", "dequeue", "ended"} /\ ret'[t] # "idle"
  /\ t # main => /\ BusyAt(pc'[t], ret'[t]) => BusyAt(pc[t], ret[t])
                 /\ BusyAt(pc[t], ret[t]) /\ pc[t] # "begin" =>
                      BusyAt(pc'[t], ret'[t]) /\ pc'[t] # "begin"

LEMMA QueueMoves ==
  ASSUME QueueInv, PoolInv, WaitFree, NEW t \in Threads, Alone(t), Allowed(t), CellsKept
  PROVE  QueueInv'
<1>0. /\ barrier \in Threads \union {None} /\ main \in Threads /\ None \notin Threads
  BY ThreadsFinite DEF PoolInv, PoolTypes
<1>1. CreatorOK /\ MainOK
  BY DEF QueueInv
<1>2. CreatorOK'
  BY <1>0, <1>1 DEF CreatorOK, Alone, Allowed
<1>3. MainOK'
  BY <1>0, <1>1 DEF MainOK, cellVars, Pooled, Alone, Allowed
<1>4. ASSUME NEW u \in Pooled
      PROVE  (Busy(u)' => Busy(u)) /\ (Past(u) => Past(u)')
  <2>1. CASE u = t
    BY <1>0, <1>4, <2>1 DEF Busy, Past, BusyAt, Pooled, Allowed
  <2>2. CASE u # t
    BY <1>0, <1>4, <2>2 DEF Busy, Past, Pooled, Alone
  <2> QED
    BY <2>1, <2>2
<1> QED
  BY <1>0, <1>2, <1>3, <1>4, QueuesKept DEF Alone

(* Where the thread was, in the words QueueMoves needs.                    *)
LEMMA QueueFacts ==
  ASSUME QueueInv, PoolInv, WaitFree, NEW t \in Threads
  PROVE  /\ ret \in [Threads -> {"user", "idle", "find", "create"}]
         /\ pc \in [Threads -> Labels] /\ idx \in [Threads -> Nat]
         /\ QueueTypes
         /\ barrier = t => pc[t] \in {"arrive", "blocked", "crossed"} /\ at[t] = t
         /\ pc[t] = "destroy" => at[t] = t
         /\ pc[t] \in {"arrive", "blocked", "crossed", "mark", "sweep", "destroy"} /\ at[t] = t =>
              ret[t] # "idle"
         /\ pc[t] = "crossed" => at[t] \in Threads /\ frame[at[t]].fn \in {"mark", "sweep"}
         /\ pc[t] = "append" => idx[t] \in Pooled
         /\ pc[t] # "waiting"
         /\ crossing[t] \in {"mark", "sweep"}
         /\ t = main => /\ pc[t] \notin {"none", "sleep", "begin", "dequeue", "ended"}
                        /\ ret[t] # "idle"
<1>1. CreatorOK /\ MainOK /\ QueueTypes /\ PoolTypes /\ NoneFills
  BY DEF QueueInv, PoolInv
<1>2. None \notin Threads
  BY ThreadsFinite
<1>3. pc[t] = "crossed" => at[t] \in Threads
  BY <1>1 DEF NoneFills
<1>4. \A b \in Threads : frame[b].fn \in {"mark", "sweep"}
  BY <1>1 DEF PoolTypes
<1> QED
  BY <1>1, <1>2, <1>3, <1>4 DEF CreatorOK, MainOK, QueueTypes, PoolTypes

LEMMA SimpleQueue ==
  ASSUME QueueInv, PoolInv, WaitFree, NEW t \in Threads,
         \/ Lock(t) \/ LeaveCheckpoint(t) \/ StartFind(t) \/ ReadCrossing(t)
         \/ DestroyBarrier(t) \/ GcStart(t) \/ GcDelayed(t) \/ MarkStackAndRegisters(t)
         \/ GcSweep(t) \/ RunReturns(t) \/ IdleCheckpoint(t) \/ EndThread(t)
         \/ Allocate(t) \/ Run(t) \/ Collect(t) \/ Checkpoint(t)
  PROVE  QueueInv'
<1>1. CellsKept
  <2>1. UNCHANGED data
    BY DEF Lock, LeaveCheckpoint, StartFind, ReadCrossing, DestroyBarrier, GcStart, GcDelayed,
       MarkStackAndRegisters, GcSweep, RunReturns, IdleCheckpoint, EndThread, Allocate, Run,
       Collect, Checkpoint
  <2> QED
    BY <2>1, QueueFacts, CellsSame
<1>2. Alone(t)
  BY QueueFacts DEF Alone, Lock, LeaveCheckpoint, StartFind, ReadCrossing, DestroyBarrier, GcStart,
     GcDelayed, MarkStackAndRegisters, GcSweep, RunReturns, IdleCheckpoint, EndThread,
     Allocate, Run, Collect, Checkpoint, Goto, pool, slots, locals, history, cellVars
<1>3. Allowed(t)
  <2> USE QueueFacts DEF Allowed, BusyAt, Inside, Goto, pool, locals
  <2>1. CASE Lock(t) \/ LeaveCheckpoint(t) \/ StartFind(t) \/ ReadCrossing(t)
    BY <2>1 DEF Lock, LeaveCheckpoint, StartFind, ReadCrossing
  <2>2. CASE DestroyBarrier(t) \/ GcStart(t) \/ GcDelayed(t)
    BY <2>2 DEF DestroyBarrier, GcStart, GcDelayed
  <2>3. CASE MarkStackAndRegisters(t) \/ GcSweep(t)
    BY <2>3 DEF MarkStackAndRegisters, GcSweep, AfterCrossing
  <2>4. CASE RunReturns(t) \/ IdleCheckpoint(t) \/ EndThread(t) \/ Allocate(t)
    BY <2>4 DEF RunReturns, IdleCheckpoint, EndThread, Allocate
  <2>5. CASE Run(t) \/ Collect(t) \/ Checkpoint(t)
    BY <2>5 DEF Run, Collect, Checkpoint
  <2> QED
    BY <2>1, <2>2, <2>3, <2>4, <2>5
<1> QED
  BY <1>1, <1>2, <1>3, QueueMoves

(* The cell a pool thread runs is the first of its queue.                  *)
LEMMA CurrentCell ==
  ASSUME QueueInv, WaitFree, NEW t \in Threads, Busy(t)
  PROVE  t \in Pooled /\ cur[t] \in Cells /\ cur[t] = queueFirst[t]
<1>1. CurrentOK /\ Chains /\ QueueTypes
  BY DEF QueueInv
<1>2. PICK q \in [Threads -> [Nat -> Cells \union {NULL}]], lo \in [Threads -> Nat] :
        Chained(q, lo)
  BY <1>1 DEF Chains
<1>3. queueLength[t] \in Nat /\ queueLength[t] > 0 /\ lo[t] \in Nat /\ t \in Pooled
  BY <1>1 DEF CurrentOK, QueueTypes, Pooled, Busy
<1>4. lo[t] + 1 \in Present(lo, t)
  BY <1>3 DEF Present
<1> QED
  BY <1>1, <1>2, <1>3, <1>4 DEF CurrentOK, Chained, Ends, Linked

LEMMA FinishQueue ==
  ASSUME QueueInv, PoolInv, WaitFree, NEW t \in Threads, Finish(t)
  PROVE  QueueInv'
<1>1. /\ pc[t] = "user" /\ t # main /\ pc' = [pc EXCEPT ![t] = "dequeue"]
      /\ UNCHANGED <<ret, idx, barrier, at, cellVars>>
      /\ data' = [data EXCEPT ![cur[t]].done = TRUE]
  BY DEF Finish, Goto, pool, slots, locals, cellVars, history
<1>2. CellsKept
  BY <1>1, QueueFacts, CurrentCell, CellDone DEF Busy
<1>3. Alone(t)
  BY <1>1, QueueFacts DEF Alone
<1>4. Allowed(t)
  BY <1>1, QueueFacts DEF Allowed, BusyAt, Inside
<1> QED
  BY <1>2, <1>3, <1>4, QueueMoves

(* What the barrier does to the places of its threads, nobody is moved in  *)
(* or out of a routine.                                                    *)
LEMMA BarrierQueue ==
  ASSUME QueueInv, PoolInv, WaitFree, NEW t \in Threads,
         EnterBarrier(t) \/ CreateBarrier(t) \/ ResetBarrier(t) \/ Arrive(t)
  PROVE  QueueInv'
<1>1. /\ UNCHANGED cellVars /\ UNCHANGED data /\ UNCHANGED <<ret, idx>>
      /\ QueueTypes /\ CreatorOK /\ MainOK /\ PoolTypes /\ None \notin Threads
      /\ main \in Threads
  BY ThreadsFinite DEF EnterBarrier, CreateBarrier, ResetBarrier, Arrive, cellVars, slots, locals,
     history, QueueInv, PoolInv
<1>2. CellsKept /\ ret' \in [Threads -> {"user", "idle", "find", "create"}]
  BY <1>1, CellsSame DEF QueueTypes
<1>3. CASE EnterBarrier(t)
  <2>1. /\ pc[t] = "pool" /\ barrier \in Threads /\ UNCHANGED barrier
        /\ at' = [at EXCEPT ![t] = barrier] /\ pc' = [pc EXCEPT ![t] = "arrive"]
    BY <1>1, <1>3 DEF EnterBarrier, PoolTypes, Goto
  <2>2. CreatorOK'
    BY <1>1, <2>1 DEF CreatorOK, PoolTypes
  <2>3. MainOK' /\ \A u \in Pooled : (Busy(u)' => Busy(u)) /\ (Past(u) => Past(u)')
    BY <1>1, <2>1 DEF MainOK, PoolTypes, cellVars, Busy, Past, Inside, Pooled
  <2> QED
    BY <1>1, <1>2, <2>2, <2>3, QueuesKept
<1>4. CASE CreateBarrier(t)
  <2>1. /\ pc[t] = "pool" /\ ret[t] = "create" /\ barrier' = t
        /\ at' = [at EXCEPT ![t] = t] /\ pc' = [pc EXCEPT ![t] = "arrive"]
    BY <1>4 DEF CreateBarrier, Goto
  <2>2. CreatorOK'
    BY <1>1, <2>1 DEF CreatorOK, PoolTypes
  <2>3. MainOK' /\ \A u \in Pooled : (Busy(u)' => Busy(u)) /\ (Past(u) => Past(u)')
    BY <1>1, <2>1 DEF MainOK, PoolTypes, cellVars, Busy, Past, Inside, Pooled
  <2> QED
    BY <1>1, <1>2, <2>2, <2>3, QueuesKept
<1>5. CASE ResetBarrier(t)
  <2>1. /\ pc[t] = "crossed" /\ at[t] = t /\ barrier' = None /\ UNCHANGED at
        /\ pc' = [pc EXCEPT ![t] = "destroy"]
    BY <1>5 DEF ResetBarrier, Goto, locals
  <2>2. CreatorOK'
    BY <1>1, <2>1 DEF CreatorOK, PoolTypes
  <2>3. MainOK' /\ \A u \in Pooled : (Busy(u)' => Busy(u)) /\ (Past(u) => Past(u)')
    BY <1>1, <2>1 DEF MainOK, CreatorOK, PoolTypes, cellVars, Busy, Past, Inside, Pooled
  <2> QED
    BY <1>1, <1>2, <2>2, <2>3, QueuesKept
<1>6. CASE Arrive(t)
  <2> DEFINE There == {"arrive", "blocked", "crossed"}
  <2>1. UNCHANGED <<barrier, at>> /\ pc' \in [Threads -> Labels]
    BY <1>1, <1>6 DEF Arrive, pool, locals, PoolTypes, Labels
  <2>2. ASSUME NEW u \in Threads
        PROVE  pc'[u] = pc[u] \/ (pc[u] \in There /\ pc'[u] \in There)
    <3>1. pc[t] = "arrive" /\ at[t] \in Threads
      BY <1>6 DEF Arrive, PoolInv, NoneFills
    <3>2. u \in frame[at[t]].in \union {t} => pc[u] \in There
      BY <3>1 DEF PoolInv, InBlocked
    <3>3. pc'[u] = pc[u] \/ (u \in frame[at[t]].in \union {t} /\ pc'[u] \in There)
      BY <1>6 DEF Arrive
    <3> QED
      BY <3>2, <3>3
  <2>3. CreatorOK'
    BY <1>1, <2>1, <2>2 DEF CreatorOK, PoolTypes
  <2>4. MainOK' /\ \A u \in Pooled : (Busy(u)' => Busy(u)) /\ (Past(u) => Past(u)')
    BY <1>1, <2>1, <2>2 DEF MainOK, PoolTypes, cellVars, Busy, Past, Inside, Pooled
  <2> QED
    BY <1>1, <1>2, <2>3, <2>4, QueuesKept
<1> QED
  BY <1>3, <1>4, <1>5, <1>6

(* Nobody runs before the main thread is registered.                       *)
LEMMA Registered ==
  ASSUME PoolInv, NEW t \in Threads, pc[t] \notin {"none", "register"}
  PROVE  pc[main] # "register"
<1>1. t \in Alive
  BY DEF PoolInv, Started, PoolTypes, Alive
<1> QED
  BY <1>1, ThreadsFinite DEF PoolInv, Started

(* A routine is given to a thread of the pool: the queue of the main       *)
(* thread looks long.                                                      *)
LEMMA FindQueue ==
  ASSUME QueueInv, PoolInv, WaitFree, NEW t \in Threads, LookAtThread(t) \/ StartThread(t)
  PROVE  QueueInv'
<1>1. /\ UNCHANGED cellVars /\ UNCHANGED data /\ UNCHANGED <<ret, at, barrier>>
      /\ QueueTypes /\ CreatorOK /\ MainOK /\ PoolTypes /\ None \notin Threads
      /\ main \in Threads
  BY ThreadsFinite DEF LookAtThread, StartThread, cellVars, slots, locals, history, QueueInv, PoolInv
<1>2. CellsKept /\ ret' \in [Threads -> {"user", "idle", "find", "create"}]
  BY <1>1, CellsSame DEF QueueTypes
<1>3. /\ pc[t] = "scan" /\ idx[t] < Capacity /\ idx[t] \in Nat /\ idx[t] \in Threads
      /\ pc[main] # "register"
  <2>1. pc[t] = "scan" /\ idx[t] < Capacity
    BY DEF LookAtThread, StartThread
  <2>2. idx[t] \in Nat /\ Capacity \in Nat
    BY <1>1, PoolAssumption DEF PoolTypes
  <2> QED
    BY <2>1, <2>2, Registered DEF Threads
<1>4. CASE LookAtThread(t)
  <2>1. Idle(idx[t]) => idx[t] \in Pooled
    BY <1>1, <1>3, HugeNat DEF Idle, MainOK, Pooled
  <2>2. Alone(t)
    BY <1>1, <1>2, <1>4, QueueFacts DEF Alone, LookAtThread, Goto
  <2>3. Allowed(t)
    BY <1>4, <2>1, QueueFacts DEF Allowed, BusyAt, Inside, Goto, LookAtThread
  <2> QED
    BY <1>2, <2>2, <2>3, QueueMoves
<1>5. CASE StartThread(t)
  <2> DEFINE i == idx[t]
  <2>1. /\ running[i] = 0 /\ pc' = [pc EXCEPT ![t] = "append", ![i] = "sleep"]
        /\ UNCHANGED idx
    BY <1>5 DEF StartThread, locals
  <2>2. pc[i] = "none" /\ i \in Pooled
    <3>1. pc[i] \in {"none", "register"} /\ (pc[i] = "register" => i = main)
      BY <1>3, <2>1 DEF PoolInv, Started
    <3> QED
      BY <1>1, <1>3, <3>1 DEF MainOK, Pooled
  <2> HIDE DEF i
  <2>3. CreatorOK'
    BY <1>1, <1>3, <2>1, <2>2 DEF CreatorOK, PoolTypes, Pooled
  <2>4. MainOK'
    BY <1>1, <1>3, <2>1, <2>2 DEF MainOK, PoolTypes, cellVars, Pooled, i
  <2>5. \A u \in Pooled : (Busy(u)' => Busy(u)) /\ (Past(u) => Past(u)')
    BY <1>1, <1>3, <2>1, <2>2 DEF PoolTypes, Busy, Past, Inside, Pooled
  <2> QED
    BY <1>1, <1>2, <2>3, <2>4, <2>5, QueuesKept
<1> QED
  BY <1>4, <1>5

LEMMA RegisterQueue ==
  ASSUME QueueInv, PoolInv, WaitFree, Register
  PROVE  QueueInv'
<1>1. /\ UNCHANGED <<queueFirst, queueLast, data, ret, cur, barrier, at, idx, begun, queued>>
      /\ queueLength' = [queueLength EXCEPT ![main] = Huge]
      /\ pc[main] = "register" /\ pc' = [pc EXCEPT ![main] = "user"]
      /\ QueueTypes /\ CreatorOK /\ MainOK /\ CurrentOK /\ Chains /\ RunsOK /\ PoolTypes
      /\ main \in Threads /\ Huge \in Nat
  BY ThreadsFinite, HugeNat DEF Register, Goto, MainQueueLength, locals, history, QueueInv, PoolInv
<1>2. QueueTypes'
  BY <1>1 DEF QueueTypes
<1>3. CreatorOK' /\ MainOK'
  BY <1>1 DEF CreatorOK, MainOK, PoolTypes, QueueTypes
<1>4. \A u \in Pooled : /\ (Busy(u)' <=> Busy(u)) /\ (Past(u) <=> Past(u)')
                        /\ queueLength'[u] = queueLength[u] /\ u \in Threads
  BY <1>1 DEF Busy, Past, Pooled, PoolTypes, QueueTypes
<1>5. CurrentOK'
  <2>1. \A u \in Threads : Busy(u)' => u \in Pooled
    BY DEF Busy, Pooled
  <2> QED
    BY <1>1, <1>4, <2>1 DEF CurrentOK
<1>6. Chains'
  <2>1. PICK q \in [Threads -> [Nat -> Cells \union {NULL}]], lo \in [Threads -> Nat] :
          Chained(q, lo)
    BY <1>1 DEF Chains
  <2>2. \A u \in Pooled : Ends(q, lo, u)' /\ Linked(q, lo, u)'
    BY <1>1, <1>4, <2>1 DEF Chained, Ends, Linked, Present
  <2>3. \A u, v \in Pooled : Apart(q, lo, u, v)'
    BY <1>4, <2>1 DEF Chained, Apart, Present
  <2>4. Chained(q, lo)'
    BY <2>2, <2>3 DEF Chained
  <2> QED
    BY <2>4 DEF Chains
<1>7. RunsOK'
  BY <1>1 DEF RunsOK
<1> QED
  BY <1>2, <1>3, <1>5, <1>6, <1>7 DEF QueueInv

LEMMA UnqueueQueue ==
  ASSUME QueueInv, PoolInv, WaitFree, NEW w \in Threads, Unqueue(w)
  PROVE  QueueInv'
<1>1. /\ UNCHANGED <<queueFirst, queueLast, queueLength, data, ret, barrier, at, idx, begun, queued>>
      /\ pc[w] = "sleep" /\ pc' = [pc EXCEPT ![w] = "begin"]
      /\ queueFirst[w] # NULL /\ cur' = [cur EXCEPT ![w] = queueFirst[w]]
      /\ QueueTypes /\ CreatorOK /\ MainOK /\ CurrentOK /\ Chains /\ RunsOK /\ PoolTypes
      /\ main \in Threads /\ w \in Pooled
  BY ThreadsFinite DEF Unqueue, Goto, pool, slots, history, QueueInv, PoolInv, MainOK, Pooled
<1>2. PICK q \in [Threads -> [Nat -> Cells \union {NULL}]], lo \in [Threads -> Nat] :
        Chained(q, lo)
  BY <1>1 DEF Chains
<1>3. queueLength[w] > 0
  BY <1>1, <1>2 DEF Chained, Ends, QueueTypes
<1>4. QueueTypes'
  BY <1>1 DEF QueueTypes
<1>5. CreatorOK' /\ MainOK'
  BY <1>1 DEF CreatorOK, MainOK, PoolTypes, Pooled
<1>6. \A u \in Pooled : (Past(u)' <=> Past(u)) /\ (u # w => (Busy(u)' <=> Busy(u)))
  BY <1>1 DEF Busy, Past, Inside, Pooled, PoolTypes
<1>7. CurrentOK'
  <2>1. \A u \in Threads : Busy(u)' => u \in Pooled
    BY DEF Busy, Pooled
  <2> QED
    BY <1>1, <1>3, <1>6, <2>1 DEF CurrentOK, QueueTypes
<1>8. Chained(q, lo)'
  BY <1>1, <1>2, <1>6 DEF Chained, Ends, Linked, Apart, Present
<1>9. RunsOK'
  BY <1>1 DEF RunsOK
<1> QED
  BY <1>4, <1>5, <1>7, <1>8, <1>9 DEF QueueInv, Chains

(* A thread takes the first cell of its queue: nobody has started it.      *)
LEMMA BeginQueue ==
  ASSUME QueueInv, PoolInv, WaitFree, NEW w \in Threads, Begin(w)
  PROVE  QueueInv'
<1> DEFINE d == cur[w]
<1>1. /\ UNCHANGED <<queueFirst, queueLast, queueLength, ret, barrier, at, idx, queued, cur>>
      /\ pc[w] = "begin" /\ pc' = [pc EXCEPT ![w] = "user"]
      /\ begun' = [begun EXCEPT ![data[d].run] = @ + 1]
      /\ QueueTypes /\ CreatorOK /\ MainOK /\ CurrentOK /\ Chains /\ RunsOK /\ PoolTypes
      /\ main \in Threads /\ w \in Pooled
  BY ThreadsFinite DEF Begin, Goto, pool, slots, locals, QueueInv, PoolInv, MainOK, Pooled
<1>2. Busy(w) /\ ~Past(w) /\ d \in Cells /\ d = queueFirst[w]
  BY <1>1, CurrentCell DEF Busy, Past, Pooled
<1>3. PICK q \in [Threads -> [Nat -> Cells \union {NULL}]], lo \in [Threads -> Nat] :
        Chained(q, lo)
  BY <1>1 DEF Chains
<1>4. /\ lo[w] \in Nat /\ queueLength[w] \in Nat /\ lo[w] + 1 \in Present(lo, w)
      /\ q[w][lo[w] + 1] = d /\ data[d].live /\ ~data[d].started
  <2>1. lo[w] \in Nat /\ queueLength[w] \in Nat /\ queueLength[w] > 0
    BY <1>1, <1>2 DEF CurrentOK, QueueTypes
  <2>2. lo[w] + 1 \in Present(lo, w)
    BY <2>1 DEF Present
  <2>3. q[w][lo[w] + 1] = d
    BY <1>1, <1>2, <1>3, <2>1 DEF Chained, Ends
  <2> QED
    BY <1>1, <1>2, <1>3, <2>1, <2>2, <2>3 DEF Chained, Linked
<1> HIDE DEF d
<1>5. /\ data' \in [Cells -> CellRecord] /\ data'[d].started
      /\ \A e \in Cells : /\ data'[e].live = data[e].live /\ data'[e].next = data[e].next
                          /\ data'[e].run = data[e].run
                          /\ e # d => data'[e].started = data[e].started
  <2>1. \A r \in CellRecord :
          LET r2 == [r EXCEPT !.started = TRUE] IN
          /\ r2 \in CellRecord
          /\ r2.live = r.live /\ r2.next = r.next /\ r2.started /\ r2.run = r.run
    BY DEF CellRecord
  <2>2. data' = [data EXCEPT ![d] = [data[d] EXCEPT !.started = TRUE]]
    BY DEF Begin, d
  <2> QED
    BY <1>1, <1>2, <2>1, <2>2 DEF QueueTypes
<1>6. QueueTypes'
  <2>1. data[d].run \in Nat
    BY <1>1, <1>2 DEF QueueTypes, CellRecord
  <2>2. begun' \in [1 .. MaxRuns -> Nat]
    <3>1. begun \in [1 .. MaxRuns -> Nat]
      BY <1>1 DEF QueueTypes
    <3>2. CASE data[d].run \in 1 .. MaxRuns
      BY <1>1, <3>1, <3>2
    <3>3. CASE data[d].run \notin 1 .. MaxRuns
      BY <1>1, <3>1, <3>3
    <3> QED
      BY <3>2, <3>3
  <2> QED
    BY <1>1, <1>5, <2>2 DEF QueueTypes
<1>7. CreatorOK' /\ MainOK'
  BY <1>1 DEF CreatorOK, MainOK, PoolTypes, Pooled
<1>8. /\ \A u \in Pooled : (Busy(u)' <=> Busy(u)) /\ (u # w => (Past(u)' <=> Past(u)))
      /\ Past(w)'
  BY <1>1 DEF Busy, Past, Inside, Pooled, PoolTypes
<1>9. CurrentOK'
  <2>1. \A u \in Threads : Busy(u)' => u \in Pooled
    BY DEF Busy, Pooled
  <2> QED
    BY <1>1, <1>8, <2>1 DEF CurrentOK
<1>10. Chains'
  <2>1. ASSUME NEW u \in Pooled PROVE Ends(q, lo, u)' /\ Linked(q, lo, u)'
    <3>1. Ends(q, lo, u)'
      BY <1>1, <1>3, <2>1 DEF Chained, Ends
    <3>2. ASSUME NEW i \in Present(lo, u), q[u][i] = d PROVE u = w /\ i = lo[w] + 1
      BY <1>1, <1>3, <1>4, <2>1, <3>2 DEF Chained, Apart
    <3>3. Linked(q, lo, u)'
      BY <1>1, <1>2, <1>3, <1>5, <1>8, <2>1, <3>2 DEF Chained, Linked, Present
    <3> QED
      BY <3>1, <3>3
  <2>2. \A u, v \in Pooled : Apart(q, lo, u, v)'
    BY <1>1, <1>3 DEF Chained, Apart, Present
  <2>3. Chained(q, lo)'
    BY <2>1, <2>2 DEF Chained
  <2> QED
    BY <2>3 DEF Chains
<1>11. RunsOK'
  <2>1. /\ \A e, f \in Cells :
             data'[e].live /\ data'[f].live /\ data'[e].run = data'[f].run => e = f
        /\ \A e \in Cells : data'[e].live => data'[e].run <= queued'
    BY <1>1, <1>5 DEF RunsOK
  <2>2. ASSUME NEW r \in 1 .. MaxRuns
        PROVE  \/ begun'[r] = 0
               \/ /\ begun'[r] = 1
                  /\ \E e \in Cells : data'[e].live /\ data'[e].started /\ data'[e].run = r
    <3>1. CASE r = data[d].run
      <4>1. begun[r] = 0
        BY <1>1, <1>2, <1>4, <2>2, <3>1 DEF RunsOK
      <4>2. begun'[r] = 1
        BY <1>1, <2>2, <3>1, <4>1 DEF QueueTypes
      <4> QED
        BY <1>2, <1>4, <1>5, <3>1, <4>2
    <3>2. CASE r # data[d].run
      <4>1. begun'[r] = begun[r]
        BY <1>1, <2>2, <3>2 DEF QueueTypes
      <4>2. \A e \in Cells : data[e].started => data'[e].started
        BY <1>4, <1>5
      <4> QED
        BY <1>1, <1>5, <2>2, <4>1, <4>2 DEF RunsOK
    <3> QED
      BY <3>1, <3>2
  <2> QED
    BY <2>1, <2>2 DEF RunsOK
<1> QED
  BY <1>6, <1>7, <1>9, <1>10, <1>11 DEF QueueInv

(* The first cell leaves the queue; what its `next' says is what follows.  *)
LEMMA DequeueQueue ==
  ASSUME QueueInv, PoolInv, WaitFree, NEW w \in Threads, Dequeue(w)
  PROVE  QueueInv'
<1> DEFINE next == data[cur[w]].next
<1>1. /\ UNCHANGED <<data, ret, barrier, at, idx, queued, cur, begun>>
      /\ pc[w] = "dequeue" /\ pc' = [pc EXCEPT ![w] = "sleep"]
      /\ queueFirst' = [queueFirst EXCEPT ![w] = next]
      /\ queueLast' = [queueLast EXCEPT ![w] = IF next = NULL THEN NULL ELSE queueLast[w]]
      /\ queueLength' = [queueLength EXCEPT ![w] = queueLength[w] - 1]
      /\ QueueTypes /\ CreatorOK /\ MainOK /\ CurrentOK /\ Chains /\ RunsOK /\ PoolTypes
      /\ main \in Threads /\ w \in Pooled
  BY ThreadsFinite DEF Dequeue, First, Last, Goto, pool, locals, history, QueueInv, PoolInv, MainOK, Pooled
<1>2. Busy(w) /\ cur[w] \in Cells /\ cur[w] = queueFirst[w]
  BY <1>1, CurrentCell DEF Busy, Pooled
<1>3. PICK q \in [Threads -> [Nat -> Cells \union {NULL}]], lo \in [Threads -> Nat] :
        Chained(q, lo)
  BY <1>1 DEF Chains
<1>4. lo[w] \in Nat /\ queueLength[w] \in Nat /\ queueLength[w] > 0
  BY <1>1, <1>2 DEF CurrentOK, QueueTypes
<1>5. next = IF queueLength[w] = 1 THEN NULL ELSE q[w][lo[w] + 2]
  <2>1. lo[w] + 1 \in Present(lo, w) /\ q[w][lo[w] + 1] = cur[w]
    BY <1>1, <1>2, <1>3, <1>4 DEF Chained, Ends, Present
  <2> QED
    BY <1>1, <1>3, <1>4, <2>1 DEF Chained, Linked
<1>6. queueLength[w] > 1 => next \in Cells /\ next # NULL
  <2>1. queueLength[w] > 1 => lo[w] + 2 \in Present(lo, w)
    BY <1>4 DEF Present
  <2> QED
    BY <1>1, <1>3, <1>4, <1>5, <2>1, NoNULL DEF Chained, Linked
<1> HIDE DEF next
<1>7. QueueTypes'
  <2>1. next \in Cells \union {NULL}
    BY <1>4, <1>5, <1>6
  <2> QED
    BY <1>1, <1>4, <2>1 DEF QueueTypes
<1>8. CreatorOK' /\ MainOK'
  BY <1>1 DEF CreatorOK, MainOK, PoolTypes, Pooled, QueueTypes
<1>9. /\ \A u \in Pooled : u # w => (Past(u)' <=> Past(u)) /\ (Busy(u)' <=> Busy(u))
      /\ ~Busy(w)'
  BY <1>1 DEF Busy, Past, Inside, Pooled, PoolTypes
<1>10. CurrentOK'
  <2>1. \A u \in Threads : Busy(u)' => u \in Pooled /\ u # w
    BY <1>9 DEF Busy, Pooled
  <2> QED
    BY <1>1, <1>9, <2>1 DEF CurrentOK, QueueTypes
<1> DEFINE lo2 == [lo EXCEPT ![w] = lo[w] + 1]
<1>11. /\ lo2 \in [Threads -> Nat] /\ lo2[w] = lo[w] + 1
       /\ \A u \in Threads : u # w => lo2[u] = lo[u]
  BY <1>1, <1>4 DEF Pooled
<1>12. queueLength'[w] = queueLength[w] - 1
  BY <1>1 DEF QueueTypes, Pooled
<1>13. lo2[w] + queueLength'[w] = lo[w] + queueLength[w]
  <2>1. ASSUME NEW a \in Nat, NEW b \in Nat PROVE (a + 1) + (b - 1) = a + b
    OBVIOUS
  <2>2. lo2[w] + queueLength'[w] = (lo[w] + 1) + (queueLength[w] - 1)
    BY <1>11, <1>12, Zenon
  <2> QED
    BY <1>4, <2>1, <2>2
<1>14. /\ queueLength'[w] = queueLength[w] - 1 /\ queueFirst'[w] = next
       /\ queueLast'[w] = (IF next = NULL THEN NULL ELSE queueLast[w])
       /\ \A u \in Threads : u # w => /\ queueLength'[u] = queueLength[u]
                                      /\ queueFirst'[u] = queueFirst[u]
                                      /\ queueLast'[u] = queueLast[u]
  BY <1>1 DEF QueueTypes, Pooled
<1> HIDE DEF lo2
<1>15. \A u \in Pooled : /\ Present(lo2, u)' \subseteq Present(lo, u)
                         /\ u # w => Present(lo2, u)' = Present(lo, u)
                         /\ lo[w] + 1 \notin Present(lo2, w)'
  BY <1>4, <1>11, <1>14 DEF Present, Pooled, QueueTypes
<1>16. Chained(q, lo2)'
  <2>1. ASSUME NEW u \in Pooled PROVE Ends(q, lo2, u)'
    <3>1. CASE u # w
      BY <1>3, <1>11, <1>14, <2>1, <3>1 DEF Chained, Ends, Pooled
    <3>2. CASE u = w /\ queueLength[w] = 1
      BY <1>5, <1>14, <3>2 DEF Ends
    <3>3. CASE u = w /\ queueLength[w] > 1
      <4>1. queueLast[w] = q[w][lo[w] + queueLength[w]]
        BY <1>1, <1>3, <1>4 DEF Chained, Ends
      <4>2. lo2[w] + queueLength'[w] = lo[w] + queueLength[w] /\ lo2[w] + 1 = lo[w] + 2
        BY <1>4, <1>11, <1>13
      <4> QED
        BY <1>4, <1>5, <1>6, <1>14, <3>3, <4>1, <4>2 DEF Ends
    <3> QED
      BY <1>4, <3>1, <3>2, <3>3
  <2>2. ASSUME NEW u \in Pooled PROVE Linked(q, lo2, u)'
    <3>1. CASE u # w
      BY <1>1, <1>3, <1>9, <1>11, <1>14, <1>15, <2>2, <3>1 DEF Chained, Linked, Pooled
    <3>2. CASE u = w
      <4>1. lo2[w] + queueLength'[w] = lo[w] + queueLength[w]
        BY <1>4, <1>11, <1>13
      <4>2. \A i \in Present(lo2, w)' :
              /\ i \in Present(lo, w) /\ i # lo[w] + 1
              /\ q[w][i] \in Cells /\ data[q[w][i]].live /\ ~data[q[w][i]].started
              /\ data[q[w][i]].next = IF i = lo[w] + queueLength[w] THEN NULL ELSE q[w][i + 1]
        BY <1>1, <1>3, <1>15 DEF Chained, Linked
      <4> QED
        BY <1>1, <3>2, <4>1, <4>2 DEF Linked
    <3> QED
      BY <3>1, <3>2
  <2>3. ASSUME NEW u \in Pooled, NEW v \in Pooled PROVE Apart(q, lo2, u, v)'
    BY <1>3, <1>15, <2>3 DEF Chained, Apart
  <2> QED
    BY <2>1, <2>2, <2>3 DEF Chained
<1>17. RunsOK'
  BY <1>1 DEF RunsOK
<1> QED
  BY <1>7, <1>8, <1>10, <1>11, <1>16, <1>17 DEF QueueInv, Chains

(* A cell malloc has just given out goes to the end of a queue.            *)
LEMMA AppendQueue ==
  ASSUME QueueInv, PoolInv, WaitFree, NEW t \in Threads, AppendRun(t)
  PROVE  QueueInv'
<1>1. PICK i, n, last : i = idx[t] /\ n = queueLength[i] /\ last = queueLast[i]
  OBVIOUS
<1> DEFINE fresh == [live |-> TRUE, next |-> NULL, started |-> FALSE, done |-> FALSE,
                     run |-> queued + 1]
<1>2. /\ UNCHANGED <<ret, barrier, at, idx, cur, begun>>
      /\ pc[t] = "append" /\ pc' = [pc EXCEPT ![t] = "starting"]
      /\ queueLength' = [queueLength EXCEPT ![i] = n + 1] /\ queued' = queued + 1
      /\ QueueTypes /\ CreatorOK /\ MainOK /\ CurrentOK /\ Chains /\ RunsOK /\ PoolTypes
      /\ main \in Threads /\ i \in Pooled
  BY <1>1, ThreadsFinite DEF AppendRun, Goto, pool, QueueInv, PoolInv, MainOK
<1>3. PICK d \in Cells :
        /\ ~data[d].live
        /\ queueFirst' = IF last = NULL THEN [queueFirst EXCEPT ![i] = d] ELSE queueFirst
        /\ queueLast' = [queueLast EXCEPT ![i] = d]
        /\ data' = IF last = NULL THEN [data EXCEPT ![d] = fresh]
                   ELSE [[data EXCEPT ![d] = fresh] EXCEPT ![last].next = d]
  BY <1>1 DEF AppendRun
<1>4. PICK q \in [Threads -> [Nat -> Cells \union {NULL}]], lo \in [Threads -> Nat] :
        Chained(q, lo)
  BY <1>2 DEF Chains
<1>5. i \in Threads /\ n \in Nat /\ lo[i] \in Nat /\ last \in Cells \union {NULL}
  BY <1>1, <1>2 DEF QueueTypes, Pooled
<1>6. PICK p : p = lo[i] + n
  OBVIOUS
<1>7. /\ p \in Nat /\ (last = NULL <=> n = 0)
      /\ last # NULL => p \in Present(lo, i) /\ last = q[i][p] /\ last \in Cells /\ data[last].live
  <2>1. n = 0 => last = NULL
    BY <1>1, <1>2, <1>4 DEF Chained, Ends
  <2>2. n > 0 => p \in Present(lo, i) /\ last = q[i][p]
    BY <1>1, <1>2, <1>4, <1>5, <1>6 DEF Chained, Ends, Present
  <2>3. n > 0 => last \in Cells /\ data[last].live
    BY <1>2, <1>4, <2>2 DEF Chained, Linked
  <2> QED
    BY <1>5, <1>6, <2>1, <2>2, <2>3, NoNULL
<1>8. last # d
  BY <1>3, <1>7, NoNULL
<1>9. /\ data' \in [Cells -> CellRecord] /\ data'[d] = fresh
      /\ \A e \in Cells : e # d =>
           /\ data'[e].live = data[e].live /\ data'[e].started = data[e].started
           /\ data'[e].run = data[e].run
           /\ data'[e].next = IF e = last THEN d ELSE data[e].next
  <2>1. fresh \in CellRecord
    BY <1>2 DEF CellRecord, QueueTypes
  <2>2. \A r \in CellRecord :
          LET r2 == [r EXCEPT !.next = d] IN
          /\ r2 \in CellRecord
          /\ r2.live = r.live /\ r2.started = r.started /\ r2.run = r.run /\ r2.next = d
    BY <1>3 DEF CellRecord
  <2>3. data \in [Cells -> CellRecord]
    BY <1>2 DEF QueueTypes
  <2>4. CASE last = NULL
    <3>1. data' = [data EXCEPT ![d] = fresh]
      BY <1>3, <2>4, Zenon
    <3> HIDE DEF fresh
    <3> QED
      BY <2>1, <2>3, <2>4, <3>1, NoNULL
  <2>5. CASE last # NULL
    <3> DEFINE alloc == [data EXCEPT ![d] = fresh]
    <3>1. data' = [alloc EXCEPT ![last].next = d]
      BY <1>3, <2>5, Zenon
    <3>2. data' = [alloc EXCEPT ![last] = [alloc[last] EXCEPT !.next = d]]
      BY <3>1, Zenon
    <3>3. alloc \in [Cells -> CellRecord] /\ alloc[d] = fresh
          /\ \A e \in Cells : e # d => alloc[e] = data[e]
      <4> HIDE DEF fresh
      <4> QED
        BY <2>1, <2>3
    <3> HIDE DEF alloc, fresh
    <3>4. last \in Cells
      BY <1>7, <2>5
    <3>5. /\ data' \in [Cells -> CellRecord]
          /\ data'[last] = [alloc[last] EXCEPT !.next = d]
          /\ \A e \in Cells : e # last => data'[e] = alloc[e]
      <4> DEFINE r == [alloc[last] EXCEPT !.next = d]
      <4>1. r \in CellRecord
        BY <2>2, <3>3, <3>4
      <4> HIDE DEF r
      <4>2. data' = [alloc EXCEPT ![last] = r]
        BY <3>2 DEF r
      <4>3. /\ data' \in [Cells -> CellRecord] /\ data'[last] = r
            /\ \A e \in Cells : e # last => data'[e] = alloc[e]
        BY <3>3, <3>4, <4>1, <4>2
      <4> QED
        BY <4>3 DEF r
    <3>6. alloc[last] = data[last] /\ data[last] \in CellRecord
      BY <1>8, <2>3, <3>3, <3>4
    <3>7. /\ data'[last].live = data[last].live /\ data'[last].started = data[last].started
          /\ data'[last].run = data[last].run /\ data'[last].next = d
      BY <2>2, <3>5, <3>6
    <3> QED
      BY <1>8, <3>3, <3>5, <3>7
  <2> QED
    BY <2>4, <2>5
<1>10. /\ data'[d].live /\ ~data'[d].started /\ data'[d].next = NULL
      /\ data'[d].run = queued + 1
  BY <1>9
<1>11. PICK q2 \in [Threads -> [Nat -> Cells \union {NULL}]] :
      /\ q2[i][p + 1] = d
      /\ \A u \in Threads : u # i => q2[u] = q[u]
      /\ \A k \in Nat : k # p + 1 => q2[i][k] = q[i][k]
  <2> DEFINE qi == [q[i] EXCEPT ![p + 1] = d]
             q3 == [q EXCEPT ![i] = qi]
  <2>1. qi \in [Nat -> Cells \union {NULL}] /\ qi[p + 1] = d /\ \A k \in Nat : k # p + 1 => qi[k] = q[i][k]
    BY <1>5, <1>7
  <2> HIDE DEF qi
  <2>2. /\ q3 \in [Threads -> [Nat -> Cells \union {NULL}]] /\ q3[i] = qi
        /\ \A u \in Threads : u # i => q3[u] = q[u]
    BY <1>5, <2>1
  <2> HIDE DEF q3
  <2> QED
    BY <2>1, <2>2
<1>12. /\ queueLength'[i] = n + 1 /\ queueLast'[i] = d
       /\ queueFirst'[i] = (IF n = 0 THEN d ELSE queueFirst[i])
       /\ \A u \in Threads : u # i => /\ queueLength'[u] = queueLength[u]
                                      /\ queueFirst'[u] = queueFirst[u]
                                      /\ queueLast'[u] = queueLast[u]
  BY <1>1, <1>2, <1>3, <1>5, <1>7 DEF QueueTypes
<1> HIDE DEF fresh
<1>13. /\ p + 1 \in Present(lo, i)' /\ p + 1 \notin Present(lo, i) /\ p + 1 \in Nat
       /\ Present(lo, i)' = Present(lo, i) \union {p + 1}
       /\ Present(lo, i) \subseteq Nat
       /\ \A u \in Pooled : u # i => Present(lo, u)' = Present(lo, u)
  <2>1. Present(lo, i) = lo[i] + 1 .. p /\ Present(lo, i)' = lo[i] + 1 .. lo[i] + (n + 1)
    BY <1>1, <1>12, <1>6 DEF Present
  <2>2. lo[i] + (n + 1) = p + 1 /\ lo[i] \in Nat /\ p \in Nat /\ lo[i] <= p
    BY <1>5, <1>6
  <2>3. lo[i] + 1 .. p + 1 = (lo[i] + 1 .. p) \union {p + 1}
    <3>1. ASSUME NEW a \in Nat, NEW b \in Nat, a <= b
          PROVE  a + 1 .. b + 1 = (a + 1 .. b) \union {b + 1}
      <4>1. \A x \in a + 1 .. b + 1 : x \in a + 1 .. b \/ x = b + 1
        OBVIOUS
      <4>2. \A x \in a + 1 .. b : x \in a + 1 .. b + 1
        OBVIOUS
      <4>3. b + 1 \in a + 1 .. b + 1
        BY <3>1
      <4> QED
        BY <4>1, <4>2, <4>3, Zenon
    <3> QED
      BY <2>2, <3>1
  <2>4. \A u \in Pooled : u # i => Present(lo, u)' = Present(lo, u)
    BY <1>12 DEF Present, Pooled
  <2> QED
    BY <2>1, <2>2, <2>3, <2>4
<1>14. QueueTypes'
  <2>1. /\ queueFirst' = (IF last = NULL THEN [queueFirst EXCEPT ![i] = d] ELSE queueFirst)
        /\ queueLast' = [queueLast EXCEPT ![i] = d]
    BY <1>3, Zenon
  <2>2. data' \in [Cells -> CellRecord]
    BY <1>9, Zenon
  <2> QED
    BY <1>2, <1>5, <2>1, <2>2 DEF QueueTypes
<1>15. CreatorOK' /\ MainOK'
  <2>1. i # main
    BY <1>2 DEF Pooled
  <2>2. pc' \in [Threads -> Labels] /\ \A u \in Threads : pc'[u] = pc[u] \/ (u = t /\ pc'[u] = "starting")
    BY <1>2 DEF PoolTypes, Labels
  <2>3. CreatorOK'
    BY <1>2, <2>2 DEF CreatorOK, PoolTypes
  <2> QED
    BY <1>1, <1>2, <1>12, <2>1, <2>2, <2>3 DEF MainOK
<1>16. \A u \in Pooled : (Busy(u)' <=> Busy(u)) /\ (Past(u)' <=> Past(u))
  BY <1>2 DEF Busy, Past, Inside, Pooled, PoolTypes
<1>17. CurrentOK'
  <2>1. \A u \in Threads : Busy(u)' => u \in Pooled
    BY DEF Busy, Pooled
  <2>2. ASSUME NEW u \in Threads, Busy(u)' PROVE queueLength'[u] > 0 /\ cur'[u] = queueFirst'[u]
    <3>1. queueLength[u] > 0 /\ cur[u] = queueFirst[u] /\ cur'[u] = cur[u]
      BY <1>2, <1>16, <2>1, <2>2 DEF CurrentOK
    <3>2. CASE u = i
      BY <1>1, <1>5, <1>12, <3>1, <3>2
    <3>3. CASE u # i
      BY <1>12, <2>2, <3>1, <3>3
    <3> QED
      BY <3>2, <3>3
  <2> QED
    BY <2>2 DEF CurrentOK
(* No cell of a queue is the new one.                                      *)
<1>18. \A u \in Pooled : \A k \in Present(lo, u) :
         /\ k \in Nat /\ q[u][k] \in Cells /\ q[u][k] # d /\ data[q[u][k]].live
         /\ data[q[u][k]].next = IF k = lo[u] + queueLength[u] THEN NULL ELSE q[u][k + 1]
         /\ data[q[u][k]].started => k = lo[u] + 1 /\ Past(u)
  <2>1. \A u \in Pooled : \A k \in Present(lo, u) : k \in Nat
    BY <1>4, <1>2 DEF Present, Pooled, QueueTypes
  <2> QED
    BY <1>3, <1>4, <2>1 DEF Chained, Linked
<1>19. Chained(q2, lo)'
  <2>1. ASSUME NEW u \in Pooled PROVE Ends(q2, lo, u)'
    <3>1. CASE u # i
      <4>1. Ends(q, lo, u) /\ u \in Threads
        BY <1>4, <2>1 DEF Chained, Pooled
      <4> QED
        BY <1>11, <1>12, <3>1, <4>1 DEF Ends
    <3>2. CASE u = i
      <4>1. lo[i] + (n + 1) = p + 1 /\ (n # 0 => lo[i] + 1 # p + 1) /\ (n = 0 => p = lo[i])
        BY <1>5, <1>6
      <4>2. n # 0 => queueFirst[i] = q[i][lo[i] + 1]
        BY <1>1, <1>2, <1>4, <1>5 DEF Chained, Ends
      <4>3. n + 1 > 0 /\ n + 1 # 0 /\ lo[i] + 1 \in Nat
        BY <1>5
      <4>4. queueFirst'[i] = q2[i][lo[i] + 1] /\ queueLast'[i] = q2[i][p + 1]
        BY <1>11, <1>12, <4>1, <4>2, <4>3
      <4> QED
        BY <1>12, <3>2, <4>1, <4>3, <4>4 DEF Ends
    <3> QED
      BY <3>1, <3>2
  <2>2. ASSUME NEW u \in Pooled PROVE Linked(q2, lo, u)'
    <3>1. CASE u # i
      <4>1. ASSUME NEW k \in Present(lo, u)
            PROVE  /\ q2[u][k] = q[u][k] /\ q2[u][k + 1] = q[u][k + 1]
                   /\ q[u][k] # last
        <5>1. u \in Threads
          BY <2>2 DEF Pooled
        <5>2. last # NULL => q[u][k] # q[i][p]
          BY <1>2, <1>4, <1>7, <2>2, <3>1, <4>1 DEF Chained, Apart
        <5> QED
          BY <1>7, <1>11, <1>18, <2>2, <3>1, <4>1, <5>1, <5>2, NoNULL
      <4>2. u \in Threads /\ queueLength'[u] = queueLength[u]
        BY <1>12, <2>2, <3>1 DEF Pooled
      <4>3. Present(lo, u)' = Present(lo, u) /\ (Past(u)' <=> Past(u))
        BY <1>13, <1>16, <2>2, <3>1
      <4> QED
        BY <1>9, <1>18, <2>2, <4>1, <4>2, <4>3 DEF Linked
    <3>2. CASE u = i
      <4>1. ASSUME NEW k \in Present(lo, i)
            PROVE  /\ q2[i][k] = q[i][k] /\ k # p + 1
                   /\ k # p => q[i][k] # last /\ q2[i][k + 1] = q[i][k + 1]
                   /\ k = p => q[i][k] = last
        <5>1. k \in Nat /\ k # p + 1
          BY <1>13, <4>1
        <5>2. k # p => k + 1 # p + 1 /\ k + 1 \in Nat
          BY <1>7, <5>1
        <5>3. p \in Present(lo, i) /\ last = q[i][p] /\ last # NULL
          <6>1. n # 0
            BY <1>1, <1>5, <4>1 DEF Present
          <6> QED
            BY <1>7, <6>1
        <5>4. k # p => q[i][k] # q[i][p]
          BY <1>2, <1>4, <4>1, <5>3 DEF Chained, Apart
        <5> QED
          BY <1>11, <5>1, <5>2, <5>3, <5>4
      <4>2. lo[i] + queueLength'[i] = p + 1
        BY <1>5, <1>12, <1>6
      <4>3. ASSUME NEW k \in Present(lo, i)
            PROVE  /\ q2[i][k] \in Cells /\ data'[q2[i][k]].live
                   /\ data'[q2[i][k]].next = q2[i][k + 1]
                   /\ data'[q2[i][k]].started => k = lo[i] + 1 /\ Past(i)'
        <5>1. /\ q[i][k] \in Cells /\ q[i][k] # d /\ data[q[i][k]].live
              /\ data[q[i][k]].next = (IF k = p THEN NULL ELSE q[i][k + 1])
              /\ data[q[i][k]].started => k = lo[i] + 1 /\ Past(i)
          BY <1>1, <1>2, <1>18, <1>6, <4>3
        <5>2. data'[q[i][k]].next = q2[i][k + 1]
          <6>1. CASE k = p
            BY <1>9, <1>11, <4>1, <4>3, <5>1, <6>1
          <6>2. CASE k # p
            BY <1>9, <4>1, <4>3, <5>1, <6>2
          <6> QED
            BY <6>1, <6>2
        <5> QED
          BY <1>2, <1>9, <1>16, <4>1, <4>3, <5>1, <5>2
      <4> QED
        BY <1>10, <1>11, <1>13, <3>2, <4>1, <4>2, <4>3 DEF Linked
    <3> QED
      BY <3>1, <3>2
  <2>3. ASSUME NEW u \in Pooled, NEW v \in Pooled PROVE Apart(q2, lo, u, v)'
    <3>1. ASSUME NEW x \in Pooled, NEW k \in Present(lo, x)'
          PROVE  \/ x = i /\ k = p + 1 /\ q2[x][k] = d
                 \/ k \in Present(lo, x) /\ q2[x][k] = q[x][k] /\ q[x][k] # d
      <4>1. CASE x = i
        BY <1>2, <1>11, <1>13, <1>18, <3>1, <4>1
      <4>2. CASE x # i
        BY <1>11, <1>13, <1>18, <3>1, <4>2 DEF Pooled
      <4> QED
        BY <4>1, <4>2
    <3> QED
      BY <1>4, <2>3, <3>1 DEF Chained, Apart
  <2> QED
    BY <2>1, <2>2, <2>3 DEF Chained
<1>20. RunsOK'
  <2>1. \A e \in Cells : e # d /\ data'[e].live =>
          data[e].live /\ data'[e].run = data[e].run /\ data[e].run <= queued /\ data[e].run \in Nat
    BY <1>2, <1>9 DEF RunsOK, QueueTypes, CellRecord
  <2>2. queued \in Nat
    BY <1>2 DEF QueueTypes
  <2>3. \A e \in Cells : data'[e].live => data'[e].run <= queued'
    BY <1>2, <1>10, <2>1, <2>2
  <2>4. ASSUME NEW e \in Cells, NEW f \in Cells,
               data'[e].live, data'[f].live, data'[e].run = data'[f].run
        PROVE  e = f
    <3>1. e # d /\ f # d => e = f
      BY <1>2, <2>1, <2>4 DEF RunsOK
    <3>2. ~(e = d /\ f # d) /\ ~(e # d /\ f = d)
      BY <1>10, <2>1, <2>2, <2>4
    <3> QED
      BY <3>1, <3>2
  <2>5. \A e \in Cells : data[e].live => e # d
    BY <1>3
  <2>6. \A r \in 1 .. MaxRuns :
          \/ begun'[r] = 0
          \/ begun'[r] = 1 /\ \E e \in Cells : data'[e].live /\ data'[e].started /\ data'[e].run = r
    BY <1>2, <1>9, <2>5 DEF RunsOK
  <2> QED
    BY <2>3, <2>4, <2>6 DEF RunsOK
<1> QED
  BY <1>11, <1>14, <1>15, <1>17, <1>19, <1>20 DEF QueueInv, Chains

LEMMA StopQueue == ASSUME QueueInv, PoolInv, WaitFree, Stop PROVE QueueInv'
<1>1. main \in Threads /\ CellsKept
  BY ThreadsFinite, QueueFacts, CellsSame DEF Stop
<1>2. Alone(main)
  BY <1>1, QueueFacts DEF Stop, Alone, Goto, cellVars, slots, locals, history
<1>3. Allowed(main)
  BY <1>1, QueueFacts DEF Stop, Allowed, BusyAt, Inside, Goto
<1> QED
  BY <1>1, <1>2, <1>3, QueueMoves

LEMMA QueueNextInv == PoolInv /\ QueueInv /\ [Next]_vars => QueueInv'
<1>1. SUFFICES ASSUME PoolInv, QueueInv, [Next]_vars, WaitFree PROVE QueueInv'
  BY SameProgram DEF QueueInv, WaitFree
<1>2. ASSUME NEW t \in Threads, Step(t) PROVE QueueInv'
  <2>1. ~WaitReturns(t)
    BY <1>1, QueueFacts DEF WaitReturns
  <2> QED
    BY <1>1, <1>2, <2>1, SimpleQueue, BarrierQueue, FindQueue, AppendQueue, UnqueueQueue,
       BeginQueue, DequeueQueue DEF Step
<1>3. ASSUME NEW t \in Threads, UserStep(t) \/ Checkpoint(t) \/ Finish(t) PROVE QueueInv'
  <2>1. ~Wait(t)
    BY <1>1 DEF Wait, WaitFree
  <2> QED
    BY <1>1, <1>3, <2>1, SimpleQueue, FinishQueue DEF UserStep
<1>4. CASE UNCHANGED vars
  <2>1. /\ UNCHANGED cellVars /\ UNCHANGED <<data, ret, pc, at, idx, barrier>>
    BY <1>4 DEF vars, pool, slots, locals, history, cellVars
  <2>2. CellsKept /\ ret \in [Threads -> {"user", "idle", "find", "create"}]
    BY <1>1, <2>1, CellsSame DEF QueueInv, QueueTypes
  <2>3. CreatorOK' /\ MainOK' /\ \A t \in Pooled : (Busy(t)' <=> Busy(t)) /\ (Past(t) <=> Past(t)')
    BY <1>1, <2>1 DEF QueueInv, CreatorOK, MainOK, Busy, Past, cellVars
  <2> QED
    BY <1>1, <2>1, <2>2, <2>3, QueuesKept
<1> QED
  BY <1>1, <1>2, <1>3, <1>4, RegisterQueue, StopQueue DEF Next
-----------------------------------------------------------------------------
(* QueueInv holds in every state, whatever malloc left in the slots.       *)
THEOREM QueueInvariance == Spec => []QueueInv
<1>1. Init => QueueInv
  BY InitQueue
<1> QED
  BY <1>1, PoolInvariance, QueueNextInv, PTL DEF Spec

LEMMA SoundQueues == QueueInv => QueuesSound
<1> SUFFICES ASSUME QueueInv, WaitFree, NEW t \in Pooled
             PROVE  /\ queueFirst[t] = NULL <=> queueLength[t] = 0
                    /\ queueLast[t] = NULL <=> queueLength[t] = 0
                    /\ queueLast[t] # NULL => data[queueLast[t]].next = NULL
                    /\ queueFirst[t] # NULL =>
                         /\ data[queueFirst[t]].live
                         /\ \A u \in Threads : u # t => queueFirst[u] # queueFirst[t]
  BY DEF QueuesSound, WaitFree, Pooled
<1>1. QueueTypes /\ MainOK /\ Chains
  BY DEF QueueInv
<1>2. PICK q \in [Threads -> [Nat -> Cells \union {NULL}]], lo \in [Threads -> Nat] :
        Chained(q, lo)
  BY <1>1 DEF Chains
<1>3. \A u \in Pooled : /\ u \in Threads /\ queueLength[u] \in Nat /\ lo[u] \in Nat
                        /\ Ends(q, lo, u) /\ Linked(q, lo, u)
  BY <1>1, <1>2 DEF Chained, Pooled, QueueTypes
<1>4. ASSUME NEW u \in Pooled, queueLength[u] > 0
      PROVE  /\ lo[u] + 1 \in Present(lo, u) /\ lo[u] + queueLength[u] \in Present(lo, u)
             /\ queueFirst[u] = q[u][lo[u] + 1] /\ queueLast[u] = q[u][lo[u] + queueLength[u]]
             /\ queueFirst[u] # NULL /\ data[queueFirst[u]].live
             /\ queueLast[u] # NULL /\ data[queueLast[u]].next = NULL
  <2>1. lo[u] + 1 \in Present(lo, u) /\ lo[u] + queueLength[u] \in Present(lo, u)
    BY <1>3, <1>4 DEF Present
  <2> QED
    BY <1>3, <1>4, <2>1, NoNULL DEF Ends, Linked
<1>5. ASSUME NEW u \in Threads, u # t, queueFirst[t] # NULL PROVE queueFirst[u] # queueFirst[t]
  <2>1. CASE u = main
    BY <1>1, <1>5, <2>1 DEF MainOK
  <2>2. CASE u # main /\ queueLength[u] = 0
    BY <1>3, <1>5, <2>2 DEF Ends, Pooled
  <2>3. CASE u # main /\ queueLength[u] > 0
    <3>1. u \in Pooled /\ queueLength[t] > 0
      BY <1>3, <1>5, <2>3 DEF Ends, Pooled
    <3> QED
      BY <1>2, <1>4, <1>5, <2>3, <3>1 DEF Chained, Apart
  <2> QED
    BY <1>3, <1>5, <2>1, <2>2, <2>3 DEF Pooled
<1> QED
  BY <1>3, <1>4, <1>5 DEF Ends

(* The queues of the pool are chains of live cells, each its own, in every *)
(* program that does not call THREAD_CONTEXT.wait and whatever malloc left *)
(* in the slots: a thread that starts routines never disturbs one that     *)
(* runs them.                                                              *)
THEOREM QueuesRight == Spec => []QueuesSound
BY QueueInvariance, SoundQueues, PTL

(* A routine given to se_thread_run is begun at most once, on one thread,  *)
(* whatever malloc left in the slots.                                      *)
THEOREM BegunOnce == Spec => []RunOnce
<1>1. QueueInv => RunOnce
  BY DEF QueueInv, RunsOK, RunOnce, WaitFree
<1> QED
  BY <1>1, QueueInvariance, PTL
-----------------------------------------------------------------------------
(* THREAD_LOCK, whose threads are not the pool's.                          *)
(* Where a thread has the mutex: from AcquireMutex on, until it gives it   *)
(* up in unlock or in pthread_cond_wait.                                   *)
InMutex == {"own", "locked", "notify", "unlocking", "going", "sleep", "release"}

LockTypes ==
  /\ mutex \in Lockers \union {Nobody} /\ locker \in Lockers \union {Nobody}
  /\ asleep \subseteq Lockers
  /\ stage \in [Lockers -> InMutex \union {"out", "locking", "asleep", "waking", "done"}]

(* The mutex belongs to the one thread that is inside.                     *)
MutexInside == \A t \in Lockers : stage[t] \in InMutex <=> mutex = t

(* The threads blocked on the condition are those inside pthread_cond_wait,*)
(* so that a wakeup never moves a thread that is inside.                   *)
AsleepInWait == \A t \in Lockers : t \in asleep <=> stage[t] = "asleep"

(* The inductive invariant: LockerOwnsMutex alone does not say that locker *)
(* is still Nobody when the next thread takes the mutex, nor that nobody   *)
(* else is inside when it is cleared.                                      *)
LockInv ==
  /\ LockTypes /\ MutexInside /\ AsleepInWait
  /\ LockContracts
  /\ LockerOwnsMutex
  /\ \A t \in Lockers : stage[t] \in {"own", "sleep", "release"} => locker = Nobody
-----------------------------------------------------------------------------
LEMMA InitLockInv == LockInit => LockInv
BY LockAssumption DEF LockInit, LockInv, LockTypes, MutexInside, AsleepInWait, LockContracts,
                      LockerOwnsMutex, is_locked, InMutex

(* A step of one thread that does not touch mutex, locker or asleep, and   *)
(* stays on its side of the mutex.                                         *)
LEMMA StayPut ==
  ASSUME LockInv, NEW t \in Lockers, NEW l,
         l \in InMutex \union {"out", "locking", "waking", "done"},
         stage' = [stage EXCEPT ![t] = l],
         UNCHANGED <<mutex, locker, asleep>>,
         stage[t] # "asleep",
         stage[t] \in InMutex <=> l \in InMutex,
         l \in {"locked", "notify", "unlocking", "going"} => is_locked(t),
         l \in {"own", "sleep", "release"} => locker = Nobody
  PROVE  LockInv'
BY DEF LockInv, LockTypes, MutexInside, AsleepInWait, LockContracts, LockerOwnsMutex,
       is_locked, InMutex

LEMMA AcquireMutexInv ==
  ASSUME LockInv, NEW t \in Lockers, AcquireMutex(t) PROVE LockInv'
<1>1. Nobody \notin Lockers
  BY LockAssumption
<1>2. locker = Nobody
  BY <1>1 DEF AcquireMutex, LockInv, LockTypes, LockerOwnsMutex
<1>3. QED
  BY <1>1, <1>2 DEF AcquireMutex, Goes, AfterMutex, LockInv, LockTypes, MutexInside,
                    AsleepInWait, LockContracts, LockerOwnsMutex, is_locked, InMutex

LEMMA SetLockerInv ==
  ASSUME LockInv, NEW t \in Lockers, SetLocker(t) PROVE LockInv'
<1>1. mutex = t
  BY DEF SetLocker, LockInv, MutexInside, InMutex
<1>2. QED
  BY <1>1 DEF SetLocker, Goes, LockInv, LockTypes, MutexInside, AsleepInWait, LockContracts,
              LockerOwnsMutex, is_locked, InMutex

LEMMA ClearLockerInv ==
  ASSUME LockInv, NEW t \in Lockers, ClearLocker(t) PROVE LockInv'
<1>1. mutex = t
  BY DEF ClearLocker, LockInv, MutexInside, InMutex
<1>2. \A u \in Lockers \ {t} : stage[u] \notin InMutex
  BY <1>1 DEF LockInv, MutexInside
<1>3. CASE stage[t] = "unlocking"
  BY <1>1, <1>2, <1>3 DEF ClearLocker, Goes, Cleared, LockInv, LockTypes, MutexInside,
                          AsleepInWait, LockContracts, LockerOwnsMutex, is_locked, InMutex
<1>4. CASE stage[t] = "going"
  BY <1>1, <1>2, <1>4 DEF ClearLocker, Goes, Cleared, LockInv, LockTypes, MutexInside,
                          AsleepInWait, LockContracts, LockerOwnsMutex, is_locked, InMutex
<1>5. QED
  BY <1>3, <1>4 DEF ClearLocker

LEMMA ReleaseMutexInv ==
  ASSUME LockInv, NEW t \in Lockers, ReleaseMutex(t) PROVE LockInv'
<1>1. Nobody \notin Lockers
  BY LockAssumption
<1>2. mutex = t /\ locker = Nobody
  BY DEF ReleaseMutex, LockInv, MutexInside, InMutex
<1>3. PICK l \in {"done", "out"} : stage' = [stage EXCEPT ![t] = l]
  BY DEF ReleaseMutex, Goes
<1>4. QED
  BY <1>1, <1>2, <1>3 DEF ReleaseMutex, LockInv, LockTypes, MutexInside, AsleepInWait,
                          LockContracts, LockerOwnsMutex, is_locked, InMutex

LEMMA CondWaitInv ==
  ASSUME LockInv, NEW t \in Lockers, CondWait(t) PROVE LockInv'
<1>1. Nobody \notin Lockers
  BY LockAssumption
<1>2. mutex = t /\ locker = Nobody
  BY DEF CondWait, LockInv, MutexInside, InMutex
<1>3. QED
  BY <1>1, <1>2 DEF CondWait, Goes, LockInv, LockTypes, MutexInside, AsleepInWait,
                    LockContracts, LockerOwnsMutex, is_locked, InMutex

(* One thread leaves pthread_cond_wait, whatever woke it.                  *)
LEMMA WokenInv ==
  ASSUME LockInv, NEW u \in asleep, asleep' = asleep \ {u},
         stage' = [stage EXCEPT ![u] = "waking"], UNCHANGED <<mutex, locker>>
  PROVE  LockInv'
BY DEF LockInv, LockTypes, MutexInside, AsleepInWait, LockContracts, LockerOwnsMutex,
       is_locked, InMutex

LEMMA NotifyInv ==
  ASSUME LockInv, NEW t \in Lockers, Notify(t) PROVE LockInv'
<1>1. is_locked(t) /\ mutex = t
  BY DEF Notify, LockInv, LockContracts, MutexInside, InMutex
<1>2. CASE asleep = {}
  BY <1>1, <1>2, StayPut DEF Notify, Goes, InMutex
<1>3. CASE asleep # {}
  <2>1. PICK u \in asleep : /\ asleep' = asleep \ {u}
                            /\ stage' = [stage EXCEPT ![t] = "unlocking", ![u] = "waking"]
    BY <1>3 DEF Notify
  <2>2. u \in Lockers /\ u # t
    BY DEF Notify, LockInv, LockTypes, AsleepInWait
  <2>3. QED
    BY <1>1, <2>1, <2>2 DEF Notify, LockInv, LockTypes, MutexInside, AsleepInWait,
                            LockContracts, LockerOwnsMutex, is_locked, InMutex
<1>4. QED
  BY <1>2, <1>3

LEMMA NotifyAllInv ==
  ASSUME LockInv, NEW t \in Lockers, NotifyAll(t) PROVE LockInv'
<1>1. is_locked(t) /\ mutex = t
  BY DEF NotifyAll, LockInv, LockContracts, MutexInside, InMutex
<1>2. QED
  BY <1>1 DEF NotifyAll, LockInv, LockTypes, MutexInside, AsleepInWait, LockContracts,
              LockerOwnsMutex, is_locked, InMutex
-----------------------------------------------------------------------------
LEMMA RunsInv ==
  ASSUME LockInv, NEW t \in Lockers, Runs(t) PROVE LockInv'
<1>1. CASE CallLock(t)
  BY <1>1, StayPut DEF CallLock, Goes, InMutex
<1>2. CASE AcquireMutex(t)
  BY <1>2, AcquireMutexInv
<1>3. CASE SetLocker(t)
  BY <1>3, SetLockerInv
<1>4. CASE ClearLocker(t)
  BY <1>4, ClearLockerInv
<1>5. CASE ReleaseMutex(t)
  BY <1>5, ReleaseMutexInv
<1>6. CASE CondWait(t)
  BY <1>6, CondWaitInv
<1>7. CASE Notify(t)
  BY <1>7, NotifyInv
<1>8. CASE NotifyAll(t)
  BY <1>8, NotifyAllInv
<1>9. QED
  BY <1>1, <1>2, <1>3, <1>4, <1>5, <1>6, <1>7, <1>8 DEF Runs

LEMMA NextInv == LockInv /\ [LockNext]_(lockVars) => LockInv'
<1> SUFFICES ASSUME LockInv, [LockNext]_(lockVars) PROVE LockInv'
  OBVIOUS
<1>0. Workers \subseteq Lockers /\ Main \in Lockers
  BY DEF Lockers
<1>1. CASE Tick
  BY <1>1 DEF Tick, LockInv, LockTypes, MutexInside, AsleepInWait, LockContracts,
              LockerOwnsMutex, is_locked
<1>2. CASE CallWait
  BY <1>0, <1>2, StayPut DEF CallWait, Goes, LockInv, LockContracts, InMutex
<1>3. CASE CallTimedWait
  BY <1>0, <1>3, StayPut DEF CallTimedWait, Goes, LockInv, LockContracts, InMutex
<1>4. CASE CallUnlock
  BY <1>0, <1>4, StayPut DEF CallUnlock, Goes, LockInv, LockContracts, InMutex
<1>5. ASSUME NEW t \in Workers, Turn(t) PROVE LockInv'
  BY <1>0, <1>5, StayPut DEF Turn, Goes, LockInv, LockContracts, InMutex
<1>6. ASSUME NEW t \in Lockers, Runs(t) PROVE LockInv'
  BY <1>6, RunsInv
<1>7. ASSUME NEW t \in Lockers, TimedOut(t) PROVE LockInv'
  BY <1>7, WokenInv DEF TimedOut, Goes
<1>8. ASSUME NEW t \in Lockers, SpuriousWakeup(t) PROVE LockInv'
  BY <1>8, WokenInv DEF SpuriousWakeup, Goes
<1>9. CASE UNCHANGED lockVars
  BY <1>9 DEF lockVars, LockInv, LockTypes, MutexInside, AsleepInWait, LockContracts,
              LockerOwnsMutex, is_locked
<1>10. QED
  BY <1>1, <1>2, <1>3, <1>4, <1>5, <1>6, <1>7, <1>8, <1>9 DEF LockNext
-----------------------------------------------------------------------------
(* LockInv holds in every state, for all threads, turns and timeouts.      *)
THEOREM LockInvariance == LockSpec => []LockInv
<1>1. QED
  BY InitLockInv, NextInv, PTL DEF LockSpec

(* is_locked is never true of a thread that does not have the mutex.       *)
THEOREM LockerIsOwner == LockSpec => []LockerOwnsMutex
<1>1. LockInv => LockerOwnsMutex
  BY DEF LockInv
<1>2. QED
  BY <1>1, LockInvariance, PTL

(* lock ensures is_locked, and is_locked still holds where unlock, wait,   *)
(* notify and notify_all require it.                                       *)
THEOREM ContractsHold == LockSpec => []LockContracts
<1>1. LockInv => LockContracts
  BY DEF LockInv
<1>2. QED
  BY <1>1, LockInvariance, PTL
=============================================================================
