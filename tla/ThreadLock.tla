----------------------------- MODULE ThreadLock -----------------------------
(***************************************************************************)
(* THREAD_LOCK over se_thread_lock_* (sys/runtime/c/thread.c), used the    *)
(* way tutorial/test_thread.e uses it: a main thread waits on ready_lock   *)
(* until `ready' counts every worker; a worker takes the lock once per     *)
(* turn, counts itself at its last turn, and notifies.                     *)
(*                                                                         *)
(* A lock is a mutex, a condition, and `locker', the thread is_locked is   *)
(* true for; the `check' mutex makes each access of locker one step.       *)
(***************************************************************************)
EXTENDS Naturals, FiniteSets

CONSTANTS
  Main, Workers,   \* the threads
  Nobody,          \* a null locker
  Turns,           \* the turns of a worker
  Notifiers,       \* which of {"notify", "notify_all"} a worker may call
  Uses,            \* which of {"wait", "timed_wait"} the main thread may use
  Timeouts,        \* timeout_ms of timed_wait
  MaxSpurious,     \* bound: spurious wakeups
  Start, End       \* the clock: milliseconds since 1970, bounded by End

Lockers == Workers \union {Main}

ASSUME LockAssumption ==
  /\ Main \notin Workers /\ Nobody \notin Lockers /\ Turns \in Nat \ {0}
  /\ Notifiers \subseteq {"notify", "notify_all"} /\ Notifiers # {}
  /\ Uses \subseteq {"wait", "timed_wait"} /\ Timeouts \subseteq Nat /\ MaxSpurious \in Nat
  /\ Start \in Nat /\ End \in Nat /\ Start <= End

VARIABLES
  mutex,    \* who has lock->lock
  locker,   \* lock->locker: NULL, or the thread in locker_
  asleep,   \* the threads blocked in pthread_cond_wait or timedwait
  stage,    \* where each thread is
  deadline, \* the struct timespec given to pthread_cond_timedwait
  began,    \* when timed_wait was called, and for how long
  result,   \* what timed_wait returned
  uses,     \* what the main thread waits with
  turns, ready, now, spurious

lockVars == <<mutex, locker, asleep, stage, deadline, began, result, turns, ready, now,
              spurious, uses>>

LockInit ==
  /\ mutex = Nobody /\ locker = Nobody /\ asleep = {}
  /\ stage = [t \in Lockers |-> "out"]
  /\ deadline = 0 /\ began = [at |-> Start, tm |-> 0] /\ result = TRUE
  /\ turns = [t \in Workers |-> Turns] /\ ready = 0 /\ now = Start /\ spurious = 0
  /\ uses \in Uses

Goes(t, l) == stage' = [stage EXCEPT ![t] = l]
is_locked(t) == locker = t

(* The clock goes on while threads run; only timed_wait looks at it.       *)
Tick ==
  /\ uses = "timed_wait" /\ now < End /\ now' = now + 1
  /\ UNCHANGED <<mutex, locker, asleep, stage, deadline, began, result, turns, ready, spurious,
                 uses>>
-----------------------------------------------------------------------------
(* The mutex taken, locker is to be set, by lock as by wait; mutant: wait  *)
(* forgets it.                                                             *)
AfterMutexNotInWait(t) == IF stage[t] = "waking" THEN "locked" ELSE "own"
AfterMutex(t) == "own"

(* se_thread_lock_lock waits for the mutex; so does a thread that comes    *)
(* out of pthread_cond_wait.                                               *)
AcquireMutex(t) ==
  /\ stage[t] \in {"locking", "waking"} /\ mutex = Nobody
  /\ mutex' = t
  /\ Goes(t, AfterMutex(t))
  /\ UNCHANGED <<locker, asleep, deadline, began, result, turns, ready, now, spurious, uses>>

SetLocker(t) ==
  /\ stage[t] = "own"
  /\ locker' = t
  /\ Goes(t, "locked")
  /\ UNCHANGED <<mutex, asleep, deadline, began, result, turns, ready, now, spurious, uses>>

(* What unlock and wait leave in locker; mutant: wait leaves it alone.     *)
ClearedByUnlock(t) == IF stage[t] = "unlocking" THEN Nobody ELSE locker
Cleared(t) == Nobody

(* se_thread_lock_unlock: locker first, then the mutex; wait clears locker *)
(* too.                                                                    *)
ClearLocker(t) ==
  /\ stage[t] \in {"unlocking", "going"}
  /\ locker' = Cleared(t)
  /\ Goes(t, IF stage[t] = "unlocking" THEN "release" ELSE "sleep")
  /\ UNCHANGED <<mutex, asleep, deadline, began, result, turns, ready, now, spurious, uses>>

ReleaseMutex(t) ==
  /\ stage[t] = "release"
  /\ mutex' = Nobody
  /\ Goes(t, IF t = Main \/ turns[t] = 0 THEN "done" ELSE "out")
  /\ UNCHANGED <<locker, asleep, deadline, began, result, turns, ready, now, spurious, uses>>

(* pthread_cond_wait gives the mutex up and blocks in one step; mutant:    *)
(* the mutex is given up before it is called.                              *)
CondWaitUnlocked(t) ==
  /\ stage[t] = "sleep"
  /\ IF mutex = t THEN mutex' = Nobody /\ UNCHANGED <<asleep, stage>>
     ELSE UNCHANGED mutex /\ asleep' = asleep \union {t} /\ Goes(t, "asleep")
  /\ UNCHANGED <<locker, deadline, began, result, turns, ready, now, spurious, uses>>

CondWait(t) ==
  /\ stage[t] = "sleep"
  /\ mutex' = Nobody /\ asleep' = asleep \union {t}
  /\ Goes(t, "asleep")
  /\ UNCHANGED <<locker, deadline, began, result, turns, ready, now, spurious, uses>>

(* The timeout of pthread_cond_timedwait is an absolute time.              *)
TimedOut(t) ==
  /\ t \in asleep /\ uses = "timed_wait" /\ now >= deadline
  /\ asleep' = asleep \ {t} /\ result' = FALSE
  /\ Goes(t, "waking")
  /\ UNCHANGED <<mutex, locker, deadline, began, turns, ready, now, spurious, uses>>

Notify(t) ==
  /\ stage[t] = "notify" /\ "notify" \in Notifiers
  /\ IF asleep = {} THEN UNCHANGED asleep /\ Goes(t, "unlocking")
     ELSE \E u \in asleep : /\ asleep' = asleep \ {u}
                            /\ stage' = [stage EXCEPT ![t] = "unlocking", ![u] = "waking"]
  /\ UNCHANGED <<mutex, locker, deadline, began, result, turns, ready, now, spurious, uses>>

NotifyAll(t) ==
  /\ stage[t] = "notify" /\ "notify_all" \in Notifiers
  /\ asleep' = {}
  /\ stage' = [u \in Lockers |-> IF u = t THEN "unlocking"
                              ELSE IF u \in asleep THEN "waking" ELSE stage[u]]
  /\ UNCHANGED <<mutex, locker, deadline, began, result, turns, ready, now, spurious, uses>>

(* POSIX lets pthread_cond_wait return when nobody has signalled.          *)
SpuriousWakeup(t) ==
  /\ t \in asleep /\ spurious < MaxSpurious
  /\ asleep' = asleep \ {t} /\ spurious' = spurious + 1
  /\ Goes(t, "waking")
  /\ UNCHANGED <<mutex, locker, deadline, began, result, turns, ready, now, uses>>
-----------------------------------------------------------------------------
(* The tutorial's threads.                                                 *)
CallLock(t) ==
  /\ stage[t] = "out"
  /\ Goes(t, "locking")
  /\ UNCHANGED <<mutex, locker, asleep, deadline, began, result, turns, ready, now, spurious, uses>>

AllReady == ready = Cardinality(Workers)

CallWait ==
  /\ stage[Main] = "locked" /\ ~AllReady /\ uses = "wait"
  /\ Goes(Main, "going")
  /\ UNCHANGED <<mutex, locker, asleep, deadline, began, result, turns, ready, now, spurious, uses>>

(* se_thread_lock_timed_wait makes its struct timespec out of tm alone.    *)
CallTimedWait ==
  /\ stage[Main] = "locked" /\ ~AllReady /\ uses = "timed_wait"
  /\ \E tm \in Timeouts : /\ deadline' = tm
                          /\ began' = [at |-> now, tm |-> tm]
  /\ result' = TRUE
  /\ Goes(Main, "going")
  /\ UNCHANGED <<mutex, locker, asleep, turns, ready, now, spurious, uses>>

CallUnlock ==
  /\ stage[Main] = "locked" /\ AllReady
  /\ Goes(Main, "unlocking")
  /\ UNCHANGED <<mutex, locker, asleep, deadline, began, result, turns, ready, now, spurious, uses>>

(* A worker counts itself at its last turn.                                *)
LastTurn(t) == turns[t] = 1

Turn(t) ==
  /\ stage[t] = "locked"
  /\ turns' = [turns EXCEPT ![t] = @ - 1]
  /\ ready' = IF LastTurn(t) THEN ready + 1 ELSE ready
  /\ Goes(t, "notify")
  /\ UNCHANGED <<mutex, locker, asleep, deadline, began, result, now, spurious, uses>>
-----------------------------------------------------------------------------
Runs(t) ==
  CallLock(t) \/ AcquireMutex(t) \/ SetLocker(t) \/ ClearLocker(t) \/ ReleaseMutex(t)
  \/ CondWait(t) \/ Notify(t) \/ NotifyAll(t)

LockNext ==
  \/ Tick \/ CallWait \/ CallTimedWait \/ CallUnlock
  \/ \E t \in Workers : Turn(t)
  \/ \E t \in Lockers : Runs(t) \/ TimedOut(t) \/ SpuriousWakeup(t)

(* Every thread that can run does.  Nothing is assumed of timeouts and     *)
(* spurious wakeups: a notification must be enough.                        *)
LockSpec ==
  /\ LockInit /\ [][LockNext]_lockVars
  /\ WF_lockVars(CallWait) /\ WF_lockVars(CallTimedWait) /\ WF_lockVars(CallUnlock)
  /\ \A t \in Workers : WF_lockVars(Turn(t))
  /\ \A t \in Lockers : WF_lockVars(Runs(t))
-----------------------------------------------------------------------------
LockTypeOK ==
  /\ mutex \in Lockers \union {Nobody} /\ locker \in Lockers \union {Nobody}
  /\ asleep \subseteq Lockers
  /\ stage \in [Lockers -> {"out", "locking", "own", "locked", "going", "sleep", "asleep",
                         "waking", "notify", "unlocking", "release", "done"}]
  /\ deadline \in Nat /\ began \in [at : Nat, tm : Nat] /\ result \in BOOLEAN
  /\ turns \in [Workers -> 0 .. Turns] /\ ready \in 0 .. Cardinality(Workers)
  /\ now \in Start .. End /\ spurious \in 0 .. MaxSpurious
  /\ uses \in Uses

(* is_locked is never true of a thread that does not have the mutex, at no *)
(* point of lock, unlock or wait: locker is set after the mutex is taken   *)
(* and cleared before it is given up.                                      *)
LockerOwnsMutex == locker # Nobody => mutex = locker

(* The contracts of THREAD_LOCK: lock ensures is_locked, and is_locked     *)
(* still holds where unlock, wait, notify and notify_all require it, after *)
(* a wait too.                                                             *)
LockContracts ==
  \A t \in Lockers : stage[t] \in {"locked", "notify", "unlocking", "going"} => is_locked(t)

(* No notification is lost: a main thread that waits without a timeout     *)
(* gets past its loop.                                                     *)
MainGetsThrough == uses = "wait" => <>(stage[Main] = "done")

(* "False if timed out" (thread_lock.e): timed_wait returns False only     *)
(* when its timeout has passed.                                            *)
FalseIfTimedOut == [][result /\ ~result' => now >= began.at + began.tm]_lockVars
=============================================================================
