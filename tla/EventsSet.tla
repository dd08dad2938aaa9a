----------------------------- MODULE EventsSet -----------------------------
(***************************************************************************)
(* What a turn of LOOP_ITEM.run waits for: EVENTS_SET, the time events     *)
(* that TIME_EVENTS hands out from a pool held by weak references, and     *)
(* EVENT_DESCRIPTOR's record of who expects an event.  That record is      *)
(* written by require clauses only ("Clever use of assertions"), so it     *)
(* does not exist in boost mode.                                           *)
(*                                                                         *)
(* Four kinds of jobs: "periodic" is PERIODIC_JOB; "date" keeps the event  *)
(* of TIME_EVENTS.at_date and asks EVENTS_SET.event_occurred, "timeout"    *)
(* does so with TIME_EVENTS.timeout (with a timeout of 0 it is             *)
(* BACKGROUND_JOB), "stream" with INPUT_STREAM.event_can_read.  All have   *)
(* one priority.                                                           *)
(***************************************************************************)
EXTENDS Integers, Sequences, FiniteSets, FiniteSetsExt

CONSTANTS
  Jobs,      \* job_list, a sequence of names
  Kind,      \* the kind of each job
  Period,    \* their period or timeout
  Boosts,    \* whether assertions are checked: a subset of BOOLEAN
  MaxTime    \* bound of the clock

Names == {Jobs[i] : i \in DOMAIN Jobs}

ASSUME EventsAssumption ==
  /\ Jobs \in Seq(Names) /\ Jobs # <<>>
  /\ \A i, k \in DOMAIN Jobs : Jobs[i] = Jobs[k] => i = k
  /\ Kind \in [Names -> {"periodic", "date", "timeout", "stream"}]
  /\ Period \in [Names -> Nat] /\ Boosts \subseteq BOOLEAN /\ MaxTime \in Nat

VARIABLES
  now,       \* the clock
  slots,     \* TIME_EVENTS.date_events: what the weak references refer to
  date,      \* expiration of each DATE_EVENT
  expected,  \* the DATE_EVENTs whose expected_array is not empty
  held,      \* the DATE_EVENT each job keeps
  nextTime,  \* when each job wants to run
  set,       \* EVENTS_SET
  readable,  \* the streams with data
  index, pc,
  boost,     \* no assertion is checked
  waitBegin  \* history: when the last `wait' began

vars == <<now, slots, date, expected, held, nextTime, set, readable, index, pc, boost,
          waitBegin>>

Events  == 1 .. Len(Jobs) + 1
Void    == 0
Forever == 10 * MaxTime + 10   \* Maximum_integer
Invalid == -1                  \* not expiration_valid, not current_time_valid

InitialSet == [timeout |-> Forever, expiration |-> Invalid, currentTime |-> Invalid,
               readSet |-> {}]

Init ==
  /\ now = 0 /\ slots = <<>> /\ expected = {} /\ readable = {}
  /\ date = [e \in Events |-> 0] /\ held = [j \in Names |-> Void]
  /\ nextTime = [j \in Names |-> Period[j]]
  /\ set = InitialSet /\ index = 1 /\ pc = "reset" /\ waitBegin = 0
  /\ boost \in Boosts

TimeUnchanged == UNCHANGED <<now, boost, waitBegin>>
-----------------------------------------------------------------------------
(* reset_events is a require clause.                                       *)
Reset ==
  /\ pc = "reset"
  /\ set' = InitialSet
  /\ expected' = {}
  /\ index' = 1 /\ pc' = "prepare"
  /\ TimeUnchanged /\ UNCHANGED <<slots, date, held, nextTime, readable>>

(* TIME_EVENTS.item: an event of the pool that is not expected; mutant:    *)
(* any event of the pool.                                                  *)
ItemAny == {i \in DOMAIN slots : slots[i] # Void}
Item == {i \in DOMAIN slots : slots[i] # Void /\ slots[i] \notin expected}

(* The slots whose event was collected.                                    *)
EmptySlots == {i \in DOMAIN slots : slots[i] = Void}

(* A new DATE_EVENT is at an address that nothing refers to.               *)
Fresh == Events \ ({slots[i] : i \in DOMAIN slots} \union {held[j] : j \in Names})

(* The event TIME_EVENTS.at_date returns: the first of Item, or a new one, *)
(* which goes into the last empty slot or at the end of the pool.          *)
AtDate(e) ==
  IF Item # {}
  THEN /\ \E i \in Item : (\A k \in Item : i <= k) /\ e = slots[i]
       /\ UNCHANGED slots
  ELSE /\ e \in Fresh /\ \A f \in Fresh : e <= f
       /\ IF EmptySlots = {} THEN slots' = Append(slots, e)
          ELSE \E i \in EmptySlots : /\ \A k \in EmptySlots : k <= i
                                     /\ slots' = [slots EXCEPT ![i] = e]

(* DATE_EVENT.expect: events.at(expiration); mutant: the last date counts. *)
AtLast(d) == d
At(d) == IF set.expiration # Invalid THEN Min({d, set.expiration}) ELSE d

PrepareDate(j) ==
  \E e \in Events :
    /\ AtDate(e)
    /\ date' = [date EXCEPT ![e] = nextTime[j]]
    /\ expected' = IF boost THEN expected ELSE expected \union {e}
    /\ held' = [held EXCEPT ![j] = IF Kind[j] = "date" THEN e ELSE Void]
    /\ set' = [set EXCEPT !.expiration = At(nextTime[j])]

(* TIMEOUT_EVENT.expect: events.after(timeout)                             *)
PrepareTimeout(j) ==
  /\ set' = [set EXCEPT !.timeout = Min({@, Period[j]})]
  /\ UNCHANGED <<slots, date, expected, held>>

PrepareStream(j) ==
  /\ set' = [set EXCEPT !.readSet = @ \union {j}]
  /\ UNCHANGED <<slots, date, expected, held>>

Prepare ==
  LET j == Jobs[index] IN
  /\ pc = "prepare" /\ index <= Len(Jobs)
  /\ CASE Kind[j] \in {"periodic", "date"} -> PrepareDate(j)
       [] Kind[j] = "timeout" -> PrepareTimeout(j)
       [] OTHER -> PrepareStream(j)
  /\ index' = index + 1
  /\ TimeUnchanged /\ UNCHANGED <<nextTime, readable, pc>>

(* EVENTS_SET.wait, up to the call of select                               *)
Wait ==
  /\ pc = "prepare" /\ index > Len(Jobs)
  /\ waitBegin' = now /\ pc' = "wait"
  /\ UNCHANGED <<now, slots, date, expected, held, nextTime, set, readable, index, boost>>

(* When select returns if no stream has data; mutant: dates are ignored.   *)
DeadlineOfTimeout == waitBegin + set.timeout
Deadline ==
  IF set.expiration = Invalid THEN waitBegin + set.timeout
  ELSE Min({Max({waitBegin, set.expiration}), waitBegin + set.timeout})

WaitReturns ==
  /\ pc = "wait" /\ (set.readSet \intersect readable # {} \/ now >= Deadline)
  /\ set' = [set EXCEPT !.readSet = @ \intersect readable, !.currentTime = Invalid]
  /\ index' = 1 /\ pc' = "query"
  /\ TimeUnchanged /\ UNCHANGED <<slots, date, expected, held, nextTime, readable>>

current_time == IF set.currentTime = Invalid THEN now ELSE set.currentTime

(* EVENTS_SET.event_occurred: DATE_EVENT, TIMEOUT_EVENT, CAN_READ...       *)
Occurred(j) ==
  CASE Kind[j] = "date"   -> current_time > date[held[j]]
    [] Kind[j] = "stream" -> j \in set.readSet
    [] OTHER              -> TRUE

is_ready(j) == IF Kind[j] = "periodic" THEN nextTime[j] <= current_time ELSE Occurred(j)

(* JOB.is_ready, and what `continue' does about time and data              *)
Query ==
  LET j == Jobs[index] IN
  /\ pc = "query" /\ index <= Len(Jobs)
  /\ nextTime' = IF is_ready(j) THEN [nextTime EXCEPT ![j] = current_time + Period[j]]
                 ELSE nextTime
  /\ readable' = IF is_ready(j) THEN readable \ {j} ELSE readable
  /\ set' = [set EXCEPT !.currentTime = IF Kind[j] \in {"periodic", "date"}
                                        THEN current_time ELSE @]
  /\ index' = index + 1
  /\ pc' = IF index = Len(Jobs) THEN "reset" ELSE pc
  /\ TimeUnchanged /\ UNCHANGED <<slots, date, expected, held>>
-----------------------------------------------------------------------------
Tick ==
  /\ now < MaxTime /\ now' = now + 1
  /\ UNCHANGED <<slots, date, expected, held, nextTime, set, readable, index, pc, boost,
                 waitBegin>>

Data(j) ==
  /\ Kind[j] = "stream" /\ j \notin readable /\ readable' = readable \union {j}
  /\ TimeUnchanged
  /\ UNCHANGED <<slots, date, expected, held, nextTime, set, index, pc>>

(* The garbage collector voids the weak reference to an event that nothing *)
(* else refers to.  EVENTS_SET.events refers to the expected ones.         *)
Collect ==
  LET kept(e) == e \in expected \/ \E j \in Names : held[j] = e IN
  /\ slots' = [i \in DOMAIN slots |-> IF kept(slots[i]) THEN slots[i] ELSE Void]
  /\ slots' # slots
  /\ TimeUnchanged
  /\ UNCHANGED <<date, expected, held, nextTime, set, readable, index, pc>>

Turn == Reset \/ Prepare \/ Wait \/ WaitReturns \/ Query

Next == Turn \/ Tick \/ Collect \/ \E j \in Names : Data(j)

(* Time passes, and the loop takes its steps.                              *)
Spec == Init /\ [][Next]_vars /\ WF_vars(Turn) /\ WF_vars(Tick)
-----------------------------------------------------------------------------
TypeOK ==
  /\ now \in 0 .. MaxTime /\ slots \in Seq(Events \union {Void}) /\ Len(slots) <= Len(Jobs)
  /\ date \in [Events -> Nat] /\ expected \subseteq Events
  /\ held \in [Names -> Events \union {Void}] /\ nextTime \in [Names -> Nat]
  /\ set.timeout \in Nat /\ set.expiration \in Int /\ set.readSet \subseteq Names
  /\ readable \subseteq Names /\ boost \in Boosts /\ index \in 1 .. Len(Jobs) + 1

(* EVENTS_SET.wait returns in time for every job: the deadline it computes *)
(* from the minimum of what the jobs expect is past none of their dates    *)
(* and timeouts, however the pool shares its events.                       *)
WaitsLongEnough ==
  pc = "wait" => \A j \in Names :
    CASE Kind[j] \in {"periodic", "date"} -> Deadline <= Max({waitBegin, nextTime[j]})
      [] Kind[j] = "timeout" -> Deadline <= waitBegin + Period[j]
      [] OTHER -> TRUE

(* "True if `wait' returned because that `event' happened" (events_set.e): *)
(* what event_occurred answers about the date a job asked for.  With      *)
(* assertions it is so: OccurredIfHappened.                                *)
EventOccurred ==
  LET j == Jobs[index] IN
  pc = "query" /\ Kind[j] = "date" => (Occurred(j) <=> nextTime[j] < current_time)
OccurredIfHappened == ~boost => EventOccurred

(* A job whose date comes is run: no event that is collected, reused or    *)
(* shared makes the loop forget it.  (In boost mode a job that keeps its   *)
(* event may be forgotten, a PERIODIC_JOB is not.)                         *)
DatesRun ==
  \A j \in Names : Kind[j] \in {"periodic", "date"} =>
    \A d \in 0 .. MaxTime - 1 :
      nextTime[j] = d /\ (boost => Kind[j] = "periodic") ~> nextTime[j] # d
=============================================================================
