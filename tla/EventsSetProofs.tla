-------------------------- MODULE EventsSetProofs --------------------------
(***************************************************************************)
(* The loop neither sleeps past a date nor gives a wrong answer about one, *)
(* for any number of jobs of each kind, any periods, and collections of    *)
(* the pool at any point.                                                  *)
(***************************************************************************)
EXTENDS EventsSet, TLAPS

EventsTypes ==
  /\ now \in Nat /\ waitBegin \in Nat /\ boost \in BOOLEAN
  /\ slots \in Seq(Events \union {Void}) /\ date \in [Events -> Nat]
  /\ expected \in SUBSET Events /\ held \in [Names -> Events \union {Void}]
  /\ nextTime \in [Names -> Nat]
  /\ set \in [timeout : Nat, expiration : Nat \union {Invalid},
              currentTime : Nat \union {Invalid}, readSet : SUBSET Names]
  /\ pc \in {"reset", "prepare", "wait", "query"} /\ index \in 1 .. Len(Jobs) + 1

(* index and pc agree; after `wait' there is a job to ask.                 *)
IndexOK ==
  /\ pc = "wait" => index = Len(Jobs) + 1
  /\ pc = "query" => index <= Len(Jobs)

(* The jobs that have expected something this turn, and whose is_ready was *)
(* not asked yet.                                                          *)
Expecting ==
  {i \in DOMAIN Jobs : \/ pc = "prepare" /\ i < index
                       \/ pc = "wait"
                       \/ pc = "query" /\ i >= index}

(* EVENTS_SET knows of nothing later than what these jobs expect.          *)
Covered ==
  pc \in {"prepare", "wait"} => \A i \in Expecting :
    LET j == Jobs[i] IN
    /\ Kind[j] \in {"periodic", "date"} =>
         set.expiration # Invalid /\ set.expiration <= nextTime[j]
    /\ Kind[j] = "timeout" => set.timeout <= Period[j]

(* An expected event is in the pool, so that a new one is not expected,    *)
(* and no collection takes it out.                                         *)
InPool == \A e \in expected : \E i \in DOMAIN slots : slots[i] = e

(* With assertions, the event of such a job is expected, so that nobody    *)
(* else is given it, and has the date the job asked for.                   *)
DateKept ==
  ~boost => \A i \in Expecting :
    Kind[Jobs[i]] = "date" => /\ held[Jobs[i]] \in expected
                              /\ date[held[Jobs[i]]] = nextTime[Jobs[i]]

EventsInv == EventsTypes /\ IndexOK /\ Covered /\ InPool /\ DateKept
-----------------------------------------------------------------------------
LEMMA JobNames ==
  /\ Len(Jobs) \in Nat \ {0} /\ DOMAIN Jobs = 1 .. Len(Jobs)
  /\ \A i \in DOMAIN Jobs : Jobs[i] \in Names
  /\ \A j \in Names : \E i \in DOMAIN Jobs : Jobs[i] = j
BY EventsAssumption DEF Names

LEMMA Minimum ==
  ASSUME NEW a \in Int, NEW b \in Int
  PROVE  Min({a, b}) = IF a <= b THEN a ELSE b
<1>1. \E x \in {a, b} : \A y \in {a, b} : x <= y
  OBVIOUS
<1>2. Min({a, b}) \in {a, b} /\ Min({a, b}) <= a /\ Min({a, b}) <= b
  BY <1>1 DEF Min
<1>3. QED
  BY <1>2

LEMMA Maximum ==
  ASSUME NEW a \in Int, NEW b \in Int
  PROVE  Max({a, b}) = IF a <= b THEN b ELSE a
<1>1. \E x \in {a, b} : \A y \in {a, b} : x >= y
  OBVIOUS
<1>2. Max({a, b}) \in {a, b} /\ Max({a, b}) >= a /\ Max({a, b}) >= b
  BY <1>1 DEF Max
<1>3. QED
  BY <1>2

LEMMA InitEvents == Init => EventsInv
<1>1. ASSUME Init PROVE EventsInv
  <2>1. Forever \in Nat /\ Len(Jobs) \in Nat /\ 1 \in 1 .. Len(Jobs) + 1
    BY EventsAssumption, JobNames DEF Forever
  <2>2. EventsTypes
    BY <1>1, <2>1, EventsAssumption DEF Init, EventsTypes, InitialSet, Void
  <2>3. IndexOK /\ Covered /\ InPool /\ DateKept
    BY <1>1 DEF Init, IndexOK, Covered, InPool, DateKept, Expecting
  <2>4. QED
    BY <2>2, <2>3 DEF EventsInv
<1>2. QED
  BY <1>1

LEMMA CurrentTime == EventsTypes => current_time \in Nat
BY DEF EventsTypes, current_time
-----------------------------------------------------------------------------
LEMMA ResetInv == EventsInv /\ Reset => EventsInv'
<1>1. ASSUME EventsInv, Reset PROVE EventsInv'
  <2>1. EventsTypes'
    <3>1. Forever \in Nat /\ 1 \in 1 .. Len(Jobs) + 1
      BY EventsAssumption, JobNames DEF Forever
    <3>2. QED
      BY <1>1, <3>1 DEF EventsInv, EventsTypes, Reset, InitialSet, TimeUnchanged
  <2>2. Expecting' = {}
    BY <1>1, JobNames DEF Reset, Expecting
  <2>3. IndexOK' /\ Covered' /\ InPool' /\ DateKept'
    BY <1>1, <2>2 DEF Reset, IndexOK, Covered, InPool, DateKept
  <2>4. QED
    BY <2>1, <2>3 DEF EventsInv
<1>2. QED
  BY <1>1

(* The event that at_date returns is not expected by anybody, the pool     *)
(* has it, and keeps the expected ones.                                    *)
LEMMA AtDateNew ==
  ASSUME EventsInv, NEW e \in Events, AtDate(e)
  PROVE  /\ e \notin expected
         /\ slots' \in Seq(Events \union {Void})
         /\ \A f \in expected \union {e} : \E i \in DOMAIN slots' : slots'[i] = f
<1>1. CASE Item # {}
  BY <1>1 DEF AtDate, Item, EventsInv, EventsTypes, InPool
<1>2. CASE Item = {} /\ EmptySlots = {}
  <2>1. slots' = Append(slots, e) /\ e \in Fresh
    BY <1>2 DEF AtDate
  <2>2. e \notin expected
    BY <2>1 DEF Fresh, EventsInv, InPool
  <2>3. /\ slots' \in Seq(Events \union {Void}) /\ Len(slots') = Len(slots) + 1
        /\ \A i \in DOMAIN slots : i \in DOMAIN slots' /\ slots'[i] = slots[i]
        /\ slots'[Len(slots) + 1] = e
    BY <2>1 DEF EventsInv, EventsTypes
  <2>4. Len(slots) + 1 \in DOMAIN slots'
    BY <2>3 DEF EventsInv, EventsTypes
  <2>5. QED
    BY <2>2, <2>3, <2>4 DEF EventsInv, InPool
<1>3. CASE Item = {} /\ EmptySlots # {}
  <2>1. e \in Fresh
    BY <1>3 DEF AtDate
  <2>2. PICK i \in EmptySlots : slots' = [slots EXCEPT ![i] = e]
    BY <1>3 DEF AtDate
  <2>3. i \in DOMAIN slots /\ slots[i] = Void /\ slots \in Seq(Events \union {Void})
    BY DEF EmptySlots, EventsInv, EventsTypes
  <2>4. /\ slots' \in Seq(Events \union {Void}) /\ DOMAIN slots' = DOMAIN slots
        /\ slots'[i] = e
        /\ \A k \in DOMAIN slots : k # i => slots'[k] = slots[k]
    BY <2>2, <2>3
  <2>5. e \notin expected
    BY <2>1 DEF Fresh, EventsInv, InPool
  <2>6. Void \notin expected
    BY DEF Void, Events, EventsInv, EventsTypes
  <2>7. QED
    BY <2>3, <2>4, <2>5, <2>6 DEF EventsInv, InPool
<1>4. QED
  BY <1>1, <1>2, <1>3

(* A job that waits for a date.                                            *)
LEMMA PrepareDateInv ==
  ASSUME EventsInv, NEW j \in Names, pc = "prepare", index \in DOMAIN Jobs,
         j = Jobs[index], Kind[j] \in {"periodic", "date"},
         PrepareDate(j), index' = index + 1, TimeUnchanged,
         UNCHANGED <<nextTime, readable, pc>>
  PROVE  EventsInv'
<1>1. PICK e \in Events :
        /\ AtDate(e)
        /\ date' = [date EXCEPT ![e] = nextTime[j]]
        /\ expected' = IF boost THEN expected ELSE expected \union {e}
        /\ held' = [held EXCEPT ![j] = IF Kind[j] = "date" THEN e ELSE Void]
        /\ set' = [set EXCEPT !.expiration = At(nextTime[j])]
  BY DEF PrepareDate
<1>2. /\ e \notin expected /\ slots' \in Seq(Events \union {Void})
      /\ \A f \in expected \union {e} : \E i \in DOMAIN slots' : slots'[i] = f
  BY <1>1, AtDateNew
<1>3. EventsTypes
  BY DEF EventsInv
<1>4. /\ At(nextTime[j]) \in Nat /\ At(nextTime[j]) <= nextTime[j]
      /\ set.expiration # Invalid => At(nextTime[j]) <= set.expiration
  <2>1. nextTime[j] \in Nat /\ set.expiration \in Nat \union {Invalid} /\ Invalid = -1
    BY <1>3 DEF EventsTypes, Invalid
  <2>2. QED
    BY <2>1, Minimum DEF At
<1>5. EventsTypes'
  <2>1. index' \in 1 .. Len(Jobs) + 1
    BY JobNames
  <2>2. set' \in [timeout : Nat, expiration : Nat \union {Invalid},
                  currentTime : Nat \union {Invalid}, readSet : SUBSET Names]
    BY <1>1, <1>3, <1>4 DEF EventsTypes
  <2>3. date' \in [Events -> Nat] /\ held' \in [Names -> Events \union {Void}]
        /\ expected' \in SUBSET Events
    BY <1>1, <1>3 DEF EventsTypes
  <2>4. QED
    BY <1>2, <1>3, <2>1, <2>2, <2>3 DEF EventsTypes, TimeUnchanged
<1>6. IndexOK'
  BY DEF IndexOK
<1>7. \A i \in Expecting' : i \in DOMAIN Jobs /\ (i = index \/ i \in Expecting)
  BY JobNames DEF Expecting
<1>8. Covered'
  <2>1. set'.timeout = set.timeout /\ set'.expiration = At(nextTime[j])
    BY <1>1, <1>3 DEF EventsTypes
  <2>2. At(nextTime[j]) # Invalid
    BY <1>4 DEF Invalid
  <2>3. ASSUME NEW i \in Expecting', Kind[Jobs[i]] \in {"periodic", "date"}
        PROVE  At(nextTime[j]) <= nextTime[Jobs[i]]
    <3>1. CASE i = index
      BY <3>1, <1>4
    <3>2. CASE i \in Expecting
      <4>1. set.expiration # Invalid /\ set.expiration <= nextTime[Jobs[i]]
        BY <2>3, <3>2 DEF EventsInv, Covered
      <4>2. set.expiration \in Nat /\ nextTime[Jobs[i]] \in Nat
        BY <1>3, <1>7, <4>1, JobNames DEF EventsTypes
      <4>3. QED
        BY <1>4, <4>1, <4>2
    <3>3. QED
      BY <1>7, <3>1, <3>2
  <2>4. ASSUME NEW i \in Expecting', Kind[Jobs[i]] = "timeout"
        PROVE  set.timeout <= Period[Jobs[i]]
    BY <1>7, <2>4 DEF EventsInv, Covered
  <2>5. QED
    BY <2>1, <2>2, <2>3, <2>4 DEF Covered
<1>9. InPool'
  BY <1>1, <1>2 DEF InPool
<1>10. DateKept'
  <2>1. ASSUME ~boost, NEW i \in Expecting', Kind[Jobs[i]] = "date"
        PROVE  /\ held'[Jobs[i]] \in expected'
               /\ date'[held'[Jobs[i]]] = nextTime[Jobs[i]]
    <3>1. CASE i = index
      BY <1>1, <1>3, <2>1, <3>1 DEF EventsTypes
    <3>2. CASE i # index
      <4>1. i \in Expecting /\ Jobs[i] # j /\ Jobs[i] \in Names
        BY <1>7, <3>2, EventsAssumption, JobNames
      <4>2. held[Jobs[i]] \in expected /\ date[held[Jobs[i]]] = nextTime[Jobs[i]]
        BY <2>1, <4>1 DEF EventsInv, DateKept
      <4>3. held'[Jobs[i]] = held[Jobs[i]] /\ held[Jobs[i]] # e
        BY <1>1, <1>2, <1>3, <4>1, <4>2 DEF EventsTypes
      <4>4. QED
        BY <1>1, <1>3, <2>1, <4>2, <4>3 DEF EventsTypes
    <3>3. QED
      BY <3>1, <3>2
  <2>2. QED
    BY <2>1 DEF DateKept, TimeUnchanged
<1>11. QED
  BY <1>5, <1>6, <1>8, <1>9, <1>10 DEF EventsInv

LEMMA PrepareInv == EventsInv /\ Prepare => EventsInv'
<1> SUFFICES ASSUME EventsInv, Prepare PROVE EventsInv'
  OBVIOUS
<1> DEFINE j == Jobs[index]
<1>1. /\ pc = "prepare" /\ index \in DOMAIN Jobs /\ index \in Nat /\ j \in Names
      /\ index' = index + 1 /\ TimeUnchanged /\ UNCHANGED <<nextTime, readable, pc>>
  BY JobNames DEF Prepare, EventsInv, EventsTypes
<1>2. Kind[j] \in {"periodic", "date", "timeout", "stream"}
  BY <1>1, EventsAssumption
<1>3. CASE Kind[j] \in {"periodic", "date"}
  <2>1. PrepareDate(j)
    BY <1>3 DEF Prepare
  <2>2. QED
    BY <1>1, <1>3, <2>1, PrepareDateInv
<1>4. CASE Kind[j] \in {"timeout", "stream"}
  <2>1. IF Kind[j] = "timeout" THEN PrepareTimeout(j) ELSE PrepareStream(j)
    BY <1>4 DEF Prepare
  <2>2. UNCHANGED <<slots, date, expected, held>>
    BY <2>1 DEF PrepareTimeout, PrepareStream
  <2>3. EventsTypes /\ Period[j] \in Nat
    BY <1>1, EventsAssumption DEF EventsInv
  <2>4. /\ set' \in [timeout : Nat, expiration : Nat \union {Invalid},
                     currentTime : Nat \union {Invalid}, readSet : SUBSET Names]
        /\ set'.expiration = set.expiration /\ set'.timeout <= set.timeout
        /\ Kind[j] = "timeout" => set'.timeout <= Period[j]
    <3>1. CASE Kind[j] = "timeout"
      <4>1. set' = [set EXCEPT !.timeout = Min({set.timeout, Period[j]})]
        BY <2>1, <3>1 DEF PrepareTimeout
      <4>2. /\ Min({set.timeout, Period[j]}) \in Nat
            /\ Min({set.timeout, Period[j]}) <= Period[j]
            /\ Min({set.timeout, Period[j]}) <= set.timeout
        <5>1. set.timeout \in Nat
          BY <2>3 DEF EventsTypes
        <5>2. QED
          BY <2>3, <5>1, Minimum
      <4>3. QED
        BY <2>3, <4>1, <4>2 DEF EventsTypes
    <3>2. CASE Kind[j] = "stream"
      <4>1. set' = [set EXCEPT !.readSet = @ \union {j}]
        BY <2>1, <3>2 DEF PrepareStream
      <4>2. set.timeout \in Nat /\ set.readSet \union {j} \in SUBSET Names
        BY <1>1, <2>3 DEF EventsTypes
      <4>3. /\ set' \in [timeout : Nat, expiration : Nat \union {Invalid},
                         currentTime : Nat \union {Invalid}, readSet : SUBSET Names]
            /\ set'.expiration = set.expiration /\ set'.timeout = set.timeout
        <5> DEFINE r == set.readSet \union {j}
        <5>1. set' = [set EXCEPT !.readSet = r] /\ r \in SUBSET Names
          BY <4>1, <4>2
        <5> HIDE DEF r
        <5>2. QED
          BY <2>3, <4>2, <5>1 DEF EventsTypes
      <4>4. QED
        BY <3>2, <4>2, <4>3
    <3>3. QED
      BY <1>4, <3>1, <3>2
  <2>5. EventsTypes'
    BY <1>1, <2>2, <2>3, <2>4, JobNames DEF EventsTypes, TimeUnchanged
  <2>6. \A i \in Expecting' : i \in DOMAIN Jobs /\ (i = index \/ i \in Expecting)
    BY <1>1, JobNames DEF Expecting
  <2>7. Covered'
    <3>1. ASSUME NEW i \in Expecting', Kind[Jobs[i]] \in {"periodic", "date"}
          PROVE  set'.expiration # Invalid /\ set'.expiration <= nextTime[Jobs[i]]
      <4>1. i \in Expecting
        BY <1>4, <2>6, <3>1
      <4>2. QED
        BY <1>1, <2>4, <3>1, <4>1 DEF EventsInv, Covered
    <3>2. ASSUME NEW i \in Expecting', Kind[Jobs[i]] = "timeout"
          PROVE  set'.timeout <= Period[Jobs[i]]
      <4>1. CASE i = index
        BY <2>4, <3>2, <4>1
      <4>2. CASE i \in Expecting
        <5>1. set.timeout <= Period[Jobs[i]] /\ Period[Jobs[i]] \in Nat
          BY <1>1, <2>6, <3>2, <4>2, EventsAssumption, JobNames DEF EventsInv, Covered
        <5>2. set.timeout \in Nat /\ set'.timeout \in Nat
          BY <2>3, <2>4 DEF EventsTypes
        <5>3. QED
          BY <2>4, <5>1, <5>2
      <4>3. QED
        BY <2>6, <4>1, <4>2
    <3>3. QED
      BY <1>1, <3>1, <3>2 DEF Covered
  <2>8. IndexOK' /\ InPool'
    BY <1>1, <2>2 DEF IndexOK, EventsInv, InPool
  <2>9. DateKept'
    <3>1. ASSUME NEW i \in Expecting', Kind[Jobs[i]] = "date" PROVE i \in Expecting
      BY <1>4, <2>6, <3>1
    <3>2. QED
      BY <1>1, <2>2, <3>1 DEF EventsInv, DateKept, TimeUnchanged
  <2>10. QED
    BY <2>5, <2>7, <2>8, <2>9 DEF EventsInv
<1>5. QED
  BY <1>2, <1>3, <1>4
-----------------------------------------------------------------------------
LEMMA WaitInv == EventsInv /\ Wait => EventsInv'
<1> SUFFICES ASSUME EventsInv, Wait PROVE EventsInv'
  OBVIOUS
<1>1. index = Len(Jobs) + 1
  BY JobNames DEF Wait, EventsInv, EventsTypes
<1>2. EventsTypes' /\ IndexOK' /\ InPool'
  BY <1>1 DEF Wait, EventsInv, EventsTypes, IndexOK, InPool
<1>3. Expecting' = Expecting
  BY <1>1, JobNames DEF Wait, Expecting
<1>4. Covered' /\ DateKept'
  BY <1>3 DEF Wait, EventsInv, Covered, DateKept
<1>5. QED
  BY <1>2, <1>4 DEF EventsInv

LEMMA WaitReturnsInv == EventsInv /\ WaitReturns => EventsInv'
<1> SUFFICES ASSUME EventsInv, WaitReturns PROVE EventsInv'
  OBVIOUS
<1>1. EventsTypes'
  <2> DEFINE r == set.readSet \intersect readable
  <2>1. /\ set' = [set EXCEPT !.readSet = r, !.currentTime = Invalid]
        /\ r \in SUBSET Names
    BY DEF WaitReturns, EventsInv, EventsTypes
  <2> HIDE DEF r
  <2>2. set' \in [timeout : Nat, expiration : Nat \union {Invalid},
                  currentTime : Nat \union {Invalid}, readSet : SUBSET Names]
    BY <2>1 DEF EventsInv, EventsTypes
  <2>3. QED
    BY <2>2, JobNames DEF WaitReturns, EventsInv, EventsTypes, TimeUnchanged
<1>2. IndexOK' /\ InPool'
  BY JobNames DEF WaitReturns, EventsInv, IndexOK, InPool
<1>3. Expecting' = Expecting
  BY JobNames DEF WaitReturns, Expecting
<1>4. Covered' /\ DateKept'
  BY <1>3 DEF WaitReturns, EventsInv, Covered, DateKept, TimeUnchanged
<1>5. QED
  BY <1>1, <1>2, <1>4 DEF EventsInv

LEMMA QueryInv == EventsInv /\ Query => EventsInv'
<1> SUFFICES ASSUME EventsInv, Query PROVE EventsInv'
  OBVIOUS
<1> DEFINE j == Jobs[index]
<1>1. /\ pc = "query" /\ index \in DOMAIN Jobs /\ index \in Nat /\ j \in Names
      /\ index' = index + 1 /\ pc' = IF index = Len(Jobs) THEN "reset" ELSE pc
  BY JobNames DEF Query, EventsInv, EventsTypes
<1>2. current_time \in Nat /\ Period[j] \in Nat /\ EventsTypes
  BY <1>1, CurrentTime, EventsAssumption DEF EventsInv
<1>3. /\ nextTime' \in [Names -> Nat]
      /\ \A n \in Names : n # j => nextTime'[n] = nextTime[n]
  <2>1. nextTime' = nextTime \/ nextTime' = [nextTime EXCEPT ![j] = current_time + Period[j]]
    BY DEF Query
  <2>2. current_time + Period[j] \in Nat
    BY <1>2
  <2>3. QED
    BY <1>1, <1>2, <2>1, <2>2 DEF EventsTypes
<1>4. EventsTypes'
  <2>1. set' = [set EXCEPT !.currentTime = IF Kind[j] \in {"periodic", "date"}
                                           THEN current_time ELSE @]
    BY DEF Query
  <2>2. set' \in [timeout : Nat, expiration : Nat \union {Invalid},
                  currentTime : Nat \union {Invalid}, readSet : SUBSET Names]
    BY <1>2, <2>1 DEF EventsTypes
  <2>3. index' \in 1 .. Len(Jobs) + 1
    BY <1>1, JobNames
  <2>4. QED
    BY <1>1, <1>2, <1>3, <2>2, <2>3 DEF EventsTypes, Query, TimeUnchanged
<1>5. IndexOK' /\ InPool' /\ Covered'
  BY <1>1, JobNames DEF Query, EventsInv, IndexOK, InPool, Covered
<1>6. ASSUME NEW i \in Expecting'
      PROVE  i \in Expecting /\ Jobs[i] \in Names /\ Jobs[i] # j
  <2>1. i \in DOMAIN Jobs /\ i >= index + 1
    BY <1>1 DEF Expecting
  <2>2. QED
    BY <1>1, <2>1, EventsAssumption, JobNames DEF Expecting
<1>7. DateKept'
  BY <1>3, <1>6 DEF Query, EventsInv, DateKept, TimeUnchanged
<1>8. QED
  BY <1>4, <1>5, <1>7 DEF EventsInv

LEMMA TickInv == EventsInv /\ Tick => EventsInv'
<1> SUFFICES ASSUME EventsInv, Tick PROVE EventsInv'
  OBVIOUS
<1>1. EventsTypes' /\ IndexOK' /\ InPool'
  BY DEF Tick, EventsInv, EventsTypes, IndexOK, InPool
<1>2. Expecting' = Expecting
  BY DEF Tick, Expecting
<1>3. Covered' /\ DateKept'
  BY <1>2 DEF Tick, EventsInv, Covered, DateKept
<1>4. QED
  BY <1>1, <1>3 DEF EventsInv

LEMMA DataInv == ASSUME EventsInv, NEW j \in Names, Data(j) PROVE EventsInv'
<1>1. EventsTypes' /\ IndexOK' /\ InPool'
  BY DEF Data, TimeUnchanged, EventsInv, EventsTypes, IndexOK, InPool
<1>2. Expecting' = Expecting
  BY DEF Data, Expecting
<1>3. Covered' /\ DateKept'
  BY <1>2 DEF Data, TimeUnchanged, EventsInv, Covered, DateKept
<1>4. QED
  BY <1>1, <1>3 DEF EventsInv

LEMMA CollectInv == EventsInv /\ Collect => EventsInv'
<1> SUFFICES ASSUME EventsInv, Collect PROVE EventsInv'
  OBVIOUS
<1>1. /\ slots \in Seq(Events \union {Void}) /\ slots' \in Seq(Events \union {Void})
      /\ DOMAIN slots' = DOMAIN slots
      /\ \A i \in DOMAIN slots : slots[i] \in expected => slots'[i] = slots[i]
  <2>1. slots' = [i \in DOMAIN slots |->
                   IF slots[i] \in expected \/ (\E j \in Names : held[j] = slots[i])
                   THEN slots[i] ELSE Void]
    BY DEF Collect
  <2>2. slots \in Seq(Events \union {Void})
    BY DEF EventsInv, EventsTypes
  <2>3. QED
    BY <2>1, <2>2
<1>2. EventsTypes' /\ IndexOK'
  <2>1. UNCHANGED <<now, boost, waitBegin, date, expected, held, nextTime, set, readable,
                    index, pc>>
    BY DEF Collect, TimeUnchanged
  <2>2. QED
    BY <1>1, <2>1 DEF EventsInv, EventsTypes, IndexOK
<1>3. InPool'
  BY <1>1 DEF Collect, EventsInv, InPool
<1>4. Expecting' = Expecting
  BY DEF Collect, Expecting
<1>5. Covered' /\ DateKept'
  BY <1>4 DEF Collect, TimeUnchanged, EventsInv, Covered, DateKept
<1>6. QED
  BY <1>2, <1>3, <1>5 DEF EventsInv
-----------------------------------------------------------------------------
(* The invariant holds in every reachable state.                           *)
THEOREM EventsInvariance == Spec => []EventsInv
<1>1. ASSUME EventsInv, [Next]_vars PROVE EventsInv'
  <2>1. CASE Turn
    BY <1>1, <2>1, ResetInv, PrepareInv, WaitInv, WaitReturnsInv, QueryInv DEF Turn
  <2>2. CASE Tick
    BY <1>1, <2>2, TickInv
  <2>3. CASE Collect
    BY <1>1, <2>3, CollectInv
  <2>4. CASE \E j \in Names : Data(j)
    BY <1>1, <2>4, DataInv
  <2>5. CASE UNCHANGED vars
    <3>1. Expecting' = Expecting
      BY <2>5 DEF vars, Expecting
    <3>2. QED
      BY <1>1, <2>5, <3>1 DEF vars, EventsInv, EventsTypes, IndexOK, Covered, InPool, DateKept
  <2>6. QED
    BY <1>1, <2>1, <2>2, <2>3, <2>4, <2>5 DEF Next
<1>2. QED
  BY <1>1, InitEvents, PTL DEF Spec

(* EVENTS_SET.wait returns in time for every job, whatever the pool, the   *)
(* collections and the jobs of other kinds do.                             *)
THEOREM LongEnough == Spec => []WaitsLongEnough
<1>1. ASSUME EventsInv PROVE WaitsLongEnough
  <2> SUFFICES ASSUME pc = "wait", NEW j \in Names
               PROVE  /\ Kind[j] \in {"periodic", "date"} =>
                            Deadline <= Max({waitBegin, nextTime[j]})
                      /\ Kind[j] = "timeout" => Deadline <= waitBegin + Period[j]
    BY EventsAssumption DEF WaitsLongEnough
  <2>1. PICK i \in Expecting : Jobs[i] = j
    BY JobNames DEF Expecting
  <2>2. /\ Kind[j] \in {"periodic", "date"} =>
             set.expiration # Invalid /\ set.expiration <= nextTime[j]
        /\ Kind[j] = "timeout" => set.timeout <= Period[j]
    BY <1>1, <2>1 DEF EventsInv, Covered
  <2>3. /\ waitBegin \in Nat /\ set.timeout \in Nat /\ nextTime[j] \in Nat
        /\ set.expiration \in Nat \union {Invalid} /\ Invalid = -1 /\ Period[j] \in Nat
    BY <1>1, EventsAssumption DEF EventsInv, EventsTypes, Invalid
  <2>4. /\ Deadline \in Int /\ Deadline <= waitBegin + set.timeout
        /\ set.expiration # Invalid => Deadline <= Max({waitBegin, set.expiration})
    <3>1. CASE set.expiration = Invalid
      BY <2>3, <3>1 DEF Deadline
    <3>2. CASE set.expiration # Invalid
      <4> DEFINE m == Max({waitBegin, set.expiration})
                 t == waitBegin + set.timeout
      <4>1. m \in Int /\ t \in Int
        BY <2>3, <3>2, Maximum
      <4>2. Deadline = Min({m, t})
        BY <3>2 DEF Deadline
      <4> HIDE DEF m, t
      <4>3. Deadline \in Int /\ Deadline <= m /\ Deadline <= t
        BY <4>1, <4>2, Minimum
      <4>4. QED
        BY <4>3 DEF m, t
    <3>3. QED
      BY <3>1, <3>2
  <2>5. CASE Kind[j] \in {"periodic", "date"}
    BY <2>2, <2>3, <2>4, <2>5, Maximum
  <2>6. CASE Kind[j] = "timeout"
    BY <2>2, <2>3, <2>4, <2>6
  <2>7. QED
    BY <2>5, <2>6
<1>2. QED
  BY <1>1, EventsInvariance, PTL

(* With assertions, event_occurred answers about the date the job asked    *)
(* for, whoever else is given events of the pool.                          *)
THEOREM OccurredRight == Spec => []OccurredIfHappened
<1>1. ASSUME EventsInv PROVE OccurredIfHappened
  <2> DEFINE j == Jobs[index]
  <2> SUFFICES ASSUME ~boost, pc = "query", Kind[j] = "date"
               PROVE  Occurred(j) <=> nextTime[j] < current_time
    BY DEF OccurredIfHappened, EventOccurred
  <2>1. index \in Expecting /\ j \in Names
    BY <1>1, JobNames DEF Expecting, EventsInv, EventsTypes, IndexOK
  <2>2. date[held[j]] = nextTime[j] /\ nextTime[j] \in Nat /\ current_time \in Nat
    BY <1>1, <2>1, CurrentTime DEF EventsInv, DateKept, EventsTypes
  <2>3. Occurred(j) <=> current_time > date[held[j]]
    BY DEF Occurred
  <2>4. QED
    BY <2>2, <2>3
<1>2. QED
  BY <1>1, EventsInvariance, PTL
=============================================================================
