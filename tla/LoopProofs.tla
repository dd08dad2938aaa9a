----------------------------- MODULE LoopProofs -----------------------------
(***************************************************************************)
(* The jobs of the event loop, for every number of jobs and of loops: no   *)
(* selection, finish, restart, push or break of a loop loses a job or      *)
(* doubles one, and the lists stay sorted by priority.                     *)
(*                                                                         *)
(* The lists are built by loops, so what they hold is shown by an          *)
(* induction over the numbers up to their length: as a search for the      *)
(* least number that fails.                                                *)
(***************************************************************************)
EXTENDS LoopStack, ListLemmas, FiniteSetTheorems

Sorted(s) == \A i, k \in 1 .. Len(s) : i < k => Priority[s[i]] <= Priority[s[k]]

(* What a selection keeps, and that it keeps the order.                    *)
LEMMA KeptJobs ==
  ASSUME NEW s \in Seq(Jobs), NEW S
  PROVE  /\ Kept(s, S) \in Seq(Jobs)
         /\ Mem(Kept(s, S)) = {j \in Mem(s) : j \in S}
         /\ Once(s) => Once(Kept(s, S))
         /\ Sorted(s) => Sorted(Kept(s, S))
<1> DEFINE t == Kept(s, S)
           n == Len(s)
<1>1. Kept(s, S) = KeptUpTo(s, S)[Len(s)]
  BY DEF Kept, KeptUpTo
<1>2. IsKept(Jobs, t, s, n, S)
  BY <1>1, KeptIsKept
<1> HIDE DEF t
<1>3. t \in Seq(Jobs) /\ Mem(t) = {j \in Mem(s) : j \in S} /\ (Once(s) => Once(t))
  BY <1>2, KeptFacts
<1>4. PICK e \in [1 .. Len(t) -> 1 .. n] : KeptTo(t, s, n, S, e)
  BY <1>2 DEF IsKept
<1>5. ASSUME Sorted(s), NEW i \in 1 .. Len(t), NEW k \in 1 .. Len(t), i < k
      PROVE  Priority[t[i]] <= Priority[t[k]]
  <2>1. e[i] \in 1 .. Len(s) /\ e[k] \in 1 .. Len(s) /\ e[i] < e[k]
        /\ t[i] = s[e[i]] /\ t[k] = s[e[k]]
    BY <1>4, <1>5 DEF KeptTo
  <2> QED
    BY <1>5, <2>1 DEF Sorted
<1> QED
  BY <1>3, <1>5 DEF Sorted, t

(* LOOP_ITEM.add_job puts one job in, where its priority wants it.         *)
LEMMA InsertedAt ==
  ASSUME NEW list \in Seq(Jobs), NEW j \in Jobs
  PROVE  \E at \in 1 .. Len(list) + 1 :
           /\ Inserted(list, j) = InsertAt(list, at, j)
           /\ \A i \in 1 .. at - 1 : Priority[list[i]] <= Priority[j]
           /\ \A i \in at .. Len(list) : Sorted(list) => Priority[j] <= Priority[list[i]]
<1> DEFINE n == Len(list)
           later == {i \in DOMAIN list : Priority[list[i]] > Priority[j]}
           at == IF later = {} THEN n + 1 ELSE CHOOSE i \in later : \A k \in later : i <= k
<1>1. n \in Nat /\ DOMAIN list = 1 .. n /\ \A i \in 1 .. n : Priority[list[i]] \in Int
  BY LoopAssumption
<1>2. Priority[j] \in Int
  BY LoopAssumption
<1>3. later # {} => at \in later /\ \A k \in later : at <= k
  <2>1. later \in SUBSET Nat
    BY <1>1
  <2> HIDE DEF later
  <2> QED
    BY <2>1, LeastNat
<1> HIDE DEF at
<1>4. at \in 1 .. n + 1
  BY <1>1, <1>3 DEF at
<1>5. ASSUME NEW i \in 1 .. at - 1 PROVE Priority[list[i]] <= Priority[j]
  <2>1. i \in 1 .. n /\ i \in Nat /\ ~(at <= i)
    BY <1>1, <1>4
  <2>2. i \notin later
    BY <1>3, <2>1
  <2> QED
    BY <1>1, <1>2, <2>1, <2>2
<1>6. ASSUME NEW i \in at .. n, Sorted(list) PROVE Priority[j] <= Priority[list[i]]
  <2>1. at \in 1 .. n /\ i \in 1 .. n
    BY <1>1, <1>4
  <2>2. at \in later
    BY <1>1, <1>3, <2>1 DEF at
  <2>3. Priority[j] <= Priority[list[at]]
    BY <1>1, <1>2, <2>1, <2>2
  <2>4. Priority[list[at]] <= Priority[list[i]]
    BY <1>1, <1>6, <2>1 DEF Sorted
  <2> QED
    BY <1>1, <1>2, <2>1, <2>3, <2>4
<1>7. Inserted(list, j) = InsertAt(list, at, j)
  BY DEF Inserted, at
<1> QED
  BY <1>4, <1>5, <1>6, <1>7

LEMMA InsertedFacts ==
  ASSUME NEW list \in Seq(Jobs), NEW j \in Jobs
  PROVE  /\ Inserted(list, j) \in Seq(Jobs)
         /\ Mem(Inserted(list, j)) = Mem(list) \union {j}
         /\ Once(list) /\ j \notin Mem(list) => Once(Inserted(list, j))
         /\ Sorted(list) => Sorted(Inserted(list, j))
<1> DEFINE r == Inserted(list, j)
           n == Len(list)
<1>1. PICK at \in 1 .. n + 1 :
        /\ r = InsertAt(list, at, j)
        /\ \A i \in 1 .. at - 1 : Priority[list[i]] <= Priority[j]
        /\ \A i \in at .. n : Sorted(list) => Priority[j] <= Priority[list[i]]
  BY InsertedAt
<1>2. n \in Nat /\ \A i \in 1 .. n : list[i] \in Jobs /\ Priority[list[i]] \in Int
  BY LoopAssumption
<1>3. Priority[j] \in Int
  BY LoopAssumption
<1> HIDE DEF r
<1>4. /\ r \in Seq(Jobs) /\ Len(r) = n + 1
      /\ \A i \in 1 .. at - 1 : r[i] = list[i]
      /\ r[at] = j
      /\ \A i \in at + 1 .. n + 1 : r[i] = list[i - 1]
  <2> DEFINE s == InsertAt(list, at, j)
  <2>1. s = r
    BY <1>1
  <2>2. /\ s \in Seq(Jobs) /\ Len(s) = n + 1
        /\ \A i \in 1 .. at - 1 : s[i] = list[i]
        /\ s[at] = j
        /\ \A i \in at + 1 .. n + 1 : s[i] = list[i - 1]
    <3>1. IsInserted(Jobs, list, at, j, s)
      BY InsertAtFacts
    <3> HIDE DEF s
    <3>2. \A i \in 1 .. at - 1 : i \in 1 .. n + 1 /\ i < at
      BY <1>2
    <3>3. \A i \in at + 1 .. n + 1 : i \in 1 .. n + 1 /\ ~(i < at) /\ i # at
      BY <1>2
    <3>4. at \in 1 .. n + 1 /\ ~(at < at)
      BY <1>2
    <3> QED
      BY <3>1, <3>2, <3>3, <3>4 DEF IsInserted
  <2> HIDE DEF s
  <2> QED
    BY <2>1, <2>2
(* Where the member at i was before.                                       *)
<1> DEFINE from(i) == IF i < at THEN i ELSE i - 1
<1>5. ASSUME NEW i \in 1 .. n + 1, i # at
      PROVE  from(i) \in 1 .. n /\ r[i] = list[from(i)]
  <2>1. CASE i < at
    BY <1>2, <1>4, <2>1
  <2>2. CASE ~(i < at)
    <3>1. i \in at + 1 .. n + 1 /\ i - 1 \in 1 .. n
      BY <1>2, <1>5, <2>2
    <3> QED
      BY <1>4, <2>2, <3>1
  <2> QED
    BY <2>1, <2>2
<1>6. Mem(r) = Mem(list) \union {j}
  <2>1. \A i \in 1 .. n + 1 : r[i] \in Mem(list) \union {j}
    BY <1>4, <1>5 DEF Mem
  <2>2. ASSUME NEW i \in 1 .. n PROVE list[i] \in Mem(r)
    <3>1. CASE i < at
      <4>1. i \in 1 .. at - 1 /\ i \in 1 .. n + 1
        BY <1>2, <3>1
      <4> QED
        BY <1>4, <4>1 DEF Mem
    <3>2. CASE ~(i < at)
      <4>1. i + 1 \in at + 1 .. n + 1 /\ i + 1 \in 1 .. n + 1 /\ (i + 1) - 1 = i
        BY <1>2, <3>2
      <4> QED
        BY <1>4, <4>1 DEF Mem
    <3> QED
      BY <3>1, <3>2
  <2>3. j \in Mem(r)
    BY <1>2, <1>4 DEF Mem
  <2> QED
    BY <1>4, <2>1, <2>2, <2>3 DEF Mem
<1>7. ASSUME Once(list), j \notin Mem(list),
             NEW i \in 1 .. n + 1, NEW k \in 1 .. n + 1, r[i] = r[k]
      PROVE  i = k
  <2>1. \A m \in 1 .. n + 1 : m # at => r[m] # j
    BY <1>5, <1>7 DEF Mem
  <2>2. i # at /\ k # at => from(i) = from(k)
    BY <1>5, <1>7 DEF Once
  <2> QED
    BY <1>2, <1>4, <1>7, <2>1, <2>2
<1>8. ASSUME Sorted(list), NEW i \in 1 .. n + 1, NEW k \in 1 .. n + 1, i < k
      PROVE  Priority[r[i]] <= Priority[r[k]]
  <2>1. CASE i # at /\ k # at
    <3>1. from(i) < from(k)
      BY <1>2, <1>8, <2>1
    <3> QED
      BY <1>5, <1>8, <2>1, <3>1 DEF Sorted
  <2>2. CASE i = at
    <3>1. k \in at + 1 .. n + 1 /\ k - 1 \in at .. n
      BY <1>2, <1>8, <2>2
    <3> QED
      BY <1>1, <1>4, <1>8, <2>2, <3>1
  <2>3. CASE k = at
    <3>1. i \in 1 .. at - 1
      BY <1>2, <1>8, <2>3
    <3> QED
      BY <1>1, <1>4, <2>3, <3>1
  <2> QED
    BY <2>1, <2>2, <2>3
<1> QED
  BY <1>4, <1>6, <1>7, <1>8 DEF Once, Sorted, r

(* LOOP_ITEM.restart goes through the finished jobs, one insertion each.   *)
PutsBack(f, list, fin, n, T) ==
  /\ f \in [0 .. n -> T] /\ f[0] = list /\ f[n] = PutBack(list, fin)
  /\ \A i \in 1 .. n : f[i] = Inserted(f[i - 1], fin[n + 1 - i])

LEMMA PutBackRuns ==
  ASSUME NEW list, NEW fin, NEW n \in Nat, n = Len(fin), NEW T, list \in T,
         \A i \in 1 .. n : \A s \in T : Inserted(s, fin[n + 1 - i]) \in T
  PROVE  \E f : PutsBack(f, list, fin, n, T)
<1> DEFINE h == [i \in 1 .. n |-> [s \in T |-> Inserted(s, fin[n + 1 - i])]]
           K(k) == [i \in 0 .. n |-> IF i = 0 THEN list ELSE Inserted(k[i - 1], fin[n + 1 - i])]
           k0 == CHOOSE k : k = K(k)
<1>1. h \in [1 .. n -> [T -> T]]
  OBVIOUS
<1>2. PICK f \in [0 .. n -> T] : f[0] = list /\ \A i \in 1 .. n : f[i] = h[i][f[i - 1]]
  <2> HIDE DEF h, K, k0
  <2>1. StepsOf(h, n, T)
    BY <1>1 DEF StepsOf
  <2>2. \E f : Outcome(f, list, h, n, T)
    BY <2>1, RecursionUpTo
  <2> QED
    BY <2>2 DEF Outcome
<1>3. ASSUME NEW i \in 1 .. n PROVE i \in 0 .. n /\ i # 0 /\ i - 1 \in 0 .. n /\ f[i - 1] \in T
  <2>1. i \in 0 .. n /\ i # 0 /\ i - 1 \in 0 .. n
    BY <1>1
  <2> QED
    BY <1>2, <2>1
<1>4. f = K(f)
  <2>1. ASSUME NEW i \in 0 .. n, i # 0
        PROVE  f[i] = Inserted(f[i - 1], fin[n + 1 - i])
    <3>1. i \in 1 .. n
      BY <2>1
    <3> QED
      BY <1>2, <1>3, <3>1
  <2> QED
    BY <1>2, <2>1
<1>5. k0 = K(k0)
  <2> HIDE DEF K
  <2> QED
    BY <1>4
<1>6. PutBack(list, fin) = k0[n]
  BY DEF PutBack
<1> HIDE DEF k0, h
<1>7. \A i \in 0 .. n : k0[i] = IF i = 0 THEN list ELSE Inserted(k0[i - 1], fin[n + 1 - i])
  BY <1>5, Zenon
<1> HIDE DEF K
<1>8. 0 \in 0 .. n /\ n \in 0 .. n
  OBVIOUS
<1>9. k0[0] = list
  BY <1>7, <1>8, Zenon
<1>10. \A i \in 1 .. n : k0[i] = Inserted(k0[i - 1], fin[n + 1 - i])
  BY <1>3, <1>7, Zenon
<1>11. \A i \in 1 .. n : f[i] = Inserted(f[i - 1], fin[n + 1 - i])
  BY <1>2, <1>3 DEF h
<1>12. \A i \in 0 .. n : i \in {m \in 0 .. n : k0[m] = f[m]}
  <2> DEFINE G == {m \in 0 .. n : k0[m] = f[m]}
  <2>1. 0 \in G
    BY <1>2, <1>8, <1>9
  <2>2. \A i \in 1 .. n : i - 1 \in G => i \in G
    BY <1>3, <1>10, <1>11
  <2> HIDE DEF G
  <2>3. \A i \in 0 .. n : i \in G
    BY <2>1, <2>2, UpTo
  <2> QED
    BY <2>3 DEF G
<1> QED
  BY <1>2, <1>6, <1>8, <1>11, <1>12 DEF PutsBack

(* LOOP_ITEM.restart loses none of the jobs it puts back.                  *)
LEMMA PutBackFacts ==
  ASSUME NEW list \in Seq(Jobs), NEW fin \in Seq(Jobs)
  PROVE  /\ PutBack(list, fin) \in Seq(Jobs)
         /\ Mem(PutBack(list, fin)) = Mem(list) \union Mem(fin)
         /\ Once(list) /\ Once(fin) /\ Mem(list) \intersect Mem(fin) = {} => Once(PutBack(list, fin))
         /\ Sorted(list) => Sorted(PutBack(list, fin))
<1> DEFINE n == Len(fin)
           back(i) == {fin[m] : m \in n + 1 - i .. n}
<1>1. n \in Nat /\ \A i \in 1 .. n : n + 1 - i \in 1 .. n /\ fin[n + 1 - i] \in Jobs
  OBVIOUS
<1>2. PICK k0 \in [0 .. n -> Seq(Jobs)] :
        /\ k0[0] = list /\ k0[n] = PutBack(list, fin)
        /\ \A i \in 1 .. n : k0[i] = Inserted(k0[i - 1], fin[n + 1 - i])
  <2>1. \A i \in 1 .. n : \A s \in Seq(Jobs) : Inserted(s, fin[n + 1 - i]) \in Seq(Jobs)
    BY <1>1, InsertedFacts
  <2>2. \E f : PutsBack(f, list, fin, n, Seq(Jobs))
    BY <1>1, <2>1, PutBackRuns
  <2> QED
    BY <2>2 DEF PutsBack
<1>7. k0[0] = list /\ \A i \in 1 .. n : k0[i] = Inserted(k0[i - 1], fin[n + 1 - i])
  BY <1>2
<1>6. PutBack(list, fin) = k0[n]
  BY <1>2
<1> DEFINE apart == Once(list) /\ Once(fin) /\ Mem(list) \intersect Mem(fin) = {}
           G == {i \in 0 .. n : /\ k0[i] \in Seq(Jobs)
                                /\ Mem(k0[i]) = Mem(list) \union back(i)
                                /\ apart => Once(k0[i])
                                /\ Sorted(list) => Sorted(k0[i])}
<1>8. 0 \in G
  <2>1. back(0) = {}
    BY <1>1
  <2> HIDE DEF back, n
  <2> QED
    BY <1>1, <1>7, <2>1
<1>9. ASSUME NEW i \in 1 .. n, i - 1 \in G PROVE i \in G
  <2> DEFINE s == k0[i - 1]
             j == fin[n + 1 - i]
  <2>1. i \in 0 .. n /\ j \in Jobs
    BY <1>1
  <2>2. s \in Seq(Jobs) /\ Mem(s) = Mem(list) \union back(i - 1) /\ (apart => Once(s))
        /\ (Sorted(list) => Sorted(s))
    BY <1>9
  <2>3. back(i) = back(i - 1) \union {j}
    <3>1. \A m : m \in n + 1 - i .. n <=> m \in n + 1 - (i - 1) .. n \/ m = n + 1 - i
      BY <1>1
    <3> QED
      BY <3>1
  <2>4. apart => j \notin Mem(list) /\ j \notin back(i - 1)
    <3> SUFFICES ASSUME apart PROVE j \notin Mem(list) /\ j \notin back(i - 1)
      OBVIOUS
    <3>1. j \in Mem(fin)
      BY <1>1 DEF Mem
    <3>2. ASSUME NEW m \in n + 1 - (i - 1) .. n PROVE fin[m] # j
      <4>1. m \in 1 .. n /\ m # n + 1 - i /\ n + 1 - i \in 1 .. n
        BY <1>1
      <4> QED
        BY <4>1 DEF Once
    <3> QED
      BY <3>1, <3>2
  <2>5. k0[i] = Inserted(s, j)
    BY <1>7
  <2> HIDE DEF s, j, back, n, apart
  <2>6. k0[i] \in Seq(Jobs) /\ Mem(k0[i]) = Mem(s) \union {j}
        /\ (Once(s) /\ j \notin Mem(s) => Once(k0[i])) /\ (Sorted(s) => Sorted(k0[i]))
    BY <2>1, <2>2, <2>5, InsertedFacts
  <2>7. Mem(k0[i]) = Mem(list) \union back(i)
    BY <2>2, <2>3, <2>6
  <2>8. apart => Once(k0[i])
    BY <2>2, <2>4, <2>6
  <2> QED
    BY <2>1, <2>2, <2>6, <2>7, <2>8
<1>10. n \in G
  <2> HIDE DEF G
  <2>1. \A i \in 1 .. n : i - 1 \in G => i \in G
    BY <1>9
  <2>2. \A i \in 0 .. n : i \in G
    BY <1>1, <1>8, <2>1, UpTo
  <2> QED
    BY <1>1, <2>2
<1>11. back(n) = Mem(fin)
  <2>1. n + 1 - n = 1
    BY <1>1
  <2> QED
    BY <2>1 DEF Mem
<1> QED
  BY <1>6, <1>10, <1>11

-----------------------------------------------------------------------------
ItemRec == [pause : BOOLEAN, break : BOOLEAN, jobList : Seq(Jobs), finished : Seq(Jobs)]

(* What the variables hold.                                                *)
LoopTypes ==
  /\ loopStack \in Seq(Loops) /\ stop \in BOOLEAN /\ loops \in Loops
  /\ item \in [Loops -> ItemRec]
  /\ done \in [Jobs -> BOOLEAN] /\ running \in Loops \union {NoLoop}
  /\ readyJobs \in Seq(Jobs) /\ pc \in {"idle", "stack", "loop", "batch", "job"}
  /\ added \subseteq Jobs /\ ops \in Programs
  /\ broken \subseteq {"run", "continue", "void", "pause_loop", "restart"}

(* Where LOOP_ITEM.run is.                                                 *)
Place ==
  /\ pc \in {"loop", "batch", "job"} => running \in Loops
  /\ pc = "job" => readyJobs # <<>>

(* No list holds a job twice, and a job that waits is not a finished one.  *)
Lists ==
  \A l \in Loops : /\ Once(item[l].jobList) /\ Once(item[l].finished)
                    /\ Mem(item[l].jobList) \intersect Mem(item[l].finished) = {}
                    /\ Sorted(item[l].jobList)

Owned(l) == Mem(item[l].jobList) \union Mem(item[l].finished)

(* A job belongs to one loop.                                              *)
Owners ==
  /\ \A l, m \in Loops : l # m => Owned(l) \intersect Owned(m) = {}
  /\ \A l \in Loops : Owned(l) \subseteq added
  /\ "void" \notin broken => \A j \in added : \E l \in Loops : j \in Owned(l)

OneBatch == \A i, k \in 1 .. Len(readyJobs) : Priority[readyJobs[i]] = Priority[readyJobs[k]]

LoopInv == LoopTypes /\ Place /\ Lists /\ Owners /\ OneBatch

LEMMA LoopInit == ASSUME Init PROVE LoopInv
<1>1. 1 \in Loops /\ <<1>> \in Seq(Loops)
  BY LoopAssumption DEF Loops
<1>2. Made \in ItemRec /\ Made.jobList = <<>> /\ Made.finished = <<>>
  BY DEF Made, ItemRec
<1>3. item \in [Loops -> ItemRec]
      /\ \A l \in Loops : item[l].jobList = <<>> /\ item[l].finished = <<>>
  BY <1>2 DEF Init
<1>4. LoopTypes
  <2>1. loopStack \in Seq(Loops) /\ loops \in Loops
    BY <1>1 DEF Init
  <2>2. readyJobs \in Seq(Jobs) /\ done \in [Jobs -> BOOLEAN]
    BY DEF Init
  <2> QED
    BY <1>3, <2>1, <2>2 DEF Init, LoopTypes
<1>5. Mem(<<>>) = {} /\ Once(<<>>) /\ Sorted(<<>>)
  BY DEF Mem, Once, Sorted
<1>6. Lists
  BY <1>3, <1>5 DEF Lists
<1>7. Owners
  BY <1>3, <1>5 DEF Init, Owners, Owned
<1> QED
  BY <1>4, <1>6, <1>7 DEF Init, LoopInv, Place, OneBatch

(* The parts of the invariant that a step keeps which leaves every list as *)
(* it is.                                                                  *)
ListsStay ==
  /\ item' \in [Loops -> ItemRec]
  /\ \A l \in Loops : item'[l].jobList = item[l].jobList /\ item'[l].finished = item[l].finished
  /\ added' = added /\ broken \subseteq broken'

LEMMA StayFacts == ASSUME LoopInv, ListsStay PROVE Lists' /\ Owners'
<1>1. Lists'
  BY DEF LoopInv, Lists, ListsStay
<1>2. \A l \in Loops : Owned(l)' = Owned(l)
  BY DEF ListsStay, Owned
<1> QED
  BY <1>1, <1>2 DEF LoopInv, Owners, ListsStay

(* The steps that write the marks of a loop and not its lists.             *)
LEMMA Marked ==
  ASSUME NEW it \in [Loops -> ItemRec], NEW l \in Loops, NEW r \in ItemRec,
         r.jobList = it[l].jobList, r.finished = it[l].finished
  PROVE  /\ [it EXCEPT ![l] = r] \in [Loops -> ItemRec]
         /\ \A m \in Loops : /\ [it EXCEPT ![l] = r][m].jobList = it[m].jobList
                             /\ [it EXCEPT ![l] = r][m].finished = it[m].finished
OBVIOUS

LEMMA CurrentLoop ==
  ASSUME LoopTypes
  PROVE  /\ current_loop \in Loops \union {Void}
         /\ current_loop = Void <=> loopStack = <<>>
         /\ loopStack # <<>> => current_loop \in Loops /\ Front(loopStack) \in Seq(Loops)
<1>1. CASE loopStack = <<>>
  BY <1>1 DEF current_loop
<1>2. CASE loopStack # <<>>
  <2>1. Len(loopStack) \in Nat /\ Len(loopStack) # 0
    BY <1>2 DEF LoopTypes
  <2>2. loopStack[Len(loopStack)] \in Loops
    BY <2>1 DEF LoopTypes
  <2>3. current_loop \in Loops
    BY <1>2, <2>2 DEF current_loop, Last
  <2>4. Len(loopStack) - 1 \in 0 .. Len(loopStack)
    BY <2>1
  <2>5. Front(loopStack) \in Seq(Loops)
    BY <2>4, SubSeqProperties DEF Front, LoopTypes
  <2>6. current_loop # Void
    BY <2>3 DEF Loops, Void, NoLoop
  <2> QED
    BY <1>2, <2>3, <2>5, <2>6
<1> QED
  BY <1>1, <1>2

LEMMA PausedFacts ==
  ASSUME LoopTypes
  PROVE  /\ Paused \in [Loops -> ItemRec]
         /\ \A m \in Loops : Paused[m].jobList = item[m].jobList /\ Paused[m].finished = item[m].finished
<1>1. CASE loopStack = <<>>
  BY <1>1 DEF Paused, LoopTypes
<1>2. CASE loopStack # <<>>
  <2> DEFINE l == current_loop
             r == [item[l] EXCEPT !.pause = TRUE]
  <2>1. l \in Loops /\ item \in [Loops -> ItemRec]
    BY <1>2, CurrentLoop DEF LoopTypes
  <2>2. Paused = [item EXCEPT ![l] = r]
    BY <1>2 DEF Paused
  <2>3. r \in ItemRec /\ r.jobList = item[l].jobList /\ r.finished = item[l].finished
    BY <2>1 DEF ItemRec
  <2> HIDE DEF l, r
  <2> QED
    BY <2>1, <2>2, <2>3, Marked
<1> QED
  BY <1>1, <1>2
-----------------------------------------------------------------------------
Contracts == {"run", "continue", "void", "pause_loop", "restart"}

(* The steps that leave the loops alone.                                   *)
LEMMA QuietStep ==
  ASSUME LoopInv,
         \/ Run \/ RunEnds \/ Continue \/ BatchOver \/ Finish
         \/ \E j \in Jobs : FinishOther(j)
         \/ UNCHANGED vars
  PROVE  LoopInv'
<1>1. /\ item' = item /\ added' = added /\ readyJobs' = readyJobs /\ loopStack' = loopStack
      /\ loops' = loops /\ ops' = ops /\ running' = running
      /\ broken' \in {broken, broken \union {"continue"}}
  BY DEF Run, RunEnds, Continue, BatchOver, Finish, FinishOther, vars, Require
<1>2. done' \in [Jobs -> BOOLEAN]
  BY DEF LoopInv, LoopTypes, Run, RunEnds, Continue, BatchOver, Finish, FinishOther, vars
<1>3. /\ stop' \in BOOLEAN /\ pc' \in {"idle", "stack", "loop", "batch", "job"}
      /\ pc' \in {"loop", "batch", "job"} => pc \in {"loop", "batch", "job"}
      /\ pc' = "job" => readyJobs # <<>>
  BY DEF LoopInv, LoopTypes, Place, Run, RunEnds, Continue, BatchOver, Finish, FinishOther, vars
<1>4. ListsStay
  BY <1>1 DEF LoopInv, LoopTypes, ListsStay
<1>5. Lists' /\ Owners'
  BY <1>4, StayFacts
<1>6. LoopTypes'
  BY <1>1, <1>2, <1>3 DEF LoopInv, LoopTypes
<1> QED
  BY <1>1, <1>3, <1>5, <1>6 DEF LoopInv, Place, OneBatch

LEMMA StartLoopStep == ASSUME LoopInv, StartLoop PROVE LoopInv'
<1> DEFINE l == current_loop
           r == [item[l] EXCEPT !.pause = FALSE, !.break = FALSE]
<1>1. LoopTypes
  BY DEF LoopInv
<1>2. l \in Loops /\ item \in [Loops -> ItemRec]
  BY <1>1, CurrentLoop DEF StartLoop, LoopTypes
<1>3. item' = [item EXCEPT ![l] = r]
  BY <1>2 DEF StartLoop
<1>4. r \in ItemRec /\ r.jobList = item[l].jobList /\ r.finished = item[l].finished
  BY <1>2 DEF ItemRec
<1>5. /\ running' = l /\ pc' = "loop" /\ broken' \in {broken, broken \union {"run"}}
      /\ UNCHANGED <<loopStack, stop, loops, done, readyJobs, added, ops>>
  BY DEF StartLoop, Require
<1> HIDE DEF l, r
<1>6. ListsStay
  BY <1>2, <1>3, <1>4, <1>5, Marked DEF ListsStay
<1>7. Lists' /\ Owners'
  BY <1>6, StayFacts
<1>8. LoopTypes'
  BY <1>1, <1>2, <1>5, <1>6 DEF LoopTypes, ListsStay
<1> QED
  BY <1>2, <1>5, <1>7, <1>8 DEF LoopInv, Place, OneBatch

LEMMA LoopEndsStep == ASSUME LoopInv, LoopEnds PROVE LoopInv'
<1>1. LoopTypes
  BY DEF LoopInv
<1>2. loopStack' \in Seq(Loops)
  <2>1. CASE current_loop # Void
    BY <1>1, <2>1, CurrentLoop DEF LoopEnds, LoopTypes
  <2>2. CASE current_loop = Void
    BY <1>1, <2>2 DEF LoopEnds, LoopTypes
  <2> QED
    BY <2>1, <2>2
<1>3. /\ running' = NoLoop /\ pc' = "stack"
      /\ UNCHANGED <<stop, item, loops, done, readyJobs, added, broken, ops>>
  BY DEF LoopEnds
<1>4. ListsStay
  BY <1>1, <1>3 DEF LoopTypes, ListsStay
<1>5. Lists' /\ Owners'
  BY <1>4, StayFacts
<1>6. LoopTypes'
  BY <1>1, <1>2, <1>3 DEF LoopTypes
<1> QED
  BY <1>3, <1>5, <1>6 DEF LoopInv, Place, OneBatch

LEMMA ReturnsStep == ASSUME LoopInv, ContinueReturns PROVE LoopInv'
<1>1. LoopTypes /\ readyJobs # <<>>
  BY DEF LoopInv, Place, ContinueReturns
<1>2. /\ readyJobs' = Front(readyJobs) /\ pc' = "batch" /\ pc = "job"
      /\ UNCHANGED <<loopStack, stop, item, loops, done, running, added, broken, ops>>
  BY DEF ContinueReturns
<1>3. /\ readyJobs' \in Seq(Jobs) /\ Len(readyJobs') = Len(readyJobs) - 1 /\ Len(readyJobs) \in Nat
      /\ \A i \in 1 .. Len(readyJobs) - 1 : readyJobs'[i] = readyJobs[i]
  <2>1. readyJobs \in Seq(Jobs)
    BY <1>1 DEF LoopTypes
  <2>2. /\ Front(readyJobs) \in Seq(Jobs) /\ Len(readyJobs) \in Nat \ {0}
        /\ Len(Front(readyJobs)) = Len(readyJobs) - 1
        /\ \A i \in 1 .. Len(readyJobs) - 1 : Front(readyJobs)[i] = readyJobs[i]
    BY <1>1, <2>1, FrontList
  <2> QED
    BY <1>2, <2>2
<1>4. ListsStay
  BY <1>1, <1>2 DEF LoopTypes, ListsStay
<1>5. Lists' /\ Owners'
  BY <1>4, StayFacts
<1>6. LoopTypes'
  BY <1>1, <1>2, <1>3 DEF LoopTypes
<1>7. Place'
  BY <1>2 DEF LoopInv, Place
<1>8. OneBatch'
  <2>1. ASSUME NEW i \in 1 .. Len(readyJobs'), NEW k \in 1 .. Len(readyJobs')
        PROVE  Priority[readyJobs'[i]] = Priority[readyJobs'[k]]
    <3>1. /\ i \in 1 .. Len(readyJobs) /\ k \in 1 .. Len(readyJobs)
          /\ readyJobs'[i] = readyJobs[i] /\ readyJobs'[k] = readyJobs[k]
      BY <1>3
    <3> QED
      BY <3>1 DEF LoopInv, OneBatch
  <2> QED
    BY <2>1 DEF OneBatch
<1> QED
  BY <1>5, <1>6, <1>7, <1>8 DEF LoopInv

(* The steps that only pause or break the current loop.                    *)
LEMMA PausingStep ==
  ASSUME LoopInv, NewLoop \/ ExitAll PROVE LoopInv'
<1>1. LoopTypes
  BY DEF LoopInv
<1>2. /\ item' = Paused /\ added' = added /\ readyJobs' = readyJobs /\ pc' = pc
      /\ running' = running /\ done' = done /\ ops' = ops
      /\ broken \subseteq broken' /\ broken' \subseteq broken \union {"pause_loop", "void"}
  BY DEF NewLoop, ExitAll, PauseRequire, Require
<1>3. ListsStay
  BY <1>1, <1>2, PausedFacts DEF ListsStay
<1>4. Lists' /\ Owners'
  BY <1>3, StayFacts
<1>5. loopStack' \in Seq(Loops) /\ loops' \in Loops /\ stop' \in BOOLEAN
  <2>1. CASE NewLoop
    <3>1. loops + 1 \in Loops
      BY <1>1, <2>1, LoopAssumption DEF NewLoop, LoopTypes, Loops
    <3>2. Append(loopStack, loops + 1) \in Seq(Loops)
      BY <1>1, <3>1, AppendProperties DEF LoopTypes
    <3> QED
      BY <1>1, <2>1, <3>1, <3>2 DEF NewLoop, LoopTypes
  <2>2. CASE ExitAll
    BY <1>1, <2>2 DEF ExitAll, LoopTypes
  <2> QED
    BY <2>1, <2>2
<1>6. LoopTypes'
  BY <1>1, <1>2, <1>3, <1>5 DEF LoopTypes, ListsStay
<1> QED
  BY <1>2, <1>4, <1>6 DEF LoopInv, Place, OneBatch

LEMMA BreakStep == ASSUME LoopInv, Break PROVE LoopInv'
<1>1. LoopTypes
  BY DEF LoopInv
<1>2. /\ added' = added /\ readyJobs' = readyJobs /\ pc' = pc
      /\ UNCHANGED <<stop, loops, running, done, ops>>
      /\ broken' \in {broken, broken \union {"void"}}
  BY DEF Break
<1>3. ListsStay /\ loopStack' \in Seq(Loops)
  <2>1. CASE current_loop = Void
    BY <1>1, <1>2, <2>1 DEF Break, ListsStay, LoopTypes
  <2>2. CASE current_loop # Void
    <3> DEFINE l == current_loop
               r == [item[l] EXCEPT !.break = TRUE]
    <3>1. l \in Loops /\ item \in [Loops -> ItemRec] /\ Front(loopStack) \in Seq(Loops)
      BY <1>1, <2>2, CurrentLoop DEF LoopTypes
    <3>2. item' = [item EXCEPT ![l] = r]
      BY <2>2, <3>1 DEF Break
    <3>3. r \in ItemRec /\ r.jobList = item[l].jobList /\ r.finished = item[l].finished
      BY <3>1 DEF ItemRec
    <3>4. loopStack' = Front(loopStack)
      BY <2>2 DEF Break
    <3> HIDE DEF l, r
    <3>5. ListsStay
      BY <1>2, <3>1, <3>2, <3>3, Marked DEF ListsStay
    <3> QED
      BY <3>1, <3>4, <3>5
  <2> QED
    BY <2>1, <2>2
<1>4. Lists' /\ Owners'
  BY <1>3, StayFacts
<1>5. LoopTypes'
  BY <1>1, <1>2, <1>3 DEF LoopTypes, ListsStay
<1> QED
  BY <1>2, <1>4, <1>5 DEF LoopInv, Place, OneBatch

(* The steps that write the lists of one loop: it keeps its jobs, and gets *)
(* only jobs that no loop had.                                             *)
LEMMA OneLoopChanges ==
  ASSUME LoopInv, NEW l \in Loops, NEW more \in SUBSET Jobs,
         \A m \in Loops : m # l => /\ item'[m].jobList = item[m].jobList
                                  /\ item'[m].finished = item[m].finished,
         Once(item'[l].jobList), Once(item'[l].finished), Sorted(item'[l].jobList),
         Mem(item'[l].jobList) \intersect Mem(item'[l].finished) = {},
         Owned(l)' = Owned(l) \union more, more \intersect added = {},
         added' = added \union more, broken \subseteq broken'
  PROVE  Lists' /\ Owners'
<1>1. Lists'
  BY DEF LoopInv, Lists
<1>2. \A m \in Loops : m # l => Owned(m)' = Owned(m)
  BY DEF Owned
<1>3. Owners
  BY DEF LoopInv
<1>4. \A m, k \in Loops : m # k => Owned(m)' \intersect Owned(k)' = {}
  BY <1>2, <1>3 DEF Owners
<1>5. \A m \in Loops : Owned(m)' \subseteq added'
  BY <1>2, <1>3 DEF Owners
<1>6. "void" \notin broken' => \A j \in added' : \E m \in Loops : j \in Owned(m)'
  BY <1>2, <1>3 DEF Owners
<1>7. Owners'
  BY <1>4, <1>5, <1>6 DEF Owners
<1> QED
  BY <1>1, <1>7

LEMMA OneChanged ==
  ASSUME NEW it \in [Loops -> ItemRec], NEW l \in Loops, NEW r \in ItemRec
  PROVE  /\ [it EXCEPT ![l] = r] \in [Loops -> ItemRec]
         /\ [it EXCEPT ![l] = r][l] = r
         /\ \A m \in Loops : m # l => /\ [it EXCEPT ![l] = r][m].jobList = it[m].jobList
                                      /\ [it EXCEPT ![l] = r][m].finished = it[m].finished
OBVIOUS

(* The selection of the ready jobs: they have one priority.                *)
LEMMA SelectedFacts ==
  ASSUME NEW list \in Seq(Jobs), NEW ready
  PROVE  /\ Selected(list, ready) \in Seq(Jobs)
         /\ \A i, k \in 1 .. Len(Selected(list, ready)) :
              Priority[Selected(list, ready)[i]] = Priority[Selected(list, ready)[k]]
<1> DEFINE isReady == Kept(list, ready)
           S == {j \in Jobs : Priority[j] = Priority[isReady[1]]}
           t == Kept(isReady, S)
<1>1. isReady \in Seq(Jobs)
  BY KeptJobs
<1>2. Selected(list, ready) = t
  BY DEF Selected
<1> HIDE DEF isReady
<1>3. t \in Seq(Jobs) /\ Mem(t) = {j \in Mem(isReady) : j \in S}
  <2> HIDE DEF S
  <2> QED
    BY <1>1, KeptJobs
<1>4. \A i \in 1 .. Len(t) : t[i] \in S
  BY <1>3 DEF Mem
<1> HIDE DEF t
<1> QED
  BY <1>2, <1>3, <1>4

LEMMA SelectStep == ASSUME LoopInv, Select PROVE LoopInv'
<1>1. LoopTypes /\ Lists /\ Owners
  BY DEF LoopInv
<1>2. PICK l \in Loops : l = running
  BY DEF LoopInv, Place, Select
<1>3. PICK old \in ItemRec : old = item[l]
  BY <1>1 DEF LoopTypes
<1>4. PICK list : list = Stay(old.jobList)
  OBVIOUS
<1>5. PICK over : over = Over(old.jobList)
  OBVIOUS
<1>6. PICK fin : fin = old.finished \o over
  OBVIOUS
<1> DEFINE r == [old EXCEPT !.jobList = list, !.finished = fin]
<1>7. item \in [Loops -> ItemRec] /\ item' = [item EXCEPT ![l] = r]
  <2>1. item' = [item EXCEPT ![l] = [item[l] EXCEPT !.jobList = Stay(item[l].jobList),
                                                    !.finished = item[l].finished \o Over(item[l].jobList)]]
    BY <1>1, <1>2 DEF Select, LoopTypes
  <2> QED
    BY <1>1, <1>3, <1>4, <1>5, <1>6, <2>1 DEF LoopTypes
<1>8. /\ old.jobList \in Seq(Jobs) /\ old.finished \in Seq(Jobs)
      /\ Once(old.jobList) /\ Once(old.finished) /\ Sorted(old.jobList)
      /\ Mem(old.jobList) \intersect Mem(old.finished) = {}
  BY <1>1, <1>3 DEF Lists, ItemRec
<1>9. /\ list \in Seq(Jobs) /\ Once(list) /\ Sorted(list)
      /\ Mem(list) = {j \in Mem(old.jobList) : j \in {i \in Jobs : ~done[i]}}
  <2> DEFINE S == {i \in Jobs : ~done[i]}
  <2> HIDE DEF S
  <2>1. list = Kept(old.jobList, S)
    BY <1>4 DEF Stay, S
  <2>2. list \in Seq(Jobs) /\ Once(list) /\ Sorted(list) /\ Mem(list) = {j \in Mem(old.jobList) : j \in S}
    BY <1>8, <2>1, KeptJobs
  <2> QED
    BY <2>2 DEF S
<1>10. /\ over \in Seq(Jobs) /\ Once(over)
       /\ Mem(over) = {j \in Mem(old.jobList) : j \in {i \in Jobs : done[i]}}
  <2> DEFINE S == {i \in Jobs : done[i]}
  <2> HIDE DEF S
  <2>1. over = Kept(old.jobList, S)
    BY <1>5 DEF Over, S
  <2>2. over \in Seq(Jobs) /\ Once(over) /\ Mem(over) = {j \in Mem(old.jobList) : j \in S}
    BY <1>8, <2>1, KeptJobs
  <2> QED
    BY <2>2 DEF S
<1>11. Mem(old.jobList) \subseteq Jobs
  BY <1>8 DEF Mem
<1>12. /\ fin \in Seq(Jobs) /\ Once(fin) /\ Mem(fin) = Mem(old.finished) \union Mem(over)
  <2>1. Mem(old.finished) \intersect Mem(over) = {}
    BY <1>8, <1>10
  <2> QED
    BY <1>6, <1>8, <1>10, <2>1, JoinedFacts
<1>13. Mem(list) \intersect Mem(fin) = {}
       /\ Mem(list) \union Mem(fin) = Mem(old.jobList) \union Mem(old.finished)
  BY <1>8, <1>9, <1>10, <1>11, <1>12
<1>14. r \in ItemRec /\ r.jobList = list /\ r.finished = fin
  BY <1>9, <1>12 DEF ItemRec
<1> HIDE DEF r
<1>15. /\ item' \in [Loops -> ItemRec] /\ item'[l] = r
       /\ \A m \in Loops : m # l => /\ item'[m].jobList = item[m].jobList
                                     /\ item'[m].finished = item[m].finished
  BY <1>7, <1>14, OneChanged
<1>16. Owned(l)' = Owned(l) \union {}
  BY <1>3, <1>13, <1>14, <1>15 DEF Owned
<1>17. /\ added' = added \union {} /\ broken \subseteq broken'
       /\ UNCHANGED <<loopStack, stop, loops, done, running, added, broken, ops>>
  BY DEF Select
<1>18. Lists' /\ Owners'
  BY <1>9, <1>12, <1>13, <1>14, <1>15, <1>16, <1>17, OneLoopChanges
<1>19. readyJobs' \in Seq(Jobs) /\ OneBatch' /\ pc' \in {"loop", "batch"}
  <2>1. list = Stay(item[running].jobList)
    BY <1>2, <1>3, <1>4
  <2>2. CASE list = <<>>
    <3>1. pc' = "loop" /\ readyJobs' = readyJobs
      BY <2>1, <2>2 DEF Select
    <3> QED
      BY <1>1, <3>1 DEF LoopInv, LoopTypes, OneBatch
  <2>3. CASE list # <<>>
    <3>1. PICK ready : readyJobs' = Selected(list, ready) /\ pc' = "batch"
      BY <2>1, <2>3 DEF Select
    <3> QED
      BY <1>9, <3>1, SelectedFacts DEF OneBatch
  <2> QED
    BY <2>2, <2>3
<1>20. LoopTypes'
  BY <1>1, <1>15, <1>17, <1>19 DEF LoopTypes
<1>21. Place'
  BY <1>2, <1>17, <1>19 DEF Place
<1> QED
  BY <1>18, <1>19, <1>20, <1>21 DEF LoopInv

LEMMA AddJobStep == ASSUME LoopInv, NEW j \in Jobs, AddJob(j) PROVE LoopInv'
<1>1. LoopTypes /\ Lists /\ Owners
  BY DEF LoopInv
<1>2. /\ j \notin added /\ added' = added \union {j}
      /\ UNCHANGED <<loopStack, stop, loops, done, running, readyJobs, pc, ops>>
  BY DEF AddJob
<1>3. CASE current_loop = Void
  <2>1. item' = item /\ broken' = broken \union {"void"}
    BY <1>3 DEF AddJob
  <2>2. Lists' /\ Owners'
    BY <1>1, <1>2, <2>1 DEF Lists, Owners, Owned
  <2>3. LoopTypes'
    BY <1>1, <1>2, <2>1 DEF LoopTypes
  <2> QED
    BY <1>2, <2>2, <2>3 DEF LoopInv, Place, OneBatch
<1>4. CASE current_loop # Void
  <2>1. PICK l \in Loops : l = current_loop
    BY <1>1, <1>4, CurrentLoop
  <2>2. PICK old \in ItemRec : old = item[l]
    BY <1>1 DEF LoopTypes
  <2>3. PICK list : list = Inserted(old.jobList, j)
    OBVIOUS
  <2> DEFINE r == [old EXCEPT !.jobList = list]
  <2>4. /\ item \in [Loops -> ItemRec] /\ item' = [item EXCEPT ![l] = r] /\ broken' = broken
    <3>1. item' = [item EXCEPT ![l] = [item[l] EXCEPT !.jobList = Inserted(item[l].jobList, j)]]
      BY <1>1, <1>4, <2>1 DEF AddJob, LoopTypes
    <3>2. broken' = broken
      BY <1>4 DEF AddJob
    <3> QED
      BY <1>1, <2>2, <2>3, <3>1, <3>2 DEF LoopTypes
  <2>5. /\ old.jobList \in Seq(Jobs) /\ old.finished \in Seq(Jobs)
        /\ Once(old.jobList) /\ Once(old.finished) /\ Sorted(old.jobList)
        /\ Mem(old.jobList) \intersect Mem(old.finished) = {}
    BY <1>1, <2>2 DEF Lists, ItemRec
  <2>6. j \notin Mem(old.jobList) /\ j \notin Mem(old.finished)
    BY <1>1, <1>2, <2>2 DEF Owners, Owned
  <2>7. /\ list \in Seq(Jobs) /\ Once(list) /\ Sorted(list) /\ Mem(list) = Mem(old.jobList) \union {j}
    BY <2>3, <2>5, <2>6, InsertedFacts
  <2>8. r \in ItemRec /\ r.jobList = list /\ r.finished = old.finished
    BY <2>5, <2>7 DEF ItemRec
  <2> HIDE DEF r
  <2>9. /\ item' \in [Loops -> ItemRec] /\ item'[l] = r
        /\ \A m \in Loops : m # l => /\ item'[m].jobList = item[m].jobList
                                      /\ item'[m].finished = item[m].finished
    BY <2>4, <2>8, OneChanged
  <2>10. Owned(l)' = Owned(l) \union {j}
    BY <2>2, <2>7, <2>8, <2>9 DEF Owned
  <2>11. {j} \intersect added = {} /\ broken \subseteq broken'
         /\ Mem(list) \intersect Mem(old.finished) = {}
    BY <1>2, <2>4, <2>5, <2>6, <2>7
  <2>12. Lists' /\ Owners'
    BY <1>2, <2>5, <2>7, <2>8, <2>9, <2>10, <2>11, OneLoopChanges
  <2>13. LoopTypes'
    BY <1>1, <1>2, <2>4, <2>9 DEF LoopTypes
  <2> QED
    BY <1>2, <2>12, <2>13 DEF LoopInv, Place, OneBatch
<1> QED
  BY <1>3, <1>4

LEMMA PushLoopStep == ASSUME LoopInv, NEW l \in Loops, PushLoop(l) PROVE LoopInv'
<1>1. LoopTypes /\ Lists /\ Owners
  BY DEF LoopInv
<1>2. /\ added' = added /\ pc' = pc
      /\ UNCHANGED <<stop, loops, running, readyJobs, ops>>
      /\ broken \subseteq broken' /\ broken' \subseteq broken \union {"pause_loop", "restart"}
      /\ done' \in [Jobs -> BOOLEAN] /\ loopStack' = Append(loopStack, l)
      /\ item' = [Paused EXCEPT ![l] = Restarted(l)]
  BY DEF PushLoop, PauseRequire, Require
<1>3. loopStack' \in Seq(Loops)
  BY <1>1, <1>2, AppendProperties DEF LoopTypes
<1>4. PICK old \in ItemRec : old = item[l]
  BY <1>1 DEF LoopTypes
<1>5. Paused \in [Loops -> ItemRec] /\ Paused[l].jobList = old.jobList /\ Paused[l].finished = old.finished
      /\ \A m \in Loops : Paused[m].jobList = item[m].jobList /\ Paused[m].finished = item[m].finished
  BY <1>1, <1>4, PausedFacts
<1>6. PICK list : list = PutBack(old.jobList, old.finished)
  OBVIOUS
<1>7. PICK r : r = [pause |-> TRUE, break |-> FALSE, finished |-> <<>>, jobList |-> list]
  OBVIOUS
<1>8. Restarted(l) = r
  BY <1>5, <1>6, <1>7 DEF Restarted, BackInList
<1>9. /\ old.jobList \in Seq(Jobs) /\ old.finished \in Seq(Jobs)
      /\ Once(old.jobList) /\ Once(old.finished) /\ Sorted(old.jobList)
      /\ Mem(old.jobList) \intersect Mem(old.finished) = {}
  BY <1>1, <1>4 DEF Lists, ItemRec
<1>10. /\ list \in Seq(Jobs) /\ Once(list) /\ Sorted(list)
       /\ Mem(list) = Mem(old.jobList) \union Mem(old.finished)
  BY <1>6, <1>9, PutBackFacts
<1>11. r \in ItemRec /\ r.jobList = list /\ r.finished = <<>>
  BY <1>7, <1>10 DEF ItemRec
<1>12. Mem(<<>>) = {} /\ Once(<<>>)
  BY DEF Mem, Once
<1>13. item' = [Paused EXCEPT ![l] = r]
  BY <1>2, <1>8
<1>14. /\ item' \in [Loops -> ItemRec] /\ item'[l] = r
       /\ \A m \in Loops : m # l => /\ item'[m].jobList = item[m].jobList
                                     /\ item'[m].finished = item[m].finished
  <2>1. /\ item' \in [Loops -> ItemRec] /\ item'[l] = r
        /\ \A m \in Loops : m # l => /\ item'[m].jobList = Paused[m].jobList
                                      /\ item'[m].finished = Paused[m].finished
    BY <1>5, <1>11, <1>13, OneChanged
  <2> QED
    BY <1>5, <2>1
<1>15. Owned(l)' = Owned(l) \union {}
  BY <1>4, <1>10, <1>11, <1>12, <1>14 DEF Owned
<1>16. Lists' /\ Owners'
  <2>1. added' = added \union {} /\ {} \intersect added = {} /\ {} \in SUBSET Jobs
        /\ Mem(item'[l].jobList) \intersect Mem(item'[l].finished) = {}
    BY <1>2, <1>11, <1>12, <1>14
  <2> QED
    BY <1>2, <1>10, <1>11, <1>12, <1>14, <1>15, <2>1, OneLoopChanges
<1>17. LoopTypes'
  BY <1>1, <1>2, <1>3, <1>14 DEF LoopTypes
<1> QED
  BY <1>2, <1>16, <1>17 DEF LoopInv, Place, OneBatch

LEMMA LoopNext == ASSUME LoopInv, [Next]_vars PROVE LoopInv'
<1>1. CASE Run \/ RunEnds \/ Continue \/ BatchOver \/ Finish \/ UNCHANGED vars
  BY <1>1, QuietStep
<1>2. ASSUME NEW j \in Jobs, FinishOther(j) PROVE LoopInv'
  BY <1>2, QuietStep
<1>3. CASE StartLoop
  BY <1>3, StartLoopStep
<1>4. CASE LoopEnds
  BY <1>4, LoopEndsStep
<1>5. CASE Select
  BY <1>5, SelectStep
<1>6. CASE ContinueReturns
  BY <1>6, ReturnsStep
<1>7. CASE NewLoop \/ ExitAll
  BY <1>7, PausingStep
<1>8. CASE Break
  BY <1>8, BreakStep
<1>9. ASSUME NEW j \in Jobs, AddJob(j) PROVE LoopInv'
  BY <1>9, AddJobStep
<1>10. ASSUME NEW l \in Loops, PushLoop(l) PROVE LoopInv'
  BY <1>10, PushLoopStep
<1> QED
  BY <1>1, <1>2, <1>3, <1>4, <1>5, <1>6, <1>7, <1>8, <1>9, <1>10 DEF Next, Sequence, Call

(* The loops never lose a job, hold none twice, and stay sorted.           *)
THEOREM LoopInvariance == Spec => []LoopInv
<1>1. Init => LoopInv
  BY LoopInit
<1>2. LoopInv /\ [Next]_vars => LoopInv'
  BY LoopNext
<1> QED
  BY <1>1, <1>2, PTL DEF Spec

(* A list without doubles is not longer than there are jobs.               *)
LEMMA ShortList ==
  ASSUME NEW s \in Seq(Jobs), Once(s) PROVE Len(s) <= Cardinality(Jobs)
<1>1. Len(s) \in Nat /\ IsFiniteSet(Jobs) /\ Cardinality(Jobs) \in Nat
  BY LoopAssumption, FS_CardinalityType
<1>2. IsFiniteSet(1 .. Len(s)) /\ Cardinality(1 .. Len(s)) = Len(s)
  <2> DEFINE n == Len(s)
             one == 1
  <2>1. n \in Nat /\ one \in Int /\ n \in Int /\ one = 1
    BY <1>1
  <2> HIDE DEF n, one
  <2>2. IsFiniteSet(one .. n) /\ Cardinality(one .. n) = IF one > n THEN 0 ELSE n - one + 1
    BY <2>1, FS_Interval
  <2>3. IsFiniteSet(1 .. n) /\ Cardinality(1 .. n) = n
    BY <2>1, <2>2
  <2> QED
    BY <2>3 DEF n
<1>3. s \in [1 .. Len(s) -> Jobs]
  OBVIOUS
<1>4. s \in Injection(1 .. Len(s), Jobs)
  BY <1>3 DEF Injection, IsInjective, Once
<1>5. Cardinality(1 .. Len(s)) <= Cardinality(Jobs)
  BY <1>1, <1>4, FS_Injection
<1> QED
  BY <1>2, <1>5

(* Where a job is, in the lists of a loop put one after the other.         *)
LEMMA OnePlace ==
  ASSUME LoopInv, NEW l \in Loops
  PROVE  LET all == item[l].jobList \o item[l].finished IN
         /\ all \in Seq(Jobs) /\ Once(all) /\ Mem(all) = Owned(l)
         /\ Len(all) <= 2 * Cardinality(Jobs)
<1> DEFINE x == item[l].jobList
           y == item[l].finished
           all == x \o y
<1>1. x \in Seq(Jobs) /\ y \in Seq(Jobs)
  BY DEF LoopInv, LoopTypes, ItemRec
<1>2. Once(x) /\ Once(y) /\ Mem(x) \intersect Mem(y) = {}
  BY DEF LoopInv, Lists
<1>3. Owned(l) = Mem(x) \union Mem(y)
  BY DEF Owned
<1> HIDE DEF x, y
<1>4. all \in Seq(Jobs) /\ Once(all) /\ Mem(all) = Mem(x) \union Mem(y)
  BY <1>1, <1>2, JoinedFacts
<1>5. Len(all) = Len(x) + Len(y) /\ Len(x) \in Nat /\ Len(y) \in Nat
  BY <1>1, JoinedAt
<1>6. Len(x) <= Cardinality(Jobs) /\ Len(y) <= Cardinality(Jobs)
  BY <1>1, <1>2, ShortList
<1>7. Cardinality(Jobs) \in Nat
  BY LoopAssumption, FS_CardinalityType
<1>8. Len(all) <= 2 * Cardinality(Jobs)
  BY <1>5, <1>6, <1>7
<1> QED
  BY <1>3, <1>4, <1>8 DEF x, y

(* Every job that was added is in one loop, once, till that loop is broken *)
(* or ends: LOOP_ITEM.run, restart and LOOP_STACK.add_job lose none.       *)
THEOREM JobsKept == Spec => []EveryJobOnce
<1>1. LoopInv => EveryJobOnce
  <2> SUFFICES ASSUME LoopInv, NEW j \in added, "void" \notin broken
               PROVE  Cardinality({place \in Loops \X (1 .. 2 * Cardinality(Jobs)) :
                        LET l == place[1]
                            all == item[l].jobList \o item[l].finished
                        IN  place[2] <= Len(all) /\ all[place[2]] = j}) = 1
    BY DEF EveryJobOnce
  <2> DEFINE all(l) == item[l].jobList \o item[l].finished
             n == 2 * Cardinality(Jobs)
             places == {place \in Loops \X (1 .. n) :
                          place[2] <= Len(all(place[1])) /\ all(place[1])[place[2]] = j}
  <2>1. \A l \in Loops : /\ all(l) \in Seq(Jobs) /\ Once(all(l)) /\ Mem(all(l)) = Owned(l)
                         /\ Len(all(l)) <= n
    BY OnePlace
  <2>2. PICK l \in Loops : j \in Owned(l)
    BY DEF LoopInv, Owners
  <2>3. n \in Nat
    BY LoopAssumption, FS_CardinalityType
  <2> HIDE DEF all, n
  <2>4. PICK i \in 1 .. Len(all(l)) : all(l)[i] = j
    BY <2>1, <2>2 DEF Mem
  <2>5. Len(all(l)) \in Nat /\ i \in 1 .. n /\ i <= Len(all(l))
    BY <2>1, <2>3, <2>4
  <2>6. <<l, i>> \in places
    BY <2>4, <2>5
  <2>7. ASSUME NEW place \in places PROVE place = <<l, i>>
    <3>1. place[1] \in Loops /\ place[2] \in 1 .. n /\ place = <<place[1], place[2]>>
          /\ place[2] <= Len(all(place[1])) /\ all(place[1])[place[2]] = j
      OBVIOUS
    <3>2. Len(all(place[1])) \in Nat /\ place[2] \in 1 .. Len(all(place[1]))
      BY <2>1, <2>3, <3>1
    <3>3. j \in Owned(place[1])
      BY <2>1, <3>1, <3>2 DEF Mem
    <3>4. place[1] = l
      BY <2>2, <3>1, <3>3 DEF LoopInv, Owners
    <3>5. place[2] = i
      BY <2>1, <2>4, <3>1, <3>2, <3>4 DEF Once
    <3> QED
      BY <3>1, <3>4, <3>5
  <2>8. places = {<<l, i>>}
    <3> HIDE DEF places
    <3> QED
      BY <2>6, <2>7
  <2> HIDE DEF places
  <2>9. Cardinality(places) = 1
    BY <2>8, FS_Singleton
  <2> QED
    BY <2>9 DEF places, all, n
<1> QED
  BY <1>1, LoopInvariance, PTL

(* The jobs of one batch have one priority, and the lists they are taken   *)
(* from are sorted by it (LOOP_ITEM.run, LOOP_ITEM.add_job).               *)
THEOREM OnePriority == Spec => []BatchOfOnePriority
<1>1. LoopInv => BatchOfOnePriority
  <2> SUFFICES ASSUME LoopInv PROVE BatchOfOnePriority
    OBVIOUS
  <2>1. DOMAIN readyJobs = 1 .. Len(readyJobs)
    BY DEF LoopInv, LoopTypes
  <2>2. \A l \in Loops : DOMAIN item[l].jobList = 1 .. Len(item[l].jobList)
    <3>1. ASSUME NEW l \in Loops PROVE item[l].jobList \in Seq(Jobs)
      BY DEF LoopInv, LoopTypes, ItemRec
    <3> QED
      BY <3>1
  <2>3. OneBatch /\ \A l \in Loops : Sorted(item[l].jobList)
    BY DEF LoopInv, Lists
  <2> QED
    BY <2>1, <2>2, <2>3 DEF BatchOfOnePriority, OneBatch, Sorted
<1> QED
  BY <1>1, LoopInvariance, PTL

(* The variables of LOOP_STACK, of its LOOP_ITEMs and of the run.          *)
THEOREM LoopTypeSafety == Spec => []TypeOK
<1>1. LoopInv => TypeOK
  <2> SUFFICES ASSUME LoopInv PROVE TypeOK
    OBVIOUS
  <2>1. ASSUME NEW l \in Loops
        PROVE  /\ item[l].pause \in BOOLEAN /\ item[l].break \in BOOLEAN
               /\ item[l].jobList \in Seq(Jobs) /\ item[l].finished \in Seq(Jobs)
    BY DEF LoopInv, LoopTypes, ItemRec
  <2>2. ASSUME NEW l \in Loops
        PROVE  IsInjective(item[l].jobList) /\ IsInjective(item[l].finished)
    <3>1. /\ DOMAIN item[l].jobList = 1 .. Len(item[l].jobList)
          /\ DOMAIN item[l].finished = 1 .. Len(item[l].finished)
      BY <2>1
    <3>2. Once(item[l].jobList) /\ Once(item[l].finished)
      BY DEF LoopInv, Lists
    <3> QED
      BY <3>1, <3>2 DEF IsInjective, Once
  <2> QED
    BY <2>1, <2>2 DEF LoopInv, LoopTypes, TypeOK
<1> QED
  BY <1>1, LoopInvariance, PTL
=============================================================================
