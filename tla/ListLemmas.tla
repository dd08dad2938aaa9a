----------------------------- MODULE ListLemmas -----------------------------
(***************************************************************************)
(* Lemmas about numbers and lists that the proofs of several components    *)
(* need: least numbers, loops that count up to a number, sets of indices,  *)
(* what the lists that Cons, InsertAt and RemoveAt build hold, what is     *)
(* left of a list when some of its members are dropped, and lists in an    *)
(* order.                                                                  *)
(***************************************************************************)
EXTENDS Naturals, Sequences, FiniteSets, SequencesExt, FiniteSetTheorems, SequenceTheorems, WellFoundedInduction, TLAPS

LEMMA Halving ==
  ASSUME NEW lo \in Nat, NEW hi \in Nat, lo < hi
  PROVE  LET mid == (lo + hi) \div 2 IN mid \in Nat /\ lo <= mid /\ mid < hi
OBVIOUS

(* A set of indices that has all those before each of its own.             *)
LEMMA DownClosed ==
  ASSUME NEW m \in Nat, NEW S \in SUBSET (1 .. m), \A i \in S : 1 .. i \subseteq S
  PROVE  Cardinality(S) \in 0 .. m /\ (Cardinality(S) # 0 => Cardinality(S) \in S)
<1> DEFINE n == Cardinality(S)
<1>1. IsFiniteSet(1 .. m) /\ Cardinality(1 .. m) = m
  BY FS_Interval
<1> HIDE DEF n
<1>a. \A T : IsFiniteSet(T) /\ S \subseteq T => IsFiniteSet(S) /\ n \in Nat /\ n <= Cardinality(T)
  BY FS_Subset, FS_CardinalityType DEF n
<1>2. IsFiniteSet(S) /\ n \in Nat /\ n <= m
  BY <1>1, <1>a
<1>3. ASSUME n # 0, n \notin S PROVE FALSE
  <2>1. S \subseteq 1 .. n - 1
    <3>1. ASSUME NEW i \in S PROVE i < n
      BY <1>2, <1>3
    <3> QED
      BY <1>2, <3>1
  <2>2. IsFiniteSet(1 .. n - 1) /\ Cardinality(1 .. n - 1) = n - 1
    <3>1. \A k \in Nat : IsFiniteSet(1 .. k) /\ Cardinality(1 .. k) = k
      BY FS_Interval
    <3>2. n - 1 \in Nat
      BY <1>2, <1>3
    <3> QED
      BY <3>1, <3>2
  <2>3. n <= n - 1
    BY <1>a, <2>1, <2>2
  <2> QED
    BY <1>2, <2>3
<1> QED
  BY <1>2, <1>3 DEF n

(* Every set of natural numbers has a least member.                        *)
LEMMA LeastNat ==
  ASSUME NEW S \in SUBSET Nat, S # {} PROVE \E m \in S : \A k \in S : m <= k
<1> DEFINE R == OpToRel(<, Nat)
<1>1. PICK m \in S : \A k \in S : <<k, m>> \notin R
  <2>1. IsWellFoundedOn(R, Nat)
    BY NatLessThanWellFounded
  <2> HIDE DEF R
  <2> QED
    BY <2>1, WFMin
<1>2. \A k, l \in Nat : k < l => <<k, l>> \in R
  BY DEF OpToRel
<1> HIDE DEF R
<1>3. ASSUME NEW k \in S PROVE m <= k
  <2>1. k \in Nat /\ m \in Nat /\ ~(k < m)
    BY <1>1, <1>2
  <2> QED
    BY <2>1
<1> QED
  BY <1>3

(* Min of a set of natural numbers is a least member of it.                *)
LEMMA MinFacts ==
  ASSUME NEW S \in SUBSET Nat, S # {} PROVE Min(S) \in S /\ \A k \in S : Min(S) <= k
<1>1. PICK m \in S : \A k \in S : m <= k
  BY LeastNat
<1> QED
  BY <1>1 DEF Min

(* What holds at 0 and goes from each number to the next holds up to n.    *)
LEMMA UpTo ==
  ASSUME NEW n \in Nat, NEW G, 0 \in G, \A i \in 1 .. n : i - 1 \in G => i \in G
  PROVE  \A i \in 0 .. n : i \in G
<1> DEFINE Without == {i \in 0 .. n : i \notin G}
<1>1. SUFFICES ASSUME Without # {} PROVE FALSE
  OBVIOUS
<1>2. PICK k \in Without : \A l \in Without : k <= l
  <2> HIDE DEF Without
  <2>1. Without \in SUBSET Nat
    BY DEF Without
  <2> QED
    BY <1>1, <2>1, LeastNat
<1>3. k \in 1 .. n /\ k \notin G
  BY <1>2
<1>4. k - 1 \in 0 .. n /\ ~(k <= k - 1)
  BY <1>3
<1>5. k - 1 \in G
  BY <1>2, <1>4
<1> QED
  BY <1>3, <1>5

(* A loop has an outcome: the function that a recursion up to n defines.   *)
StepsOf(h, n, T) == h \in [1 .. n -> [T -> T]]
Outcome(f, b, h, n, T) ==
  f \in [0 .. n -> T] /\ f[0] = b /\ \A i \in 1 .. n : f[i] = h[i][f[i - 1]]

LEMMA RecursionUpTo ==
  ASSUME NEW T, NEW b \in T, NEW n \in Nat, NEW h, StepsOf(h, n, T)
  PROVE  \E f : Outcome(f, b, h, n, T)
<1> DEFINE Runs(f, k) == f[0] = b /\ \A i \in 1 .. k : f[i] = h[i][f[i - 1]]
           G == {k \in 0 .. n : \E f \in [0 .. n -> T] : Runs(f, k)}
<1>1. 0 \in G
  <2> DEFINE f == [i \in 0 .. n |-> b]
  <2>1. f \in [0 .. n -> T] /\ Runs(f, 0) /\ 0 \in 0 .. n
    OBVIOUS
  <2> HIDE DEF f, Runs
  <2> QED
    BY <2>1
<1>2. ASSUME NEW k \in 1 .. n, k - 1 \in G PROVE k \in G
  <2>0. h \in [1 .. n -> [T -> T]]
    BY DEF StepsOf
  <2>1. PICK f \in [0 .. n -> T] : Runs(f, k - 1)
    BY <1>2
  <2> DEFINE g == [f EXCEPT ![k] = h[k][f[k - 1]]]
  <2>2. f[k - 1] \in T /\ h[k][f[k - 1]] \in T
    BY <2>0
  <2>3. g \in [0 .. n -> T] /\ g[k] = h[k][f[k - 1]] /\ \A i \in 0 .. n : i # k => g[i] = f[i]
    BY <2>2
  <2> HIDE DEF g
  <2>4. ASSUME NEW i \in 1 .. k PROVE g[i] = h[i][g[i - 1]]
    <3>1. i - 1 \in 0 .. n /\ i - 1 # k /\ i \in 0 .. n
      OBVIOUS
    <3>2. CASE i = k
      BY <2>3, <3>1, <3>2
    <3>3. CASE i # k
      <4>1. i \in 1 .. k - 1
        BY <3>3
      <4> QED
        BY <2>1, <2>3, <3>1, <3>3, <4>1
    <3> QED
      BY <3>2, <3>3
  <2>5. Runs(g, k)
    BY <2>1, <2>3, <2>4
  <2> HIDE DEF Runs
  <2> QED
    BY <2>3, <2>5
<1>3. n \in G
  <2> HIDE DEF G
  <2>1. \A i \in 1 .. n : i - 1 \in G => i \in G
    BY <1>2
  <2>2. \A i \in 0 .. n : i \in G
    BY <1>1, <2>1, UpTo
  <2> QED
    BY <2>2
<1> QED
  BY <1>3 DEF Outcome
-----------------------------------------------------------------------------
(* The sequences that Cons, InsertAt and RemoveAt build.                   *)
LEMMA ConsFacts ==
  ASSUME NEW S, NEW s \in Seq(S), NEW e \in S
  PROVE  /\ Cons(e, s) \in Seq(S) /\ Len(Cons(e, s)) = Len(s) + 1
         /\ Cons(e, s)[1] = e /\ \A i \in 1 .. Len(s) : Cons(e, s)[i + 1] = s[i]
BY DEF Cons

LEMMA RemoveAtFacts ==
  ASSUME NEW S, NEW s \in Seq(S), NEW i \in 1 .. Len(s)
  PROVE  /\ RemoveAt(s, i) \in Seq(S) /\ Len(RemoveAt(s, i)) = Len(s) - 1
         /\ \A k \in 1 .. Len(s) - 1 :
              RemoveAt(s, i)[k] = IF k < i THEN s[k] ELSE s[k + 1]
<1> DEFINE a == SubSeq(s, 1, i - 1)
           b == SubSeq(s, i + 1, Len(s))
<1>1. a \in Seq(S) /\ Len(a) = i - 1 /\ \A k \in 1 .. i - 1 : a[k] = s[k]
  OBVIOUS
<1>2. b \in Seq(S) /\ Len(b) = Len(s) - i /\ \A k \in 1 .. Len(s) - i : b[k] = s[i + k]
  OBVIOUS
<1>3. RemoveAt(s, i) = a \o b
  BY DEF RemoveAt
<1> HIDE DEF a, b
<1>4. a \o b \in Seq(S) /\ Len(a \o b) = Len(s) - 1
  <2>1. a \o b \in Seq(S) /\ Len(a \o b) = Len(a) + Len(b)
    BY <1>1, <1>2, ConcatProperties
  <2> QED
    BY <1>1, <1>2, <2>1
<1>5. ASSUME NEW k \in 1 .. Len(s) - 1
      PROVE  (a \o b)[k] = IF k < i THEN s[k] ELSE s[k + 1]
  <2>1. CASE k < i
    BY <1>1, <1>2, <2>1
  <2>2. CASE ~(k < i)
    <3>1. (a \o b)[k] = b[k - (i - 1)] /\ k - (i - 1) \in 1 .. Len(s) - i
      BY <1>1, <1>2, <2>2, SMTT(60)
    <3>2. i + (k - (i - 1)) = k + 1
      OBVIOUS
    <3> QED
      BY <1>2, <2>2, <3>1, <3>2
  <2> QED
    BY <2>1, <2>2
<1> QED
  BY <1>3, <1>4, <1>5

IsInserted(S, s, i, e, t) ==
  /\ t \in Seq(S) /\ Len(t) = Len(s) + 1
  /\ \A k \in 1 .. Len(s) + 1 : t[k] = IF k < i THEN s[k] ELSE IF k = i THEN e ELSE s[k - 1]
LEMMA InsertAtFacts ==
  ASSUME NEW S, NEW s \in Seq(S), NEW i \in 1 .. Len(s) + 1, NEW e \in S
  PROVE  IsInserted(S, s, i, e, InsertAt(s, i, e))
<1> DEFINE a == SubSeq(s, 1, i - 1)
           b == SubSeq(s, i, Len(s))
<1>1. a \in Seq(S) /\ Len(a) = i - 1 /\ \A k \in 1 .. i - 1 : a[k] = s[k]
  OBVIOUS
<1>2. /\ b \in Seq(S) /\ Len(b) = Len(s) - i + 1
      /\ \A k \in 1 .. Len(s) - i + 1 : b[k] = s[i + k - 1]
  OBVIOUS
<1>3. InsertAt(s, i, e) = (a \o <<e>>) \o b
  BY DEF InsertAt
<1> HIDE DEF a, b
<1>4. /\ a \o <<e>> \in Seq(S) /\ Len(a \o <<e>>) = i
      /\ \A k \in 1 .. i : (a \o <<e>>)[k] = IF k < i THEN s[k] ELSE e
  BY <1>1
<1> DEFINE c == a \o <<e>>
<1> HIDE DEF c
<1>5. c \in Seq(S) /\ Len(c) = i /\ \A k \in 1 .. i : c[k] = IF k < i THEN s[k] ELSE e
  BY <1>4 DEF c
<1>6. c \o b \in Seq(S) /\ Len(c \o b) = Len(s) + 1
  <2>1. c \o b \in Seq(S) /\ Len(c \o b) = Len(c) + Len(b)
    BY <1>2, <1>5, ConcatProperties
  <2> QED
    BY <1>2, <1>5, <2>1
<1>7. ASSUME NEW k \in 1 .. Len(s) + 1
      PROVE  (c \o b)[k] = IF k < i THEN s[k] ELSE IF k = i THEN e ELSE s[k - 1]
  <2>1. CASE k <= i
    BY <1>2, <1>5, <2>1
  <2>2. CASE ~(k <= i)
    <3>1. (c \o b)[k] = b[k - i] /\ k - i \in 1 .. Len(s) - i + 1
      BY <1>2, <1>5, <2>2, SMTT(60)
    <3>2. i + (k - i) - 1 = k - 1
      OBVIOUS
    <3> QED
      BY <1>2, <2>2, <3>1, <3>2
  <2> QED
    BY <2>1, <2>2
<1> QED
  BY <1>3, <1>6, <1>7 DEF c, IsInserted
-----------------------------------------------------------------------------
(* What a list holds, and that it holds it once.                           *)
Mem(s) == {s[i] : i \in 1 .. Len(s)}
Once(s) == \A i, k \in 1 .. Len(s) : s[i] = s[k] => i = k

LEMMA ConsMem ==
  ASSUME NEW S, NEW s \in Seq(S), NEW e \in S
  PROVE  /\ Mem(Cons(e, s)) = {e} \cup Mem(s)
         /\ Once(s) /\ e \notin Mem(s) => Once(Cons(e, s))
<1> DEFINE t == Cons(e, s)
<1>1. /\ t \in Seq(S) /\ Len(t) = Len(s) + 1
      /\ t[1] = e /\ \A i \in 1 .. Len(s) : t[i + 1] = s[i]
  BY ConsFacts
<1> HIDE DEF t
<1>2. \A i \in 2 .. Len(t) : i - 1 \in 1 .. Len(s) /\ t[i] = s[i - 1]
  BY <1>1
<1>3. Mem(t) \subseteq {e} \cup Mem(s)
  <2> SUFFICES ASSUME NEW i \in 1 .. Len(t) PROVE t[i] \in {e} \cup Mem(s)
    BY DEF Mem
  <2>1. CASE i = 1
    BY <1>1, <2>1
  <2>2. CASE i # 1
    <3>1. i \in 2 .. Len(t)
      BY <1>1, <2>2
    <3>2. i - 1 \in 1 .. Len(s) /\ t[i] = s[i - 1]
      BY <1>2, <3>1
    <3> QED
      BY <3>2 DEF Mem
  <2> QED
    BY <2>1, <2>2
<1>4. {e} \cup Mem(s) \subseteq Mem(t)
  <2>1. e \in Mem(t)
    BY <1>1 DEF Mem
  <2>2. \A i \in 1 .. Len(s) : i + 1 \in 1 .. Len(t) /\ t[i + 1] = s[i]
    BY <1>1
  <2>3. Mem(s) \subseteq Mem(t)
    BY <2>2 DEF Mem
  <2> QED
    BY <2>1, <2>3
<1>5. ASSUME Once(s), e \notin Mem(s) PROVE Once(t)
  <2> SUFFICES ASSUME NEW i \in 1 .. Len(t), NEW k \in 1 .. Len(t), t[i] = t[k] PROVE i = k
    BY DEF Once
  <2>1. CASE i = 1 /\ k = 1
    BY <2>1
  <2>2. CASE i = 1 /\ k # 1
    BY <1>1, <1>2, <1>5, <2>2 DEF Mem
  <2>3. CASE i # 1 /\ k = 1
    BY <1>1, <1>2, <1>5, <2>3 DEF Mem
  <2>4. CASE i # 1 /\ k # 1
    <3>1. i - 1 \in 1 .. Len(s) /\ k - 1 \in 1 .. Len(s) /\ s[i - 1] = s[k - 1]
      BY <1>1, <1>2, <2>4
    <3>2. i - 1 = k - 1
      BY <1>5, <3>1 DEF Once
    <3> QED
      BY <3>2
  <2> QED
    BY <2>1, <2>2, <2>3, <2>4
<1> QED
  BY <1>3, <1>4, <1>5 DEF t

LEMMA RemoveAtMem ==
  ASSUME NEW S, NEW s \in Seq(S), NEW i \in 1 .. Len(s), Once(s)
  PROVE  Mem(RemoveAt(s, i)) = Mem(s) \ {s[i]} /\ Once(RemoveAt(s, i))
<1> DEFINE t == RemoveAt(s, i)
           Old(k) == IF k < i THEN k ELSE k + 1
<1>1. t \in Seq(S) /\ Len(t) = Len(s) - 1
  BY RemoveAtFacts
<1>2. \A k \in 1 .. Len(t) : t[k] = s[Old(k)]
  BY <1>1, RemoveAtFacts
<1>3. \A k \in 1 .. Len(t) : Old(k) \in 1 .. Len(s) /\ Old(k) # i
  BY <1>1
<1>4. \A k, l \in 1 .. Len(t) : Old(k) = Old(l) => k = l
  BY <1>1
<1>5. \A m \in 1 .. Len(s) : m # i => \E k \in 1 .. Len(t) : Old(k) = m
  <2> SUFFICES ASSUME NEW m \in 1 .. Len(s), m # i PROVE \E k \in 1 .. Len(t) : Old(k) = m
    OBVIOUS
  <2>1. CASE m < i
    <3>1. m \in 1 .. Len(t) /\ Old(m) = m
      BY <1>1, <2>1
    <3> QED
      BY <3>1
  <2>2. CASE m > i
    <3>1. m - 1 \in 1 .. Len(t) /\ Old(m - 1) = m
      BY <1>1, <2>2
    <3> QED
      BY <3>1
  <2> QED
    BY <2>1, <2>2
<1> HIDE DEF t, Old
<1>6. Mem(t) \subseteq Mem(s) \ {s[i]}
  <2> SUFFICES ASSUME NEW k \in 1 .. Len(t) PROVE t[k] \in Mem(s) \ {s[i]}
    BY DEF Mem
  <2>1. t[k] = s[Old(k)] /\ Old(k) \in 1 .. Len(s) /\ Old(k) # i
    BY <1>2, <1>3
  <2> QED
    BY <2>1 DEF Mem, Once
<1>7. Mem(s) \ {s[i]} \subseteq Mem(t)
  BY <1>2, <1>5 DEF Mem
<1>8. Once(t)
  BY <1>2, <1>3, <1>4 DEF Once
<1> QED
  BY <1>6, <1>7, <1>8 DEF t

(* A list without its last member.                                         *)
LEMMA FrontList ==
  ASSUME NEW S, NEW s \in Seq(S), s # <<>>
  PROVE  /\ Front(s) \in Seq(S) /\ Len(s) \in Nat \ {0} /\ Len(Front(s)) = Len(s) - 1
         /\ \A i \in 1 .. Len(s) - 1 : Front(s)[i] = s[i]
<1>1. Len(s) \in Nat /\ Len(s) # 0
  OBVIOUS
<1> DEFINE n == Len(s) - 1
<1>2. n \in 0 .. Len(s) /\ n - 1 + 1 = n /\ \A i \in 1 .. n : i \in 1 .. Len(s) /\ s[i] \in S
  BY <1>1
<1> HIDE DEF n
<1>3. /\ SubSeq(s, 1, n) \in Seq(S) /\ Len(SubSeq(s, 1, n)) = n
      /\ \A i \in 1 .. n : SubSeq(s, 1, n)[i] = s[i]
  BY <1>1, <1>2, SubSeqProperties
<1> QED
  BY <1>1, <1>3 DEF Front, n

LEMMA FrontFacts ==
  ASSUME NEW S, NEW s \in Seq(S), s # <<>>, Once(s)
  PROVE  /\ Front(s) \in Seq(S) /\ Once(Front(s)) /\ Mem(Front(s)) \subseteq Mem(s)
         /\ Last(s) \in Mem(s) /\ Last(s) \notin Mem(Front(s))
<1> DEFINE t == Front(s)
<1>1. t \in Seq(S) /\ Len(t) = Len(s) - 1 /\ Len(s) \in Nat \ {0}
  BY FrontList
<1>2. \A i \in 1 .. Len(t) : t[i] = s[i] /\ i \in 1 .. Len(s) /\ i # Len(s)
  BY <1>1, FrontList
<1>3. Last(s) = s[Len(s)] /\ Len(s) \in 1 .. Len(s)
  BY <1>1 DEF Last
<1> HIDE DEF t
<1>4. Once(t)
  BY <1>2 DEF Once
<1>5. Mem(t) \subseteq Mem(s) /\ Last(s) \in Mem(s)
  BY <1>2, <1>3 DEF Mem
<1>6. Last(s) \notin Mem(t)
  BY <1>2, <1>3 DEF Mem, Once
<1> QED
  BY <1>1, <1>4, <1>5, <1>6 DEF t

(* A list with one member more.                                            *)
LEMMA AppendFacts ==
  ASSUME NEW S, NEW s \in Seq(S), NEW e \in S
  PROVE  /\ Append(s, e) \in Seq(S) /\ Mem(Append(s, e)) = Mem(s) \cup {e}
         /\ Once(s) /\ e \notin Mem(s) => Once(Append(s, e))
<1> DEFINE t == Append(s, e)
<1>1. /\ t \in Seq(S) /\ Len(t) = Len(s) + 1 /\ Len(s) \in Nat
      /\ \A i \in 1 .. Len(s) : t[i] = s[i]
      /\ t[Len(s) + 1] = e
  OBVIOUS
<1> HIDE DEF t
<1>2. /\ \A i \in 1 .. Len(t) : i \in 1 .. Len(s) \/ i = Len(s) + 1
      /\ \A i \in 1 .. Len(s) : i \in 1 .. Len(t)
      /\ Len(s) + 1 \in 1 .. Len(t)
  BY <1>1
<1>3. Mem(t) = Mem(s) \cup {e}
  BY <1>1, <1>2 DEF Mem
<1>4. Once(s) /\ e \notin Mem(s) => Once(t)
  BY <1>1, <1>2 DEF Mem, Once
<1> QED
  BY <1>1, <1>3, <1>4 DEF t

(* Two lists put one after the other.                                      *)
LEMMA JoinedAt ==
  ASSUME NEW S, NEW x \in Seq(S), NEW y \in Seq(S)
  PROVE  /\ x \o y \in Seq(S) /\ Len(x \o y) = Len(x) + Len(y)
         /\ Len(x) \in Nat /\ Len(y) \in Nat
         /\ \A i \in 1 .. Len(x) : (x \o y)[i] = x[i]
         /\ \A i \in 1 .. Len(y) : (x \o y)[Len(x) + i] = y[i]
<1>1. x \o y \in Seq(S) /\ Len(x \o y) = Len(x) + Len(y) /\ Len(x) \in Nat /\ Len(y) \in Nat
  OBVIOUS
<1>2. ASSUME NEW i \in 1 .. Len(x) PROVE (x \o y)[i] = x[i]
  OBVIOUS
<1>3. ASSUME NEW i \in 1 .. Len(y) PROVE (x \o y)[Len(x) + i] = y[i]
  OBVIOUS
<1> QED
  BY <1>1, <1>2, <1>3

(* What joining two lists without a common member gives.                      *)
LEMMA JoinedFacts ==
  ASSUME NEW S, NEW x \in Seq(S), NEW y \in Seq(S)
  PROVE  /\ x \o y \in Seq(S)
         /\ Mem(x \o y) = Mem(x) \union Mem(y)
         /\ Once(x) /\ Once(y) /\ Mem(x) \intersect Mem(y) = {} => Once(x \o y)
<1> DEFINE z == x \o y
<1>1. /\ z \in Seq(S) /\ Len(z) = Len(x) + Len(y) /\ Len(x) \in Nat /\ Len(y) \in Nat
      /\ \A i \in 1 .. Len(x) : z[i] = x[i]
      /\ \A i \in 1 .. Len(y) : z[Len(x) + i] = y[i]
  BY JoinedAt
<1> HIDE DEF z
<1>2. ASSUME NEW i \in 1 .. Len(z)
      PROVE  \/ i \in 1 .. Len(x) /\ z[i] = x[i] /\ z[i] \in Mem(x)
             \/ i - Len(x) \in 1 .. Len(y) /\ z[i] = y[i - Len(x)] /\ z[i] \in Mem(y)
  <2>1. CASE i <= Len(x)
    BY <1>1, <2>1 DEF Mem
  <2>2. CASE ~(i <= Len(x))
    <3>1. i - Len(x) \in 1 .. Len(y) /\ Len(x) + (i - Len(x)) = i
      BY <1>1, <2>2
    <3>2. z[i] = y[i - Len(x)]
      BY <1>1, <3>1
    <3> QED
      BY <3>1, <3>2 DEF Mem
  <2> QED
    BY <2>1, <2>2
<1>3. Mem(z) = Mem(x) \union Mem(y)
  <2>1. \A i \in 1 .. Len(x) : i \in 1 .. Len(z) /\ x[i] \in Mem(z)
    BY <1>1 DEF Mem
  <2>2. ASSUME NEW i \in 1 .. Len(y) PROVE y[i] \in Mem(z)
    <3>1. Len(x) + i \in 1 .. Len(z) /\ z[Len(x) + i] = y[i]
      BY <1>1
    <3> QED
      BY <3>1 DEF Mem
  <2> QED
    BY <1>2, <2>1, <2>2 DEF Mem
<1>4. ASSUME Once(x), Once(y), Mem(x) \intersect Mem(y) = {},
             NEW i \in 1 .. Len(z), NEW k \in 1 .. Len(z), z[i] = z[k]
      PROVE  i = k
  <2>1. CASE z[i] \in Mem(x)
    <3>1. i \in 1 .. Len(x) /\ k \in 1 .. Len(x) /\ x[i] = x[k]
      BY <1>2, <1>4, <2>1
    <3> QED
      BY <1>4, <3>1 DEF Once
  <2>2. CASE z[i] \in Mem(y)
    <3>1. i - Len(x) \in 1 .. Len(y) /\ k - Len(x) \in 1 .. Len(y) /\ y[i - Len(x)] = y[k - Len(x)]
      BY <1>2, <1>4, <2>2
    <3>2. i - Len(x) = k - Len(x)
      BY <1>4, <3>1 DEF Once
    <3> QED
      BY <1>1, <3>2
  <2> QED
    BY <1>2, <2>1, <2>2
<1> QED
  BY <1>1, <1>3, <1>4 DEF Once, z
-----------------------------------------------------------------------------
(* t is what is left of s up to n without what is not in S.                *)
KeptTo(t, s, n, S, e) ==
  /\ e \in [1 .. Len(t) -> 1 .. n]
  /\ \A i, k \in 1 .. Len(t) : i < k => e[i] < e[k]
  /\ \A i \in 1 .. Len(t) : t[i] = s[e[i]] /\ t[i] \in S
  /\ \A m \in 1 .. n : s[m] \in S => \E i \in 1 .. Len(t) : e[i] = m
IsKept(T, t, s, n, S) == t \in Seq(T) /\ \E e \in [1 .. Len(t) -> 1 .. n] : KeptTo(t, s, n, S, e)

(* The loop that goes over s and appends what is in S to what it has.      *)
KeptUpTo(s, S) ==
  CHOOSE k : k = [i \in 0 .. Len(s) |->
                    IF i = 0 THEN <<>>
                    ELSE IF s[i] \in S THEN Append(k[i - 1], s[i]) ELSE k[i - 1]]

LEMMA KeptIsKept ==
  ASSUME NEW T, NEW s \in Seq(T), NEW S PROVE IsKept(T, KeptUpTo(s, S)[Len(s)], s, Len(s), S)
<1> DEFINE n == Len(s)
           U == Seq(T)
           h == [i \in 1 .. n |-> [t \in U |-> IF s[i] \in S THEN Append(t, s[i]) ELSE t]]
           K(k) == [i \in 0 .. n |-> IF i = 0 THEN <<>>
                                     ELSE IF s[i] \in S THEN Append(k[i - 1], s[i]) ELSE k[i - 1]]
           k0 == CHOOSE k : k = K(k)
<1>1. n \in Nat /\ \A i \in 1 .. n : s[i] \in T
  OBVIOUS
<1>2. h \in [1 .. n -> [U -> U]] /\ <<>> \in U
  BY <1>1
<1>3. PICK f \in [0 .. n -> U] : f[0] = <<>> /\ \A i \in 1 .. n : f[i] = h[i][f[i - 1]]
  <2> HIDE DEF n, U, h, K, k0
  <2>1. StepsOf(h, n, U)
    BY <1>2 DEF StepsOf
  <2>2. \E f : Outcome(f, <<>>, h, n, U)
    BY <1>1, <1>2, <2>1, RecursionUpTo
  <2> QED
    BY <2>2 DEF Outcome
<1>4. f = K(f)
  <2>1. ASSUME NEW i \in 0 .. n, i # 0
        PROVE  f[i] = IF s[i] \in S THEN Append(f[i - 1], s[i]) ELSE f[i - 1]
    <3>1. i \in 1 .. n /\ i - 1 \in 0 .. n
      BY <2>1
    <3> QED
      BY <1>3, <3>1
  <2> QED
    BY <1>3, <2>1
<1>5. k0 = K(k0)
  <2> HIDE DEF K
  <2> QED
    BY <1>4
<1>6. KeptUpTo(s, S)[Len(s)] = k0[n]
  BY DEF KeptUpTo
<1> HIDE DEF k0, n, U, h
<1>7. /\ k0[0] = <<>>
      /\ \A i \in 1 .. n : k0[i] = IF s[i] \in S THEN Append(k0[i - 1], s[i]) ELSE k0[i - 1]
  <2>1. \A i \in 0 .. n :
          k0[i] = IF i = 0 THEN <<>>
                  ELSE IF s[i] \in S THEN Append(k0[i - 1], s[i]) ELSE k0[i - 1]
    BY <1>5, Zenon
  <2>2. 0 \in 0 .. n /\ \A i \in 1 .. n : i \in 0 .. n /\ i # 0
    BY <1>1
  <2> HIDE DEF K
  <2>3. k0[0] = <<>>
    BY <2>1, <2>2, Zenon
  <2>4. ASSUME NEW i \in 1 .. n
        PROVE  k0[i] = IF s[i] \in S THEN Append(k0[i - 1], s[i]) ELSE k0[i - 1]
    BY <2>1, <2>2, Zenon
  <2> QED
    BY <2>3, <2>4
<1> HIDE DEF K
<1> DEFINE G == {i \in 0 .. n : IsKept(T, k0[i], s, i, S)}
<1>8. 0 \in G
  <2>1. [i \in {} |-> 0] \in [1 .. 0 -> 1 .. 0] /\ KeptTo(<<>>, s, 0, S, [i \in {} |-> 0])
    BY DEF KeptTo
  <2>2. <<>> \in Seq(T) /\ Len(<<>>) = 0
    OBVIOUS
  <2>3. IsKept(T, <<>>, s, 0, S)
    BY <2>1, <2>2 DEF IsKept
  <2> QED
    BY <1>1, <1>7, <2>3
<1>9. ASSUME NEW i \in 1 .. n, i - 1 \in G PROVE i \in G
  <2>0. i \in 0 .. n
    BY <1>1
  <2> DEFINE t == k0[i - 1]
  <2>1. t \in Seq(T) /\ s[i] \in T
    BY <1>1, <1>9 DEF IsKept
  <2>2. PICK e \in [1 .. Len(t) -> 1 .. i - 1] : KeptTo(t, s, i - 1, S, e)
    BY <1>9 DEF IsKept
  <2> HIDE DEF t
  <2>3. CASE s[i] \notin S
    <3>1. KeptTo(t, s, i, S, e) /\ e \in [1 .. Len(t) -> 1 .. i]
      BY <1>1, <2>2, <2>3 DEF KeptTo
    <3>2. k0[i] = t
      BY <1>7, <2>3 DEF t
    <3>3. IsKept(T, t, s, i, S)
      BY <2>1, <3>1 DEF IsKept, t
    <3> QED
      BY <2>0, <3>2, <3>3
  <2>4. CASE s[i] \in S
    <3> DEFINE m == Len(t) + 1
               u == Append(t, s[i])
               d == [x \in 1 .. m |-> IF x = m THEN i ELSE e[x]]
    <3>1. k0[i] = u
      BY <1>7, <2>4 DEF t
    <3>2. /\ u \in Seq(T) /\ Len(u) = m /\ Len(t) \in Nat
          /\ u[m] = s[i] /\ \A x \in 1 .. Len(t) : u[x] = t[x] /\ x \in 1 .. m /\ x # m
          /\ \A x \in 1 .. m : x = m \/ x \in 1 .. Len(t)
          /\ m \in 1 .. m
      BY <2>1
    <3> HIDE DEF m, u
    <3>9. \A x \in 1 .. Len(t) : e[x] \in 1 .. i /\ e[x] < i
      BY <1>1, <2>2
    <3>3. /\ d \in [1 .. m -> 1 .. i] /\ d[m] = i
          /\ \A x \in 1 .. Len(t) : d[x] = e[x] /\ d[x] < i
      BY <1>1, <3>2, <3>9
    <3> HIDE DEF d
    <3>4. ASSUME NEW x \in 1 .. m, NEW y \in 1 .. m, x < y PROVE d[x] < d[y]
      <4>1. x \in 1 .. Len(t)
        BY <3>2, <3>4 DEF m
      <4> QED
        BY <2>2, <3>2, <3>3, <3>4, <4>1 DEF KeptTo
    <3>5. ASSUME NEW x \in 1 .. m PROVE u[x] = s[d[x]] /\ u[x] \in S
      BY <2>2, <2>4, <3>2, <3>3 DEF KeptTo
    <3>6. ASSUME NEW y \in 1 .. i, s[y] \in S PROVE \E x \in 1 .. m : d[x] = y
      <4>1. y = i \/ y \in 1 .. i - 1
        OBVIOUS
      <4>2. CASE y = i
        BY <3>2, <3>3, <4>2
      <4>3. CASE y \in 1 .. i - 1
        BY <2>2, <3>2, <3>3, <3>6, <4>3 DEF KeptTo
      <4> QED
        BY <4>1, <4>2, <4>3
    <3>7. KeptTo(u, s, i, S, d)
      BY <3>2, <3>3, <3>4, <3>5, <3>6 DEF KeptTo
    <3>8. IsKept(T, u, s, i, S)
      BY <3>2, <3>3, <3>7 DEF IsKept
    <3> QED
      BY <2>0, <3>1, <3>8
  <2> QED
    BY <2>3, <2>4
<1>10. n \in G
  <2> HIDE DEF G
  <2>1. \A i \in 1 .. n : i - 1 \in G => i \in G
    BY <1>9
  <2>2. \A i \in 0 .. n : i \in G
    BY <1>1, <1>8, <2>1, UpTo
  <2> QED
    BY <1>1, <2>2
<1> QED
  BY <1>6, <1>10 DEF n

(* What a selection keeps, and that it keeps the order.                    *)
LEMMA KeptFacts ==
  ASSUME NEW T, NEW s \in Seq(T), NEW S, NEW t, IsKept(T, t, s, Len(s), S)
  PROVE  /\ t \in Seq(T) /\ Mem(t) = {j \in Mem(s) : j \in S}
         /\ Once(s) => Once(t)
<1> DEFINE n == Len(s)
<1>1. t \in Seq(T)
  BY DEF IsKept
<1>2. PICK e \in [1 .. Len(t) -> 1 .. n] : KeptTo(t, s, n, S, e)
  BY DEF IsKept
<1> HIDE DEF n
<1>3. Mem(t) = {j \in Mem(s) : j \in S}
  <2>1. ASSUME NEW i \in 1 .. Len(t) PROVE t[i] \in Mem(s) /\ t[i] \in S
    BY <1>2, <2>1 DEF KeptTo, Mem, n
  <2>2. ASSUME NEW m \in 1 .. Len(s), s[m] \in S PROVE s[m] \in Mem(t)
    BY <1>2, <2>2 DEF KeptTo, Mem, n
  <2> QED
    BY <2>1, <2>2 DEF Mem
<1>4. ASSUME Once(s), NEW i \in 1 .. Len(t), NEW k \in 1 .. Len(t), t[i] = t[k] PROVE i = k
  <2>1. e[i] = e[k]
    BY <1>2, <1>4 DEF KeptTo, Once, n
  <2>2. i \in Nat /\ k \in Nat /\ e[i] \in Nat /\ e[k] \in Nat
    BY <1>2, <1>4
  <2>3. ~(i < k) /\ ~(k < i)
    BY <1>2, <1>4, <2>1, <2>2 DEF KeptTo
  <2> QED
    BY <2>2, <2>3
<1> QED
  BY <1>1, <1>3, <1>4 DEF Once
-----------------------------------------------------------------------------
(* Lists in an order.                                                      *)
Increasing(s) == \A i, k \in 1 .. Len(s) : i < k => s[i] < s[k]
Decreasing(s) == \A i, k \in 1 .. Len(s) : i < k => s[i] > s[k]

(* A list in order has no repetition.                                      *)
LEMMA OrderedOnce ==
  ASSUME NEW S, \A a \in S : a \in Nat, NEW s \in Seq(S), Increasing(s) \/ Decreasing(s) PROVE Once(s)
<1> SUFFICES ASSUME NEW i \in 1 .. Len(s), NEW k \in 1 .. Len(s), i < k PROVE s[i] # s[k]
  <2>1. \A i, k \in 1 .. Len(s) : i # k => i < k \/ k < i
    OBVIOUS
  <2> QED
    BY <2>1 DEF Once
<1>1. s[i] \in Nat /\ s[k] \in Nat
  OBVIOUS
<1> QED
  BY <1>1 DEF Increasing, Decreasing

(* A larger head keeps a list decreasing.                                  *)
LEMMA ConsDecreasing ==
  ASSUME NEW S, \A a \in S : a \in Nat, NEW s \in Seq(S), Decreasing(s), NEW e \in S, \A c \in Mem(s) : c < e
  PROVE  Decreasing(Cons(e, s))
<1> DEFINE t == Cons(e, s)
<1>1. /\ t \in Seq(S) /\ Len(t) = Len(s) + 1
      /\ t[1] = e /\ \A i \in 1 .. Len(s) : t[i + 1] = s[i]
  BY ConsFacts
<1> HIDE DEF t
<1>2. \A i \in 2 .. Len(t) : i - 1 \in 1 .. Len(s) /\ t[i] = s[i - 1]
  BY <1>1
<1> SUFFICES ASSUME NEW i \in 1 .. Len(t), NEW k \in 1 .. Len(t), i < k PROVE t[i] > t[k]
  BY DEF Decreasing, t
<1>3. k - 1 \in 1 .. Len(s) /\ t[k] = s[k - 1]
  BY <1>2
<1>4. CASE i = 1
  <2>1. t[k] < e
    BY <1>3 DEF Mem
  <2>2. t[k] \in Nat /\ e \in Nat
    BY <1>1
  <2> QED
    BY <1>1, <1>4, <2>1, <2>2
<1>5. CASE i # 1
  <2>1. i - 1 \in 1 .. Len(s) /\ t[i] = s[i - 1] /\ i - 1 < k - 1
    BY <1>2, <1>5
  <2> QED
    BY <1>3, <2>1 DEF Decreasing
<1> QED
  BY <1>4, <1>5

LEMMA TailFacts ==
  ASSUME NEW S, \A a \in S : a \in Nat, NEW s \in Seq(S), s # <<>>, Decreasing(s)
  PROVE  /\ Tail(s) \in Seq(S) /\ Decreasing(Tail(s)) /\ Head(s) \in S
         /\ Mem(s) = {Head(s)} \cup Mem(Tail(s)) /\ \A c \in Mem(Tail(s)) : c < Head(s)
<1> DEFINE t == Tail(s)
<1>1. /\ t \in Seq(S) /\ Len(t) = Len(s) - 1 /\ Head(s) = s[1] /\ Len(s) >= 1
      /\ \A i \in 1 .. Len(t) : t[i] = s[i + 1]
  OBVIOUS
<1> HIDE DEF t
<1>2. \A i \in 1 .. Len(t) : i + 1 \in 1 .. Len(s)
  BY <1>1
<1>3. Decreasing(t)
  <2> SUFFICES ASSUME NEW i \in 1 .. Len(t), NEW k \in 1 .. Len(t), i < k PROVE t[i] > t[k]
    BY DEF Decreasing
  <2>1. i + 1 \in 1 .. Len(s) /\ k + 1 \in 1 .. Len(s) /\ i + 1 < k + 1
    BY <1>2
  <2> QED
    BY <1>1, <2>1 DEF Decreasing
<1>4. Head(s) \in S
  BY <1>1
<1>5. Mem(s) = {Head(s)} \cup Mem(t)
  <2>1. Mem(s) \subseteq {Head(s)} \cup Mem(t)
    <3> SUFFICES ASSUME NEW i \in 1 .. Len(s), i # 1 PROVE s[i] \in Mem(t)
      BY <1>1 DEF Mem
    <3>1. i - 1 \in 1 .. Len(t) /\ (i - 1) + 1 = i
      BY <1>1
    <3> QED
      BY <1>1, <3>1 DEF Mem
  <2>2. {Head(s)} \cup Mem(t) \subseteq Mem(s)
    BY <1>1, <1>2 DEF Mem
  <2> QED
    BY <2>1, <2>2
<1>6. \A c \in Mem(t) : c < Head(s)
  <2> SUFFICES ASSUME NEW i \in 1 .. Len(t) PROVE t[i] < Head(s)
    BY DEF Mem
  <2>1. 1 \in 1 .. Len(s) /\ i + 1 \in 1 .. Len(s) /\ 1 < i + 1
    BY <1>1, <1>2
  <2>2. s[1] > s[i + 1] /\ s[1] \in Nat /\ s[i + 1] \in Nat
    BY <2>1 DEF Decreasing
  <2> QED
    BY <1>1, <2>2
<1> QED
  BY <1>1, <1>3, <1>4, <1>5, <1>6 DEF t

(* A list in order, without one of its members.                            *)
LEMMA RemovedFacts ==
  ASSUME NEW S, \A a \in S : a \in Nat, NEW s \in Seq(S), Increasing(s), NEW i \in 1 .. Len(s)
  PROVE  /\ RemoveAt(s, i) \in Seq(S) /\ Increasing(RemoveAt(s, i))
         /\ Len(RemoveAt(s, i)) = Len(s) - 1
         /\ Mem(RemoveAt(s, i)) = Mem(s) \ {s[i]}
         /\ \A k \in 1 .. i - 1 : RemoveAt(s, i)[k] = s[k]
<1> DEFINE t == RemoveAt(s, i)
<1>1. /\ t \in Seq(S) /\ Len(t) = Len(s) - 1
      /\ \A k \in 1 .. Len(s) - 1 : t[k] = IF k < i THEN s[k] ELSE s[k + 1]
  BY RemoveAtFacts
<1>2. Mem(t) = Mem(s) \ {s[i]}
  BY OrderedOnce, RemoveAtMem
<1> HIDE DEF t
<1>3. Increasing(t)
  <2> SUFFICES ASSUME NEW k \in 1 .. Len(t), NEW l \in 1 .. Len(t), k < l PROVE t[k] < t[l]
    BY DEF Increasing
  <2> DEFINE Old(m) == IF m < i THEN m ELSE m + 1
  <2>1. Old(k) \in 1 .. Len(s) /\ Old(l) \in 1 .. Len(s) /\ Old(k) < Old(l)
    BY <1>1
  <2>2. t[k] = s[Old(k)] /\ t[l] = s[Old(l)]
    BY <1>1
  <2> HIDE DEF Old
  <2> QED
    BY <2>1, <2>2 DEF Increasing
<1>4. ASSUME NEW k \in 1 .. i - 1 PROVE t[k] = s[k]
  <2>1. k \in 1 .. Len(s) - 1 /\ k < i
    OBVIOUS
  <2> QED
    BY <1>1, <2>1
<1> QED
  BY <1>1, <1>2, <1>3, <1>4 DEF t

(* The members of a list that precede its n-th one.                        *)
Before(g, n) == {g[i] : i \in {k \in 1 .. Len(g) : k < n}}

LEMMA BeforeFacts ==
  ASSUME NEW S, NEW g \in Seq(S)
  PROVE  /\ Before(g, Len(g) + 1) = Mem(g) /\ \A n : Before(g, n) \subseteq Mem(g)
         /\ Before(g, 1) = {}
         /\ \A n \in 1 .. Len(g) : Before(g, n + 1) = Before(g, n) \cup {g[n]}
         /\ Increasing(g) => \A n \in 1 .. Len(g) : \A c \in Before(g, n) : c < g[n]
<1>1. \A k \in 1 .. Len(g) : k < Len(g) + 1 /\ ~(k < 1)
  OBVIOUS
<1>2. \A n \in 1 .. Len(g) : \A k \in 1 .. Len(g) : k < n + 1 <=> k < n \/ k = n
  OBVIOUS
<1>3. \A n \in 1 .. Len(g) : Before(g, n + 1) = Before(g, n) \cup {g[n]}
  BY <1>2 DEF Before
<1>4. Before(g, Len(g) + 1) = Mem(g) /\ Before(g, 1) = {}
  BY <1>1 DEF Before, Mem
<1> QED
  BY <1>3, <1>4 DEF Before, Mem, Increasing
=============================================================================
