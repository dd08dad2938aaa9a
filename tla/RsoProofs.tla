----------------------------- MODULE RsoProofs -----------------------------
(***************************************************************************)
(* The heap of resizable objects, for every number of types, words and     *)
(* addresses.  First the table of chunks: however chunks are split,        *)
(* shrunk, merged and freed, it stays sorted and its chunks lie apart in   *)
(* memory that malloc gave.  Then the blocks inside the used chunks: they  *)
(* follow each other without hole, and a collection keeps what is reached. *)
(***************************************************************************)
EXTENDS RsoHeap, ListLemmas, FiniteSetTheorems

LEMMA AddrNat == Memory \in Nat /\ \A a \in Addr : a \in Nat /\ a >= 1 /\ a <= Memory
BY RsoAssumption DEF Addr

-----------------------------------------------------------------------------
(* binary_search_in_gcmt.  Its recursion has a solution in closed form, and *)
(* no other: by induction on the length of the interval.                   *)
SearchBase(c, l) == IF gcmt[l + 1] < c THEN l + 1 ELSE l
SearchBody(S, c, lo, hi) ==
  IF lo < hi
  THEN LET mid == (lo + hi) \div 2
       IN  IF gcmt[mid + 1] < c THEN S[<<mid + 1, hi>>] ELSE S[<<lo, mid>>]
  ELSE SearchBase(c, lo)
SearchSolution(S, c) ==
  S = [b \in (0 .. Len(gcmt)) \X (0 .. Len(gcmt)) |-> SearchBody(S, c, b[1], b[2])]
Closed(c, k, lo, hi) ==
  IF lo >= hi THEN SearchBase(c, lo)
  ELSE IF k <= lo THEN lo ELSE IF k <= hi - 1 THEN k ELSE SearchBase(c, hi)
Below(c, k) ==
  k \in 0 .. Len(gcmt) /\ \A i \in 1 .. Len(gcmt) : gcmt[i] < c <=> i <= k

LEMMA ClosedSolves ==
  ASSUME gcmt \in Seq(Addr), NEW c, NEW k, Below(c, k),
         NEW lo \in 0 .. Len(gcmt), NEW hi \in 0 .. Len(gcmt), lo < hi,
         NEW mid \in Nat, lo <= mid, mid < hi
  PROVE  Closed(c, k, lo, hi) =
           IF gcmt[mid + 1] < c THEN Closed(c, k, mid + 1, hi) ELSE Closed(c, k, lo, mid)
<1>1. k \in Nat /\ lo \in Nat /\ hi \in Nat /\ Len(gcmt) \in Nat /\ hi <= Len(gcmt)
  BY DEF Below
<1>2. \A i \in Nat : 1 <= i /\ i <= Len(gcmt) => (gcmt[i] < c <=> i <= k)
  BY <1>1 DEF Below
<1>3. gcmt[mid + 1] < c <=> mid + 1 <= k
  BY <1>1, <1>2
<1>4. CASE mid + 1 <= k
  <2>1. CASE mid + 1 = hi
    BY <1>1, <1>3, <1>4, <2>1 DEF Closed
  <2>2. CASE mid + 1 < hi
    BY <1>1, <1>2, <1>3, <1>4, <2>2 DEF Closed
  <2> QED
    BY <1>1, <2>1, <2>2
<1>5. CASE ~(mid + 1 <= k)
  <2>1. CASE mid = lo
    <3>1. SearchBase(c, lo) = lo
      BY <1>3, <1>5, <2>1 DEF SearchBase
    <3> QED
      BY <1>1, <1>3, <1>5, <2>1, <3>1 DEF Closed
  <2>2. CASE lo < mid
    <3>1. SearchBase(c, mid) = mid
      BY <1>3, <1>5 DEF SearchBase
    <3> QED
      BY <1>1, <1>3, <1>5, <2>2, <3>1 DEF Closed
  <2> QED
    BY <1>1, <2>1, <2>2
<1> QED
  BY <1>4, <1>5

LEMMA SearchFacts ==
  ASSUME gcmt \in Seq(Addr), NEW c, NEW k, Below(c, k),
         NEW max \in 0 .. Len(gcmt) - 1, k <= max + 1
  PROVE  Search(0, max, c) = k
<1> DEFINE n == Len(gcmt)
           F == [b \in (0 .. n) \X (0 .. n) |-> Closed(c, k, b[1], b[2])]
           S0 == CHOOSE S : SearchSolution(S, c)
<1>0. n \in Nat
  OBVIOUS
<1>1. \A lo, hi \in 0 .. n : F[<<lo, hi>>] = Closed(c, k, lo, hi)
  OBVIOUS
<1> HIDE DEF F
<1>2. SearchSolution(F, c)
  <2>1. ASSUME NEW lo \in 0 .. n, NEW hi \in 0 .. n
        PROVE  Closed(c, k, lo, hi) = SearchBody(F, c, lo, hi)
    <3>1. CASE lo < hi
      <4> DEFINE mid == (lo + hi) \div 2
      <4>1. mid \in Nat /\ lo <= mid /\ mid < hi
        BY <3>1, Halving
      <4>2. SearchBody(F, c, lo, hi) =
              IF gcmt[mid + 1] < c THEN F[<<mid + 1, hi>>] ELSE F[<<lo, mid>>]
        BY <3>1 DEF SearchBody
      <4> HIDE DEF mid
      <4>3. mid + 1 \in 0 .. n /\ mid \in 0 .. n
        BY <4>1
      <4> QED
        BY <1>1, <3>1, <4>1, <4>2, <4>3, ClosedSolves
    <3>2. CASE ~(lo < hi)
      BY <3>2 DEF Closed, SearchBody
    <3> QED
      BY <3>1, <3>2
  <2>2. F = [b \in (0 .. n) \X (0 .. n) |-> SearchBody(F, c, b[1], b[2])]
    BY <2>1 DEF F
  <2> QED
    BY <2>2 DEF SearchSolution
<1>3. SearchSolution(S0, c)
  BY <1>2
<1>4. Search(0, max, c) = S0[<<0, max>>]
  BY DEF Search, SearchSolution, SearchBody, SearchBase
<1> HIDE DEF S0
<1>5. \A lo, hi \in 0 .. n : S0[<<lo, hi>>] = SearchBody(S0, c, lo, hi)
  BY <1>3 DEF SearchSolution
<1> DEFINE Bad == {m \in Nat : \E lo, hi \in 0 .. n : hi = lo + m /\ S0[<<lo, hi>>] # Closed(c, k, lo, hi)}
<1>6. Bad = {}
  <2> SUFFICES ASSUME Bad # {} PROVE FALSE
    OBVIOUS
  <2>1. PICK m \in Bad : \A l \in Bad : m <= l
    <3>1. Bad \in SUBSET Nat
      OBVIOUS
    <3> HIDE DEF Bad
    <3> QED
      BY <3>1, LeastNat
  <2>2. PICK lo \in 0 .. n, hi \in 0 .. n : hi = lo + m /\ S0[<<lo, hi>>] # Closed(c, k, lo, hi)
    OBVIOUS
  <2>3. \A l, h \in 0 .. n : l <= h /\ h - l < m => S0[<<l, h>>] = Closed(c, k, l, h)
    <3> SUFFICES ASSUME NEW l \in 0 .. n, NEW h \in 0 .. n, l <= h, h - l < m,
                        S0[<<l, h>>] # Closed(c, k, l, h)
                 PROVE  FALSE
      OBVIOUS
    <3>1. h - l \in Nat /\ h = l + (h - l)
      OBVIOUS
    <3>2. h - l \in Bad
      BY <3>1
    <3>3. m \in Nat /\ ~(m <= h - l)
      BY <3>1
    <3> HIDE DEF Bad
    <3> QED
      BY <2>1, <3>2, <3>3
  <2> HIDE DEF Bad
  <2>4. CASE lo < hi
    <3> DEFINE mid == (lo + hi) \div 2
    <3>1. mid \in Nat /\ lo <= mid /\ mid < hi
      BY <2>4, Halving
    <3>2. S0[<<lo, hi>>] = IF gcmt[mid + 1] < c THEN S0[<<mid + 1, hi>>] ELSE S0[<<lo, mid>>]
      BY <1>5, <2>4 DEF SearchBody
    <3> HIDE DEF mid
    <3>3. mid + 1 \in 0 .. n /\ mid \in 0 .. n /\ m = hi - lo
      BY <2>2, <3>1 DEF Bad
    <3>4. S0[<<mid + 1, hi>>] = Closed(c, k, mid + 1, hi) /\ S0[<<lo, mid>>] = Closed(c, k, lo, mid)
      BY <2>3, <3>1, <3>3
    <3> QED
      BY <2>2, <2>4, <3>1, <3>2, <3>4, ClosedSolves
  <2>5. CASE ~(lo < hi)
    <3>1. S0[<<lo, hi>>] = SearchBody(S0, c, lo, hi)
      BY <1>5
    <3>2. SearchBody(S0, c, lo, hi) = SearchBase(c, lo) /\ Closed(c, k, lo, hi) = SearchBase(c, lo)
      BY <2>5 DEF Closed, SearchBody
    <3> QED
      BY <2>2, <3>1, <3>2
  <2> QED
    BY <2>4, <2>5
<1>7. S0[<<0, max>>] = Closed(c, k, 0, max)
  <2>1. max \in Nat /\ max \in 0 .. n /\ 0 \in 0 .. n /\ max = 0 + max
    OBVIOUS
  <2> QED
    BY <1>6, <2>1
<1>8. \A i \in Nat : 1 <= i /\ i <= n => (gcmt[i] < c <=> i <= k)
  BY DEF Below
<1>9. k \in Nat
  BY DEF Below
<1>10. SearchBase(c, max) = IF max + 1 <= k THEN max + 1 ELSE max
  BY <1>8 DEF SearchBase
<1>11. Closed(c, k, 0, max) = k
  BY <1>9, <1>10 DEF Closed
<1> QED
  BY <1>4, <1>7, <1>11

(* In a sorted table there is a place for every address.                   *)
LEMMA PlaceFor ==
  ASSUME gcmt \in Seq(Addr), Increasing(gcmt), NEW c \in Addr
  PROVE  \E k : Below(c, k)
<1> DEFINE n == Len(gcmt)
           Stop == {j \in Nat : j > n \/ (j >= 1 /\ ~(gcmt[j] < c))}
<1>1. PICK j \in Stop : \A i \in Stop : j <= i
  <2>1. n + 1 \in Stop
    OBVIOUS
  <2>2. Stop \in SUBSET Nat /\ Stop # {}
    BY <2>1
  <2> HIDE DEF Stop
  <2> QED
    BY <2>2, LeastNat
<1>2. j \in Nat /\ j >= 1 /\ j <= n + 1
  <2>1. n + 1 \in Stop
    OBVIOUS
  <2> QED
    BY <1>1, <2>1
<1>3. ASSUME NEW i \in 1 .. n PROVE gcmt[i] < c <=> i <= j - 1
  <2>1. CASE i < j
    BY <1>1, <1>2, <2>1
  <2>2. CASE ~(i < j)
    <3>1. j \in 1 .. n /\ ~(gcmt[j] < c)
      BY <1>1, <1>2, <2>2
    <3>2. i = j \/ gcmt[j] < gcmt[i]
      BY <1>2, <2>2, <3>1 DEF Increasing
    <3>3. gcmt[i] \in Nat /\ gcmt[j] \in Nat /\ c \in Nat
      BY <3>1, AddrNat
    <3>4. ~(gcmt[i] < c)
      BY <3>1, <3>2, <3>3
    <3> QED
      BY <1>2, <2>2, <3>4
  <2> QED
    BY <2>1, <2>2
<1>4. j - 1 \in 0 .. n
  BY <1>2
<1> QED
  BY <1>3, <1>4 DEF Below

(* gc_add_into_gcmt keeps the table sorted, and so does a removal.         *)
LEMMA AddedFacts ==
  ASSUME gcmt \in Seq(Addr), Increasing(gcmt), NEW c \in Addr, c \notin Mem(gcmt)
  PROVE  /\ Added(c) \in Seq(Addr) /\ Increasing(Added(c))
         /\ Mem(Added(c)) = Mem(gcmt) \cup {c}
<1> DEFINE n == Len(gcmt)
           g == Added(c)
<1>1. PICK k : Below(c, k)
  BY PlaceFor
<1>2. k \in 0 .. n /\ \A i \in 1 .. n : gcmt[i] < c <=> i <= k
  BY <1>1 DEF Below
<1>3. /\ g \in Seq(Addr) /\ Len(g) = n + 1
      /\ \A i \in 1 .. n + 1 :
           g[i] = IF i < k + 1 THEN gcmt[i] ELSE IF i = k + 1 THEN c ELSE gcmt[i - 1]
  <2>1. CASE gcmt = <<>>
    <3>1. n = 0 /\ k = 0 /\ g = <<c>>
      BY <1>2, <2>1 DEF Added
    <3> QED
      BY <3>1
  <2>2. CASE gcmt # <<>>
    <3>1. n - 1 \in 0 .. n - 1 /\ k <= (n - 1) + 1
      BY <1>2, <2>2
    <3>2. Search(0, n - 1, c) = k
      BY <1>1, <3>1, SearchFacts
    <3> DEFINE j == k + 1
    <3>3. g = InsertAt(gcmt, j, c) /\ j \in 1 .. n + 1
      BY <1>2, <2>2, <3>2 DEF Added
    <3> HIDE DEF g, j
    <3>4. IsInserted(Addr, gcmt, j, c, g)
      BY <3>3, InsertAtFacts
    <3> QED
      BY <3>4 DEF j, IsInserted
  <2> QED
    BY <2>1, <2>2
<1> HIDE DEF g
<1>4. Mem(g) = Mem(gcmt) \cup {c}
  <2>1. Mem(g) \subseteq Mem(gcmt) \cup {c}
    <3> SUFFICES ASSUME NEW i \in 1 .. n + 1, g[i] # c PROVE g[i] \in Mem(gcmt)
      BY <1>3 DEF Mem
    <3>1. CASE i < k + 1
      <4>1. i \in 1 .. n /\ g[i] = gcmt[i]
        BY <1>2, <1>3, <3>1
      <4> QED
        BY <4>1 DEF Mem
    <3>2. CASE ~(i < k + 1)
      <4>1. i - 1 \in 1 .. n /\ g[i] = gcmt[i - 1]
        BY <1>2, <1>3, <3>2
      <4> QED
        BY <4>1 DEF Mem
    <3> QED
      BY <3>1, <3>2
  <2>2. c \in Mem(g)
    <3>1. k + 1 \in 1 .. n + 1 /\ g[k + 1] = c
      BY <1>2, <1>3
    <3> QED
      BY <1>3, <3>1 DEF Mem
  <2>3. Mem(gcmt) \subseteq Mem(g)
    <3> SUFFICES ASSUME NEW i \in 1 .. n PROVE gcmt[i] \in Mem(g)
      BY DEF Mem
    <3>1. CASE i <= k
      <4>1. i \in 1 .. n + 1 /\ g[i] = gcmt[i]
        BY <1>2, <1>3, <3>1
      <4> QED
        BY <1>3, <4>1 DEF Mem
    <3>2. CASE ~(i <= k)
      <4>1. i + 1 \in 1 .. n + 1 /\ g[i + 1] = gcmt[(i + 1) - 1] /\ (i + 1) - 1 = i
        BY <1>2, <1>3, <3>2
      <4> QED
        BY <1>3, <4>1 DEF Mem
    <3> QED
      BY <3>1, <3>2
  <2> QED
    BY <2>1, <2>2, <2>3
<1>5. Increasing(g)
  <2> SUFFICES ASSUME NEW i \in 1 .. n + 1, NEW j \in 1 .. n + 1, i < j PROVE g[i] < g[j]
    BY <1>3 DEF Increasing
  <2>1. \A m, l \in 1 .. n : m < l => gcmt[m] < gcmt[l]
    BY DEF Increasing
  <2>2. \A m \in 1 .. n : gcmt[m] \in Nat /\ gcmt[m] # c
    BY AddrNat DEF Mem
  <2>3. c \in Nat /\ k \in Nat /\ n \in Nat
    BY <1>2, AddrNat
  <2>4. CASE j < k + 1
    <3>1. i \in 1 .. n /\ j \in 1 .. n /\ g[i] = gcmt[i] /\ g[j] = gcmt[j]
      BY <1>3, <2>3, <2>4, <1>2
    <3> QED
      BY <2>1, <3>1
  <2>5. CASE j = k + 1
    <3>1. i \in 1 .. n /\ i <= k /\ g[i] = gcmt[i] /\ g[j] = c
      BY <1>2, <1>3, <2>3, <2>5
    <3> QED
      BY <1>2, <3>1
  <2>6. CASE j > k + 1
    <3>1. j - 1 \in 1 .. n /\ g[j] = gcmt[j - 1] /\ ~(j - 1 <= k)
      BY <1>2, <1>3, <2>3, <2>6
    <3>2. c < gcmt[j - 1]
      BY <1>2, <2>2, <2>3, <3>1
    <3>3. CASE i < k + 1
      <4>1. i \in 1 .. n /\ i < j - 1 /\ g[i] = gcmt[i]
        BY <1>2, <1>3, <2>3, <2>6, <3>3
      <4> QED
        BY <2>1, <3>1, <4>1
    <3>4. CASE i = k + 1
      BY <1>3, <3>1, <3>2, <3>4
    <3>5. CASE i > k + 1
      <4>1. i - 1 \in 1 .. n /\ i - 1 < j - 1 /\ g[i] = gcmt[i - 1]
        BY <1>2, <1>3, <2>3, <3>1, <3>5
      <4> QED
        BY <2>1, <3>1, <4>1
    <3> QED
      BY <2>3, <3>3, <3>4, <3>5
  <2> QED
    BY <2>3, <2>4, <2>5, <2>6
<1> QED
  BY <1>3, <1>4, <1>5 DEF g

-----------------------------------------------------------------------------
(* What the table of chunks and the memory obtained from malloc keep:      *)
(* the chunks lie apart, each in a region that malloc gave; the header of  *)
(* the chunk at the start of a region holds the size of that region.       *)
ChunkEnd(ck, c) == c + ck[c].size
Cells(G, ck) ==
  /\ \A c \in G : /\ c \in Addr /\ ck[c].state \in {"used", "free"}
                  /\ ck[c].size \in Nat \ {0} /\ ck[c].isize \in Nat
  /\ \A c, d \in G : c < d => ChunkEnd(ck, c) <= d
Apart(rg) ==
  /\ IsFiniteSet(rg) /\ rg \subseteq Addr \X Nat
  /\ \A r \in rg : r[2] > 0 /\ r[1] + r[2] <= Memory + 1
  /\ \A r, s \in rg : r # s => (r[1] + r[2] <= s[1] \/ s[1] + s[2] <= r[1])
Regions(G, ck, rg) ==
  /\ \A c \in G : \E r \in rg : r[1] <= c /\ ChunkEnd(ck, c) <= r[1] + r[2]
  /\ \A c \in G : ck[c].isize # 0 => <<c, ck[c].isize>> \in rg
  /\ \A r \in rg : r[1] \in G /\ ck[r[1]].isize = r[2]
Table(G, ck, rg) == Cells(G, ck) /\ Apart(rg) /\ Regions(G, ck, rg)

(* A chunk may be shrunk, taken and given up.                              *)
LEMMA TableShrinks ==
  ASSUME NEW G, NEW ck, NEW rg, Table(G, ck, rg), NEW ck2,
         \A c \in G : /\ ck2[c].state \in {"used", "free"}
                      /\ ck2[c].size \in Nat \ {0} /\ ck2[c].size <= ck[c].size
                      /\ ck2[c].isize = ck[c].isize
  PROVE  Table(G, ck2, rg)
<1>1. \A c \in G : c \in Nat /\ ck[c].size \in Nat /\ ck2[c].size \in Nat
  BY AddrNat DEF Table, Cells
<1>2. \A c \in G : ChunkEnd(ck2, c) <= ChunkEnd(ck, c) /\ ChunkEnd(ck2, c) \in Nat /\ ChunkEnd(ck, c) \in Nat
  BY <1>1 DEF ChunkEnd
<1>3. Cells(G, ck2)
  <2>1. \A c, d \in G : c < d => ChunkEnd(ck2, c) <= d
    BY <1>1, <1>2 DEF Table, Cells
  <2> QED
    BY <2>1 DEF Table, Cells
<1>4. ASSUME NEW c \in G PROVE \E r \in rg : r[1] <= c /\ ChunkEnd(ck2, c) <= r[1] + r[2]
  <2>1. PICK r \in rg : r[1] <= c /\ ChunkEnd(ck, c) <= r[1] + r[2]
    BY DEF Table, Regions
  <2>2. r[1] \in Nat /\ r[2] \in Nat
    BY AddrNat DEF Table, Apart
  <2> QED
    BY <1>1, <1>2, <2>1, <2>2
<1>5. Regions(G, ck2, rg)
  BY <1>4 DEF Table, Regions
<1> QED
  BY <1>3, <1>5 DEF Table

LEMMA TableBounds ==
  ASSUME NEW G, NEW ck, NEW rg, Table(G, ck, rg), NEW c \in G
  PROVE  c \in Nat /\ c >= 1 /\ ck[c].size \in Nat /\ ChunkEnd(ck, c) <= Memory + 1
<1>1. c \in Nat /\ c >= 1 /\ ck[c].size \in Nat
  BY AddrNat DEF Table, Cells
<1>2. PICK r \in rg : r[1] <= c /\ ChunkEnd(ck, c) <= r[1] + r[2]
  BY DEF Table, Regions
<1>3. r[1] \in Nat /\ r[2] \in Nat /\ r[1] + r[2] <= Memory + 1
  BY AddrNat DEF Table, Apart
<1> QED
  BY <1>1, <1>2, <1>3, AddrNat DEF ChunkEnd

(* The end of c is split off as chunk d.                                   *)
LEMMA TableSplits ==
  ASSUME NEW G, NEW ck, NEW rg, Table(G, ck, rg), NEW ck2, NEW c \in G, NEW d \in Nat,
         c < d, d < ChunkEnd(ck, c),
         ck2[c].size = d - c, ck2[d].size = ChunkEnd(ck, c) - d,
         ck2[d].isize = 0, ck2[d].state = "used",
         ck2[c].isize = ck[c].isize, ck2[c].state = ck[c].state,
         \A b \in G \ {c} : ck2[b] = ck[b]
  PROVE  d \in Addr /\ d \notin G /\ Table(G \cup {d}, ck2, rg)
<1>1. \A b \in G : b \in Nat /\ b >= 1 /\ ck[b].size \in Nat /\ ChunkEnd(ck, b) <= Memory + 1
  BY TableBounds
<1>2. \A b \in G : ChunkEnd(ck, b) \in Nat
  BY <1>1 DEF ChunkEnd
<1>3. d \in Addr
  BY <1>1, <1>2, AddrNat DEF Addr
<1>4. d \notin G
  BY <1>1, <1>2 DEF Table, Cells
<1>5. ChunkEnd(ck2, c) = d /\ ChunkEnd(ck2, d) = ChunkEnd(ck, c)
  BY <1>1, <1>2 DEF ChunkEnd
<1>6. \A b \in G \ {c} : ChunkEnd(ck2, b) = ChunkEnd(ck, b)
  BY DEF ChunkEnd
<1>7. Cells(G \cup {d}, ck2)
  <2>1. \A b \in G \cup {d} : /\ b \in Addr /\ ck2[b].state \in {"used", "free"}
                              /\ ck2[b].size \in Nat \ {0} /\ ck2[b].isize \in Nat
    <3>1. d - c \in Nat \ {0} /\ ChunkEnd(ck, c) - d \in Nat \ {0}
      BY <1>1, <1>2
    <3> QED
      BY <1>3, <3>1 DEF Table, Cells
  <2>2. ASSUME NEW a \in G \cup {d}, NEW b \in G \cup {d}, a < b PROVE ChunkEnd(ck2, a) <= b
    <3>1. \A x, y \in G : x < y => ChunkEnd(ck, x) <= y
      BY DEF Table, Cells
    <3>2. CASE a = c /\ b = d
      BY <1>1, <1>5, <3>2
    <3>3. CASE a = c /\ b # d
      BY <1>1, <1>2, <1>5, <2>2, <3>1, <3>3
    <3>4. CASE a = d
      <4>1. b \in G /\ c < b
        BY <1>1, <2>2, <3>4
      <4> QED
        BY <1>5, <3>1, <3>4, <4>1
    <3>5. CASE a # c /\ a # d /\ b # d
      BY <1>6, <2>2, <3>1, <3>5
    <3>6. CASE a # c /\ a # d /\ b = d
      <4>1. a \in G /\ a \in Nat /\ c \in Nat
        BY <1>1, <3>6
      <4>2. ~(c < a)
        BY <1>1, <1>2, <2>2, <3>1, <3>6, <4>1
      <4>3. ChunkEnd(ck, a) <= c
        BY <3>1, <3>6, <4>1, <4>2
      <4> QED
        BY <1>2, <1>6, <3>6, <4>1, <4>3
    <3> QED
      BY <3>2, <3>3, <3>4, <3>5, <3>6
  <2> QED
    BY <2>1, <2>2 DEF Cells
<1>8. Regions(G \cup {d}, ck2, rg)
  <2>1. \A b \in G : \E r \in rg : r[1] <= b /\ ChunkEnd(ck, b) <= r[1] + r[2]
    BY DEF Table, Regions
  <2>2. PICK r \in rg : r[1] <= c /\ ChunkEnd(ck, c) <= r[1] + r[2]
    BY <2>1
  <2>3. r[1] \in Nat /\ r[2] \in Nat
    BY AddrNat DEF Table, Apart
  <2>4. r[1] <= d /\ ChunkEnd(ck2, d) <= r[1] + r[2] /\ ChunkEnd(ck2, c) <= r[1] + r[2]
    BY <1>1, <1>2, <1>5, <2>2, <2>3
  <2>5. \A b \in G \cup {d} : \E q \in rg : q[1] <= b /\ ChunkEnd(ck2, b) <= q[1] + q[2]
    <3> SUFFICES ASSUME NEW b \in G \cup {d}
                 PROVE  \E q \in rg : q[1] <= b /\ ChunkEnd(ck2, b) <= q[1] + q[2]
      OBVIOUS
    <3>1. CASE b = c \/ b = d
      BY <2>2, <2>4, <3>1
    <3>2. CASE b \in G \ {c}
      BY <1>6, <2>1, <3>2
    <3> QED
      BY <3>1, <3>2
  <2>6. \A b \in G \cup {d} : ck2[b].isize # 0 => <<b, ck2[b].isize>> \in rg
    BY DEF Table, Regions
  <2>7. \A q \in rg : q[1] \in G \cup {d} /\ ck2[q[1]].isize = q[2]
    BY DEF Table, Regions
  <2> QED
    BY <2>5, <2>6, <2>7 DEF Regions
<1> QED
  BY <1>3, <1>4, <1>7, <1>8 DEF Table

(* Chunk c is the region that malloc has just given.                       *)
LEMMA TableGrows ==
  ASSUME NEW G, NEW ck, NEW rg, Table(G, ck, rg), NEW ck2, NEW c \in Addr, NEW m \in Nat \ {0},
         c + m <= Memory + 1, \A r \in rg : c + m <= r[1] \/ r[1] + r[2] <= c,
         ck2[c].size = m, ck2[c].isize = m, ck2[c].state = "used",
         \A b \in G : b # c => ck2[b] = ck[b]
  PROVE  /\ c \notin G /\ <<c, m>> \notin rg
         /\ Table(G \cup {c}, ck2, rg \cup {<<c, m>>})
<1> DEFINE rg2 == rg \cup {<<c, m>>}
<1>0. c \in Nat /\ c >= 1 /\ Memory \in Nat
  BY AddrNat
<1>1. \A r \in rg : r \in Addr \X Nat /\ r[1] \in Nat /\ r[2] \in Nat /\ r[2] > 0
  BY AddrNat DEF Table, Apart
<1>2. \A b \in G : b \in Nat /\ b >= 1 /\ ck[b].size \in Nat \ {0}
  BY AddrNat DEF Table, Cells
<1>3. ASSUME NEW b \in G PROVE ChunkEnd(ck, b) <= c \/ c + m <= b
  <2>1. PICK r \in rg : r[1] <= b /\ ChunkEnd(ck, b) <= r[1] + r[2]
    BY DEF Table, Regions
  <2>2. c + m <= r[1] \/ r[1] + r[2] <= c
    OBVIOUS
  <2> QED
    BY <1>0, <1>1, <1>2, <2>1, <2>2 DEF ChunkEnd
<1>4. c \notin G
  BY <1>0, <1>2, <1>3 DEF ChunkEnd
<1>5. <<c, m>> \notin rg
  <2> SUFFICES ASSUME <<c, m>> \in rg PROVE FALSE
    OBVIOUS
  <2>1. c + m <= c
    OBVIOUS
  <2> QED
    BY <1>0, <2>1
<1>6. Cells(G \cup {c}, ck2)
  <2>1. \A b \in G \cup {c} : /\ b \in Addr /\ ck2[b].state \in {"used", "free"}
                              /\ ck2[b].size \in Nat \ {0} /\ ck2[b].isize \in Nat
    BY DEF Table, Cells
  <2>2. ASSUME NEW a \in G \cup {c}, NEW b \in G \cup {c}, a < b PROVE ChunkEnd(ck2, a) <= b
    <3>1. CASE a = c
      <4>1. b \in G
        BY <1>0, <2>2, <3>1
      <4>2. c + m <= b
        BY <1>0, <1>2, <1>3, <2>2, <3>1, <4>1 DEF ChunkEnd
      <4> QED
        BY <3>1, <4>2 DEF ChunkEnd
    <3>2. CASE a # c /\ b = c
      <4>1. ChunkEnd(ck, a) <= c \/ c + m <= a
        BY <1>3, <3>2
      <4> QED
        BY <1>0, <1>2, <2>2, <3>2, <4>1 DEF ChunkEnd
    <3>3. CASE a # c /\ b # c
      <4>1. ChunkEnd(ck, a) <= b
        BY <2>2, <3>3 DEF Table, Cells
      <4> QED
        BY <3>3, <4>1 DEF ChunkEnd
    <3> QED
      BY <3>1, <3>2, <3>3
  <2> QED
    BY <2>1, <2>2 DEF Cells
<1>7. Apart(rg2)
  <2>1. IsFiniteSet(rg2)
    BY FS_AddElement DEF Table, Apart
  <2>2. rg2 \subseteq Addr \X Nat /\ \A r \in rg2 : r[2] > 0 /\ r[1] + r[2] <= Memory + 1
    BY DEF Table, Apart
  <2>3. ASSUME NEW r \in rg2, NEW s \in rg2, r # s
        PROVE  r[1] + r[2] <= s[1] \/ s[1] + s[2] <= r[1]
    <3>1. CASE r \in rg /\ s \in rg
      BY <2>3, <3>1 DEF Table, Apart
    <3>2. CASE r = <<c, m>> /\ s \in rg
      BY <3>2
    <3>3. CASE s = <<c, m>> /\ r \in rg
      BY <3>3
    <3> QED
      BY <2>3, <3>1, <3>2, <3>3
  <2> HIDE DEF rg2
  <2> QED
    BY <2>1, <2>2, <2>3 DEF Apart
<1>8. Regions(G \cup {c}, ck2, rg2)
  <2>1. \A b \in G \cup {c} : \E r \in rg2 : r[1] <= b /\ ChunkEnd(ck2, b) <= r[1] + r[2]
    <3> SUFFICES ASSUME NEW b \in G \cup {c}
                 PROVE  \E r \in rg2 : r[1] <= b /\ ChunkEnd(ck2, b) <= r[1] + r[2]
      OBVIOUS
    <3>1. CASE b = c
      <4>1. <<c, m>>[1] <= c /\ ChunkEnd(ck2, c) <= <<c, m>>[1] + <<c, m>>[2]
        BY <1>0 DEF ChunkEnd
      <4> QED
        BY <3>1, <4>1
    <3>2. CASE b # c
      <4>1. PICK r \in rg : r[1] <= b /\ ChunkEnd(ck, b) <= r[1] + r[2]
        BY <3>2 DEF Table, Regions
      <4> QED
        BY <3>2, <4>1 DEF ChunkEnd
    <3> QED
      BY <3>1, <3>2
  <2>2. \A b \in G \cup {c} : ck2[b].isize # 0 => <<b, ck2[b].isize>> \in rg2
    BY DEF Table, Regions
  <2>3. \A r \in rg2 : r[1] \in G \cup {c} /\ ck2[r[1]].isize = r[2]
    <3>1. \A r \in rg : r[1] \in G /\ ck[r[1]].isize = r[2]
      BY DEF Table, Regions
    <3>2. \A r \in rg : r[1] # c
      BY <1>4, <3>1
    <3> QED
      BY <3>1, <3>2
  <2> HIDE DEF rg2
  <2> QED
    BY <2>1, <2>2, <2>3 DEF Regions
<1> QED
  BY <1>4, <1>5, <1>6, <1>7, <1>8 DEF Table

(* Chunk d, which was split off, joins the chunk before it.                *)
LEMMA TableMerges ==
  ASSUME NEW G, NEW ck, NEW rg, Table(G, ck, rg), NEW ck2, NEW c \in G, NEW d \in G,
         ChunkEnd(ck, c) = d, ck[d].isize = 0,
         ck2[c].size = ck[c].size + ck[d].size,
         ck2[c].isize = ck[c].isize, ck2[c].state = ck[c].state,
         \A b \in G \ {c, d} : ck2[b] = ck[b]
  PROVE  Table(G \ {d}, ck2, rg)
<1>1. \A b \in G : b \in Nat /\ b >= 1 /\ ck[b].size \in Nat \ {0}
  BY AddrNat DEF Table, Cells
<1>2. c < d /\ ChunkEnd(ck2, c) = ChunkEnd(ck, d)
  BY <1>1 DEF ChunkEnd
<1>3. \A a, b \in G : a < b => ChunkEnd(ck, a) <= b
  BY DEF Table, Cells
<1>4. \A b \in G \ {c, d} : ChunkEnd(ck2, b) = ChunkEnd(ck, b)
  BY DEF ChunkEnd
<1>5. Cells(G \ {d}, ck2)
  <2>1. \A b \in G \ {d} : /\ b \in Addr /\ ck2[b].state \in {"used", "free"}
                           /\ ck2[b].size \in Nat \ {0} /\ ck2[b].isize \in Nat
    <3>1. ck2[c].size \in Nat \ {0}
      BY <1>1
    <3> QED
      BY <3>1 DEF Table, Cells
  <2>2. ASSUME NEW a \in G \ {d}, NEW b \in G \ {d}, a < b PROVE ChunkEnd(ck2, a) <= b
    <3>1. CASE a = c
      <4>1. d <= b
        BY <1>3, <2>2, <3>1
      <4>2. d < b
        BY <1>1, <4>1
      <4> QED
        BY <1>2, <1>3, <3>1, <4>2
    <3>2. CASE a # c
      BY <1>3, <1>4, <2>2, <3>2
    <3> QED
      BY <3>1, <3>2
  <2> QED
    BY <2>1, <2>2 DEF Cells
<1>6. \E r \in rg : r[1] <= c /\ ChunkEnd(ck, d) <= r[1] + r[2]
  <2>1. PICK r \in rg : r[1] <= c /\ d <= r[1] + r[2]
    BY DEF Table, Regions
  <2>2. PICK s \in rg : s[1] <= d /\ ChunkEnd(ck, d) <= s[1] + s[2]
    BY DEF Table, Regions
  <2>3. r[1] \in Nat /\ r[2] \in Nat /\ s[1] \in Nat /\ s[2] \in Nat /\ s[2] > 0
    BY AddrNat DEF Table, Apart
  <2>4. s[1] # d
    <3>1. ck[s[1]].isize = s[2]
      BY DEF Table, Regions
    <3> QED
      BY <2>3, <3>1
  <2>5. CASE r = s
    BY <2>1, <2>2, <2>5
  <2>6. CASE r # s
    <3>1. r[1] + r[2] <= s[1] \/ s[1] + s[2] <= r[1]
      BY <2>6 DEF Table, Apart
    <3>2. ChunkEnd(ck, d) \in Nat /\ ChunkEnd(ck, d) > d
      BY <1>1 DEF ChunkEnd
    <3> QED
      BY <1>1, <1>2, <2>1, <2>2, <2>3, <2>4, <3>1, <3>2
  <2> QED
    BY <2>5, <2>6
<1>7. Regions(G \ {d}, ck2, rg)
  <2>1. \A b \in G \ {d} : \E r \in rg : r[1] <= b /\ ChunkEnd(ck2, b) <= r[1] + r[2]
    <3> SUFFICES ASSUME NEW b \in G \ {d}
                 PROVE  \E r \in rg : r[1] <= b /\ ChunkEnd(ck2, b) <= r[1] + r[2]
      OBVIOUS
    <3>1. CASE b = c
      BY <1>2, <1>6, <3>1
    <3>2. CASE b # c
      <4>1. \E r \in rg : r[1] <= b /\ ChunkEnd(ck, b) <= r[1] + r[2]
        BY DEF Table, Regions
      <4> QED
        BY <1>4, <3>2, <4>1
    <3> QED
      BY <3>1, <3>2
  <2>2. \A b \in G \ {d} : ck2[b].isize # 0 => <<b, ck2[b].isize>> \in rg
    BY DEF Table, Regions
  <2>3. \A r \in rg : r[1] \in G \ {d} /\ ck2[r[1]].isize = r[2]
    <3>1. \A r \in rg : r[1] \in G /\ ck[r[1]].isize = r[2] /\ r[2] \in Nat /\ r[2] > 0
      BY DEF Table, Regions, Apart
    <3>2. \A r \in rg : r[1] # d
      BY <3>1
    <3> QED
      BY <3>1, <3>2
  <2> QED
    BY <2>1, <2>2, <2>3 DEF Regions
<1> QED
  BY <1>5, <1>7 DEF Table

(* Chunk c, which nothing was split off, is given back.                    *)
Returned(rg, c) == {r \in rg : r[1] # c}
SameBut(G, c, ck, ck2) == \A b \in G \ {c} : ck2[b] = ck[b]
WholeOf(ck, c) == ck[c].isize = ck[c].size
FreedWell(G, c, ck2, rg) ==
  /\ Table(G \ {c}, ck2, Returned(rg, c))
  /\ Cardinality(Returned(rg, c)) = Cardinality(rg) - 1

LEMMA TableFrees ==
  ASSUME NEW G, NEW ck, NEW rg, Table(G, ck, rg), NEW ck2, NEW c \in G,
         WholeOf(ck, c), SameBut(G, c, ck, ck2)
  PROVE  FreedWell(G, c, ck2, rg)
<1> DEFINE q == <<c, ck[c].size>>
           rg2 == {r \in rg : r[1] # c}
<1>1. \A b \in G : b \in Nat /\ b >= 1 /\ ck[b].size \in Nat \ {0}
  BY AddrNat DEF Table, Cells
<1>0. ck[c].isize = ck[c].size /\ \A b \in G \ {c} : ck2[b] = ck[b]
  BY DEF WholeOf, SameBut
<1>2. q \in rg
  BY <1>0, <1>1 DEF Table, Regions
<1>3. rg2 = rg \ {q}
  <2>1. \A r \in rg : r[1] = c => r[2] = ck[c].size
    BY <1>0 DEF Table, Regions
  <2>2. \A r \in rg : r = <<r[1], r[2]>>
    BY DEF Table, Apart
  <2> QED
    BY <2>1, <2>2
<1>4. \A r \in rg : r[1] \in Nat /\ r[2] \in Nat /\ r[2] > 0
  BY AddrNat DEF Table, Apart
<1>5. ASSUME NEW b \in G \ {c} PROVE \E r \in rg2 : r[1] <= b /\ ChunkEnd(ck2, b) <= r[1] + r[2]
  <2>1. PICK r \in rg : r[1] <= b /\ ChunkEnd(ck, b) <= r[1] + r[2]
    BY DEF Table, Regions
  <2>2. r # q
    <3> SUFFICES ASSUME r = q PROVE FALSE
      OBVIOUS
    <3>1. c <= b /\ ChunkEnd(ck, b) <= ChunkEnd(ck, c)
      BY <2>1 DEF ChunkEnd
    <3>2. c < b
      BY <1>1, <3>1
    <3>3. ChunkEnd(ck, c) <= b
      BY <3>2 DEF Table, Cells
    <3> QED
      BY <1>1, <3>1, <3>3 DEF ChunkEnd
  <2>3. ChunkEnd(ck2, b) = ChunkEnd(ck, b)
    BY <1>0 DEF ChunkEnd
  <2> HIDE DEF rg2, q
  <2> QED
    BY <1>3, <2>1, <2>2, <2>3
<1>6. Cells(G \ {c}, ck2)
  <2>1. \A b \in G \ {c} : ChunkEnd(ck2, b) = ChunkEnd(ck, b)
    BY <1>0 DEF ChunkEnd
  <2> QED
    BY <1>0, <2>1 DEF Table, Cells
<1>7. IsFiniteSet(rg2) /\ Cardinality(rg2) = Cardinality(rg) - 1
  <2> HIDE DEF rg2, q
  <2> QED
    BY <1>2, <1>3, FS_RemoveElement DEF Table, Apart
<1>8. Apart(rg2)
  BY <1>7 DEF Table, Apart
<1>9. Regions(G \ {c}, ck2, rg2)
  <2>1. \A b \in G \ {c} : ck2[b].isize # 0 => <<b, ck2[b].isize>> \in rg2
    BY <1>0 DEF Table, Regions
  <2>2. \A r \in rg2 : r[1] \in G \ {c} /\ ck2[r[1]].isize = r[2]
    BY <1>0 DEF Table, Regions
  <2> HIDE DEF rg2
  <2> QED
    BY <1>5, <2>1, <2>2 DEF Regions
<1> HIDE DEF rg2
<1>10. Table(G \ {c}, ck2, rg2) /\ Cardinality(rg2) = Cardinality(rg) - 1
  BY <1>6, <1>7, <1>8, <1>9 DEF Table
<1> QED
  BY <1>10 DEF rg2, Returned, FreedWell
-----------------------------------------------------------------------------
(* The header of a chunk is a record of five fields; only what a step      *)
(* assigns changes.                                                        *)
Header(s, n, i, t, f) == [state |-> s, size |-> n, isize |-> i, nae |-> t, flol |-> f]
IsHeader(h) == h = Header(h.state, h.size, h.isize, h.nae, h.flol)
Shape(ck) ==
  ck = [a \in Addr |-> Header(ck[a].state, ck[a].size, ck[a].isize, ck[a].nae, ck[a].flol)]
SameSizes(ck, ck2, G) ==
  \A c \in G : /\ ck2[c].state = ck[c].state
               /\ ck2[c].size = ck[c].size /\ ck2[c].isize = ck[c].isize

LEMMA ShapeFacts ==
  ASSUME NEW ck, Shape(ck), NEW c \in Addr
  PROVE  IsHeader(ck[c])
<1> DEFINE H(a) == Header(ck[a].state, ck[a].size, ck[a].isize, ck[a].nae, ck[a].flol)
<1>1. ck = [a \in Addr |-> H(a)]
  BY DEF Shape
<1> HIDE DEF H
<1>2. ck[c] = H(c)
  BY <1>1
<1> QED
  BY <1>2 DEF H, IsHeader

LEMMA HeaderFields ==
  ASSUME NEW h, IsHeader(h), NEW v
  PROVE  /\ [h EXCEPT !.flol = v] = Header(h.state, h.size, h.isize, h.nae, v)
         /\ [h EXCEPT !.state = v] = Header(v, h.size, h.isize, h.nae, h.flol)
         /\ [h EXCEPT !.size = v] = Header(h.state, v, h.isize, h.nae, h.flol)
         /\ [h EXCEPT !.isize = v] = Header(h.state, h.size, v, h.nae, h.flol)
<1>1. PICK s, n, i, t, f : h = Header(s, n, i, t, f)
  BY DEF IsHeader
<1>2. h.state = s /\ h.size = n /\ h.isize = i /\ h.nae = t /\ h.flol = f
  BY <1>1 DEF Header
<1>3. [h EXCEPT !.flol = v] = Header(s, n, i, t, v)
  BY <1>1 DEF Header
<1>4. [h EXCEPT !.state = v] = Header(v, n, i, t, f)
  BY <1>1 DEF Header
<1>5. [h EXCEPT !.size = v] = Header(s, v, i, t, f)
  BY <1>1 DEF Header
<1>6. [h EXCEPT !.isize = v] = Header(s, n, v, t, f)
  BY <1>1 DEF Header
<1> QED
  BY <1>2, <1>3, <1>4, <1>5, <1>6

LEMMA PutHeader ==
  ASSUME NEW ck, Shape(ck), NEW c, NEW s, NEW n, NEW i, NEW t, NEW f
  PROVE  LET ck2 == [ck EXCEPT ![c] = Header(s, n, i, t, f)] IN
         /\ Shape(ck2) /\ (c \in Addr => ck2[c] = Header(s, n, i, t, f))
         /\ \A a \in Addr : a # c => ck2[a] = ck[a]
<1> DEFINE r == Header(s, n, i, t, f)
           ck2 == [ck EXCEPT ![c] = r]
           H(k, a) == Header(k[a].state, k[a].size, k[a].isize, k[a].nae, k[a].flol)
<1>1. ck = [a \in Addr |-> ck[a]]
  <2>1. ck = [a \in Addr |-> H(ck, a)]
    BY DEF Shape
  <2> HIDE DEF H
  <2> QED
    BY <2>1
<1> HIDE DEF r
<1>2. /\ ck2 = [a \in Addr |-> ck2[a]] /\ (c \in Addr => ck2[c] = r)
      /\ \A a \in Addr : a # c => ck2[a] = ck[a]
  BY <1>1
<1> HIDE DEF ck2
<1>3. ASSUME NEW a \in Addr PROVE ck2[a] = H(ck2, a)
  <2>1. CASE a = c
    BY <1>2, <2>1 DEF r, Header
  <2>2. CASE a # c
    BY <1>2, <2>2, ShapeFacts DEF IsHeader
  <2> QED
    BY <2>1, <2>2
<1>4. Shape(ck2)
  <2>1. ck2 = [a \in Addr |-> H(ck2, a)]
    <3> HIDE DEF H
    <3> QED
      BY <1>2, <1>3
  <2> QED
    BY <2>1 DEF Shape
<1> QED
  BY <1>2, <1>4 DEF ck2, r

LEMMA StateChanged ==
  ASSUME NEW ck, Shape(ck), NEW c \in Addr, NEW s
  PROVE  LET ck2 == [ck EXCEPT ![c].state = s] IN
         /\ Shape(ck2) /\ ck2[c] = Header(s, ck[c].size, ck[c].isize, ck[c].nae, ck[c].flol)
         /\ \A a \in Addr : a # c => ck2[a] = ck[a]
<1> DEFINE h == ck[c]
           u == [h EXCEPT !.state = s]
<1>1. IsHeader(h)
  BY ShapeFacts
<1> HIDE DEF h
<1>2. u = Header(s, h.size, h.isize, h.nae, h.flol)
  BY <1>1, HeaderFields
<1>3. [ck EXCEPT ![c].state = s] = [ck EXCEPT ![c] = u]
  BY DEF h
<1>4. [ck EXCEPT ![c].state = s] = [ck EXCEPT ![c] = Header(s, h.size, h.isize, h.nae, h.flol)]
  BY <1>2, <1>3
<1> HIDE DEF u
<1> QED
  BY <1>4, PutHeader DEF h

LEMMA SizeChanged ==
  ASSUME NEW ck, Shape(ck), NEW c \in Addr, NEW n
  PROVE  LET ck2 == [ck EXCEPT ![c].size = n] IN
         /\ Shape(ck2) /\ ck2[c] = Header(ck[c].state, n, ck[c].isize, ck[c].nae, ck[c].flol)
         /\ \A a \in Addr : a # c => ck2[a] = ck[a]
<1> DEFINE h == ck[c]
           u == [h EXCEPT !.size = n]
<1>1. IsHeader(h)
  BY ShapeFacts
<1> HIDE DEF h
<1>2. u = Header(h.state, n, h.isize, h.nae, h.flol)
  BY <1>1, HeaderFields
<1>3. [ck EXCEPT ![c].size = n] = [ck EXCEPT ![c] = u]
  BY DEF h
<1>4. [ck EXCEPT ![c].size = n] = [ck EXCEPT ![c] = Header(h.state, n, h.isize, h.nae, h.flol)]
  BY <1>2, <1>3
<1> HIDE DEF u
<1> QED
  BY <1>4, PutHeader DEF h

LEMMA IsizeChanged ==
  ASSUME NEW ck, Shape(ck), NEW c \in Addr, NEW n
  PROVE  LET ck2 == [ck EXCEPT ![c].isize = n] IN
         /\ Shape(ck2) /\ ck2[c] = Header(ck[c].state, ck[c].size, n, ck[c].nae, ck[c].flol)
         /\ \A a \in Addr : a # c => ck2[a] = ck[a]
<1> DEFINE h == ck[c]
           u == [h EXCEPT !.isize = n]
<1>1. IsHeader(h)
  BY ShapeFacts
<1> HIDE DEF h
<1>2. u = Header(h.state, h.size, n, h.nae, h.flol)
  BY <1>1, HeaderFields
<1>3. [ck EXCEPT ![c].isize = n] = [ck EXCEPT ![c] = u]
  BY DEF h
<1>4. [ck EXCEPT ![c].isize = n] = [ck EXCEPT ![c] = Header(h.state, h.size, n, h.nae, h.flol)]
  BY <1>2, <1>3
<1> HIDE DEF u
<1> QED
  BY <1>4, PutHeader DEF h

LEMMA UsedFacts ==
  ASSUME NEW ck, Shape(ck), NEW c \in Addr, NEW n, NEW t
  PROVE  LET ck2 == Used(ck, c, n, t) IN
         /\ Shape(ck2) /\ ck2[c] = Header("used", n, ck[c].isize, t, <<>>)
         /\ \A a \in Addr : a # c => ck2[a] = ck[a]
<1> DEFINE Put(x, m, i, d, e) ==
             LET ck2 == [ck EXCEPT ![c] = Header(x, m, i, d, e)] IN
             /\ Shape(ck2) /\ ck2[c] = Header(x, m, i, d, e)
             /\ \A a \in Addr : a # c => ck2[a] = ck[a]
<1>1. \A x, m, i, d, e : Put(x, m, i, d, e)
  BY PutHeader
<1>2. PICK s0, n0, i, t0, f0 : ck[c] = Header(s0, n0, i, t0, f0)
  BY ShapeFacts DEF IsHeader
<1>3. ck[c].isize = i
  BY <1>2 DEF Header
<1>4. [ck[c] EXCEPT !.state = "used", !.size = n, !.nae = t, !.flol = <<>>]
        = Header("used", n, i, t, <<>>)
  <2> DEFINE h1 == [ck[c] EXCEPT !.state = "used"]
             h2 == [h1 EXCEPT !.size = n]
             h3 == [h2 EXCEPT !.nae = t]
             h4 == [h3 EXCEPT !.flol = <<>>]
  <2>1. h1 = Header("used", n0, i, t0, f0)
    BY <1>2 DEF Header
  <2>2. h2 = Header("used", n, i, t0, f0)
    <3> HIDE DEF h1
    <3> QED
      BY <2>1 DEF Header
  <2>3. h3 = Header("used", n, i, t, f0)
    <3> HIDE DEF h2
    <3> QED
      BY <2>2 DEF Header
  <2>4. h4 = Header("used", n, i, t, <<>>)
    <3> HIDE DEF h3
    <3> QED
      BY <2>3 DEF Header
  <2>5. [ck[c] EXCEPT !.state = "used", !.size = n, !.nae = t, !.flol = <<>>] = h4
    OBVIOUS
  <2> QED
    BY <2>4, <2>5
<1>5. Used(ck, c, n, t) = [ck EXCEPT ![c] = Header("used", n, i, t, <<>>)]
  BY <1>4 DEF Used
<1>6. Put("used", n, i, t, <<>>)
  <2> HIDE DEF Put
  <2> QED
    BY <1>1
<1> QED
  BY <1>3, <1>5, <1>6

LEMMA FlolPut ==
  ASSUME NEW ck, Shape(ck), NEW c \in Addr, NEW f
  PROVE  LET ck2 == [ck EXCEPT ![c].flol = f] IN
         /\ Shape(ck2) /\ ck2[c] = Header(ck[c].state, ck[c].size, ck[c].isize, ck[c].nae, f)
         /\ \A a \in Addr : a # c => ck2[a] = ck[a]
<1> DEFINE h == ck[c]
           u == [h EXCEPT !.flol = f]
<1>1. IsHeader(h)
  BY ShapeFacts
<1> HIDE DEF h
<1>2. u = Header(h.state, h.size, h.isize, h.nae, f)
  BY <1>1, HeaderFields
<1>3. [ck EXCEPT ![c].flol = f] = [ck EXCEPT ![c] = u]
  BY DEF h
<1>4. [ck EXCEPT ![c].flol = f] = [ck EXCEPT ![c] = Header(h.state, h.size, h.isize, h.nae, f)]
  BY <1>2, <1>3
<1> HIDE DEF u
<1> QED
  BY <1>4, PutHeader DEF h

(* A list is changed, of a chunk or, in vain, of no chunk.                  *)
LEMMA FlolChanged ==
  ASSUME NEW ck, Shape(ck), NEW c, NEW f
  PROVE  LET ck2 == [ck EXCEPT ![c].flol = f] IN
         Shape(ck2) /\ SameSizes(ck, ck2, Addr) /\ \A a \in Addr : ck2[a].nae = ck[a].nae
<1> DEFINE ck2 == [ck EXCEPT ![c].flol = f]
<1>1. CASE c \in Addr
  <2>1. /\ Shape(ck2) /\ ck2[c] = Header(ck[c].state, ck[c].size, ck[c].isize, ck[c].nae, f)
        /\ \A a \in Addr : a # c => ck2[a] = ck[a]
    BY <1>1, FlolPut
  <2> HIDE DEF ck2
  <2>2. SameSizes(ck, ck2, Addr) /\ \A a \in Addr : ck2[a].nae = ck[a].nae
    BY <1>1, <2>1 DEF SameSizes, Header
  <2> QED
    BY <2>1, <2>2 DEF ck2
<1>2. CASE c \notin Addr
  <2>1. ck = [a \in Addr |-> ck[a]]
    BY DEF Shape
  <2>2. ck2 = ck
    BY <1>2, <2>1
  <2> HIDE DEF ck2
  <2>3. Shape(ck2) /\ SameSizes(ck, ck2, Addr) /\ \A a \in Addr : ck2[a].nae = ck[a].nae
    BY <2>2 DEF SameSizes
  <2> QED
    BY <2>3 DEF ck2
<1> QED
  BY <1>1, <1>2
-----------------------------------------------------------------------------
(* The free list of chunks.  At rest and while marking it has every free   *)
(* chunk; gc_sweep rebuilds it as it goes through the table, and           *)
(* may_free_rsocfl takes it apart, from the last chunk to the first.       *)
FreeIn(G, ck) == {c \in G : ck[c].state = "free"}
Sweeping == {"enter", "sweep", "link", "free"}
Rebuilding == {"enter", "sweep", "link"}

FreeLists ==
  /\ pc \notin Sweeping => Once(rsocfl) /\ Mem(rsocfl) = FreeIn(Mem(gcmt), chunk)
  /\ pc \in Rebuilding =>
       /\ p1 \in 1 .. Len(gcmt) + 1
       /\ Decreasing(rsocfl) /\ Mem(rsocfl) = FreeIn(Before(gcmt, p1), chunk)
  /\ pc \in {"sweep", "link"} => p1 <= Len(gcmt)
  /\ pc = "sweep" => chunk[cur].state = "used"
  /\ pc = "free" =>
       /\ Decreasing(rest) /\ Once(rsocfl) /\ Mem(rest) \cap Mem(rsocfl) = {}
       /\ Mem(rest) \cup Mem(rsocfl) = FreeIn(Mem(gcmt), chunk)
       /\ where \in 0 .. Len(gcmt) /\ Mem(rest) \subseteq Before(gcmt, where + 1)

TableInv ==
  /\ gcmt \in Seq(Addr) /\ Increasing(gcmt)
  /\ rsocfl \in Seq(Addr) /\ rest \in Seq(Addr) /\ pc \in Pc
  /\ Shape(chunk) /\ Table(Mem(gcmt), chunk, regions)
  /\ rsoc_count = Cardinality(regions)
  /\ FreeLists

LEMMA TableInit == ASSUME Init PROVE TableInv
<1>1. gcmt = <<>> /\ rsocfl = <<>> /\ rest = <<>> /\ regions = {} /\ pc = "run" /\ rsoc_count = 0
  BY DEF Init
<1>2. Mem(gcmt) = {} /\ Mem(rsocfl) = {} /\ Increasing(gcmt) /\ Once(rsocfl)
  BY <1>1 DEF Mem, Increasing, Once
<1>3. Shape(chunk)
  <2>1. chunk = [a \in Addr |-> NoChunk]
    BY DEF Init
  <2> DEFINE H(a) == Header(chunk[a].state, chunk[a].size, chunk[a].isize, chunk[a].nae, chunk[a].flol)
  <2>2. \A a \in Addr : H(a) = NoChunk
    BY <2>1 DEF Header, NoChunk
  <2>3. chunk = [a \in Addr |-> H(a)]
    <3> HIDE DEF H
    <3> QED
      BY <2>1, <2>2
  <2> QED
    BY <2>3 DEF Shape
<1>4. Cells({}, chunk) /\ Regions({}, chunk, {})
  BY DEF Cells, Regions
<1>5. Apart({}) /\ rsoc_count = Cardinality(regions)
  BY <1>1, FS_EmptySet DEF Apart
<1>6. Table(Mem(gcmt), chunk, regions)
  BY <1>1, <1>2, <1>4, <1>5 DEF Table
<1>7. FreeLists
  BY <1>1, <1>2 DEF FreeLists, FreeIn, Sweeping, Rebuilding
<1> QED
  BY <1>1, <1>2, <1>3, <1>5, <1>6, <1>7 DEF TableInv, Pc

(* The steps that leave the table and the states of the chunks alone.      *)
LEMMA SameTable ==
  ASSUME NEW G, NEW ck, NEW rg, Table(G, ck, rg), NEW ck2, SameSizes(ck, ck2, G)
  PROVE  Table(G, ck2, rg) /\ \A S \in SUBSET G : FreeIn(S, ck2) = FreeIn(S, ck)
<1>1. \A c \in G : /\ ck2[c].state \in {"used", "free"} /\ ck2[c].size \in Nat \ {0}
                   /\ ck2[c].size <= ck[c].size /\ ck2[c].isize = ck[c].isize
  BY DEF Table, Cells, SameSizes
<1>2. Table(G, ck2, rg)
  BY <1>1, TableShrinks
<1> QED
  BY <1>2 DEF FreeIn, SameSizes

LEMMA MemAddr == ASSUME TableInv PROVE Mem(gcmt) \subseteq Addr
BY DEF TableInv, Mem

LEMMA QuietStep ==
  ASSUME TableInv, gcmt' = gcmt, rsocfl' = rsocfl, rest' = rest, rsoc_count' = rsoc_count,
         regions' = regions, Shape(chunk'), SameSizes(chunk, chunk', Addr),
         pc \notin Sweeping, pc' \in Pc, pc' \notin Sweeping
  PROVE  TableInv'
<1>1. SameSizes(chunk, chunk', Mem(gcmt))
  BY MemAddr DEF SameSizes
<1>2. Table(Mem(gcmt), chunk', regions) /\ FreeIn(Mem(gcmt), chunk') = FreeIn(Mem(gcmt), chunk)
  BY <1>1, SameTable DEF TableInv
<1>3. Mem(gcmt)' = Mem(gcmt) /\ Mem(rsocfl)' = Mem(rsocfl) /\ Once(rsocfl)' = Once(rsocfl)
  BY DEF Mem, Once
<1>4. FreeLists'
  BY <1>2, <1>3 DEF TableInv, FreeLists, FreeIn, Sweeping, Rebuilding
<1> QED
  BY <1>2, <1>3, <1>4 DEF TableInv, Increasing

LEMMA SameChunks == ASSUME TableInv, chunk' = chunk PROVE Shape(chunk') /\ SameSizes(chunk, chunk', Addr)
BY DEF TableInv, SameSizes

LEMMA FromStoreQuiet ==
  ASSUME NEW t, NEW e, NEW n, NEW w, FromStore(t, e, n, w)
  PROVE  pc' = "run" /\ rest' = rest
BY DEF FromStore, Return, sweepVars

LEMMA GetStoreTable ==
  ASSUME TableInv, pc \notin Sweeping, NEW c, NEW t, NEW n, NEW w, GetStoreIn(c, t, n, w)
  PROVE  TableInv'
<1>1. pc' = "run" /\ rest' = rest
  BY FromStoreQuiet DEF GetStoreIn
<1>2. UNCHANGED <<gcmt, rsocfl, rsoc_count, regions>>
  BY DEF GetStoreIn
<1>3. Shape(chunk') /\ SameSizes(chunk, chunk', Addr)
  <2>1. PICK f : chunk' = [chunk EXCEPT ![c].flol = f]
    BY DEF GetStoreIn
  <2>2. Shape(chunk)
    BY DEF TableInv
  <2> QED
    BY <2>1, <2>2, FlolChanged
<1> QED
  BY <1>1, <1>2, <1>3, QuietStep DEF Pc, Sweeping

LEMMA NewNaTable ==
  ASSUME TableInv, NEW t, NEW n, NEW w, NewNa(t, n, w) PROVE TableInv'
<1>1. pc = "run" /\ pc' = "new" /\ UNCHANGED <<gcmt, rsocfl, rsoc_count, regions, rest>>
  BY DEF NewNa, sweepVars, histVars
<1>2. chunk' = chunk \/ \E c, f : chunk' = [chunk EXCEPT ![c].flol = f]
  BY DEF NewNa
<1>3. Shape(chunk') /\ SameSizes(chunk, chunk', Addr)
  <2>1. CASE chunk' = chunk
    BY <2>1, SameChunks
  <2>2. CASE chunk' # chunk
    <3>1. PICK c, f : chunk' = [chunk EXCEPT ![c].flol = f]
      BY <1>2, <2>2
    <3> QED
      BY <3>1, FlolChanged DEF TableInv
  <2> QED
    BY <2>1, <2>2
<1> QED
  BY <1>1, <1>3, QuietStep DEF Pc, Sweeping

(* GcStart and the marking do not touch the chunks.                        *)
LEMMA GcStartTable ==
  ASSUME TableInv, pc \notin Sweeping, NEW r, GcStart(r) PROVE TableInv'
<1>1. UNCHANGED <<gcmt, chunk, rsocfl, rsoc_count, regions, rest>>
  BY DEF GcStart, sweepVars, histVars
<1>2. pc' \in {"run", "resume", "mark"}
  BY DEF GcStart
<1> QED
  BY <1>1, <1>2, SameChunks, QuietStep DEF Pc, Sweeping

LEMMA MarkTable ==
  ASSUME TableInv, SkipWord \/ MarkLarge \/ StartWalk \/ Walk \/ EndWalk PROVE TableInv'
<1>1. UNCHANGED <<gcmt, chunk, rsocfl, rsoc_count, regions, rest>>
  BY DEF SkipWord, MarkLarge, StartWalk, Walk, EndWalk, NextWord, MarkVarsRest, sweepVars, histVars
<1>2. pc \in {"mark", "walk"} /\ pc' \in {"mark", "walk"}
  BY DEF SkipWord, MarkLarge, StartWalk, Walk, EndWalk, NextWord
<1> QED
  BY <1>1, <1>2, SameChunks, QuietStep DEF Pc, Sweeping

LEMMA ProgramTable == ASSUME TableInv, Program \/ Halted PROVE TableInv'
<1>1. UNCHANGED <<gcmt, chunk, rsocfl, rsoc_count, regions, rest>>
  BY DEF Program, LeaveScope, Assign, Switch, Exit, progRest, memVars, sweepVars, histVars,
         Halted, vars
<1>2. pc \in {"run", "halt"} /\ pc' \in {"run", "halt"}
  BY DEF Program, LeaveScope, Assign, Switch, Exit, Halted, vars
<1> QED
  BY <1>1, <1>2, SameChunks, QuietStep DEF Pc, Sweeping

(* A chunk that fits is found in a list of chunks that has one.            *)
LEMMA BestFitFacts ==
  ASSUME NEW n \in Nat, \A i \in DOMAIN rsocfl : chunk[rsocfl[i]].size \in Nat,
         rsocfl \in Seq(Addr), ChunkFits(n) # {}
  PROVE  BestFit(n) \in ChunkFits(n)
<1> DEFINE sz(i) == chunk[rsocfl[i]].size
           F == ChunkFits(n)
           good == {i \in F : sz(i) - n <= AcceptableLoss(n)}
           least == {i \in F : \A j \in F : sz(i) <= sz(j)}
<1>1. F \in SUBSET Nat /\ \A i \in F : sz(i) \in Nat
  BY DEF ChunkFits
<1>2. BestFit(n) = IF good # {} THEN Min(good) ELSE Min(least)
  BY DEF BestFit
<1> HIDE DEF F, sz
<1>3. least # {}
  <2> DEFINE Z == {sz(i) : i \in F}
  <2>1. Z \in SUBSET Nat /\ Z # {}
    BY <1>1 DEF F
  <2>2. PICK m \in Z : \A k \in Z : m <= k
    <3> HIDE DEF Z
    <3> QED
      BY <2>1, LeastNat
  <2>3. PICK i \in F : m = sz(i)
    OBVIOUS
  <2>4. \A j \in F : sz(i) <= sz(j)
    BY <2>2, <2>3
  <2> QED
    BY <2>3, <2>4
<1>4. good \in SUBSET Nat /\ least \in SUBSET Nat /\ good \subseteq F /\ least \subseteq F
  BY <1>1
<1> HIDE DEF good, least
<1>5. BestFit(n) \in F
  BY <1>2, <1>3, <1>4, MinFacts
<1> QED
  BY <1>5 DEF F

LEMMA RoundedFacts ==
  ASSUME NEW n \in Nat \ {0} PROVE Rounded(n) \in Nat \ {0} /\ Rounded(n) >= n
<1>1. RSOC_SIZE \in Nat /\ RSOC_SIZE >= 1
  BY RsoAssumption
<1> DEFINE q == (n + RSOC_SIZE - 1) \div RSOC_SIZE
<1>2. q \in Nat /\ q * RSOC_SIZE >= n
  BY <1>1, Z3
<1> QED
  BY <1>1, <1>2 DEF Rounded

LEMMA InsideChunk ==
  ASSUME NEW G, NEW ck, NEW rg, Table(G, ck, rg), NEW c \in G, NEW d \in Nat,
         c < d, d < ChunkEnd(ck, c)
  PROVE  d \in Addr /\ d \notin G
<1>1. c \in Nat /\ c >= 1 /\ ck[c].size \in Nat /\ ChunkEnd(ck, c) <= Memory + 1
  BY TableBounds
<1>2. ChunkEnd(ck, c) \in Nat
  BY <1>1 DEF ChunkEnd
<1>3. d \in Addr
  BY <1>1, <1>2, AddrNat DEF Addr
<1>4. d \notin G
  BY <1>1, <1>2 DEF Table, Cells
<1> QED
  BY <1>3, <1>4

(* A free chunk, or the first part of it, is used; its end is used.        *)
LEMMA TakeChunk ==
  ASSUME NEW G, NEW ck, NEW rg, Table(G, ck, rg), Shape(ck), NEW c \in FreeIn(G, ck),
         NEW t, NEW m \in Nat \ {0}, m <= ck[c].size
  PROVE  LET ck2 == Used(ck, c, m, t) IN
         Table(G, ck2, rg) /\ Shape(ck2) /\ FreeIn(G, ck2) = FreeIn(G, ck) \ {c}
<1> DEFINE ck2 == Used(ck, c, m, t)
<1>1. c \in G /\ c \in Addr /\ ck[c].state = "free" /\ G \subseteq Addr
  BY DEF FreeIn, Table, Cells
<1>2. /\ Shape(ck2) /\ ck2[c] = Header("used", m, ck[c].isize, t, <<>>)
      /\ \A a \in Addr : a # c => ck2[a] = ck[a]
  BY <1>1, UsedFacts
<1> HIDE DEF ck2
<1>3. ck2[c].state = "used" /\ ck2[c].size = m /\ ck2[c].isize = ck[c].isize
  BY <1>2 DEF Header
<1>4. \A a \in G : /\ ck2[a].state \in {"used", "free"}
                   /\ ck2[a].size \in Nat \ {0} /\ ck2[a].size <= ck[a].size
                   /\ ck2[a].isize = ck[a].isize
  BY <1>1, <1>2, <1>3 DEF Table, Cells
<1>5. Table(G, ck2, rg)
  BY <1>4, TableShrinks
<1>6. FreeIn(G, ck2) = FreeIn(G, ck) \ {c}
  BY <1>1, <1>2, <1>3 DEF FreeIn
<1> QED
  BY <1>2, <1>5, <1>6 DEF ck2

IsSplitAt(ck, c, m, t, d, ck2) ==
  /\ d = ChunkEnd(ck, c) - m
  /\ ck2 = Used([ck EXCEPT ![c].size = @ - m, ![d].isize = 0], d, m, t)

IsSplitOff(G, ck, rg, c, m, t, d, ck2) ==
  /\ d \in Addr /\ d \notin G /\ c < d /\ Table(G \cup {d}, ck2, rg) /\ Shape(ck2)
  /\ FreeIn(G \cup {d}, ck2) = FreeIn(G, ck)
  /\ ck2[c] = Header("free", d - c, ck[c].isize, ck[c].nae, ck[c].flol)
  /\ ck2[d] = Header("used", m, 0, t, <<>>)
  /\ \A a \in Addr \ {c, d} : ck2[a] = ck[a]

LEMMA SplitChunk ==
  ASSUME NEW G, NEW ck, NEW rg, Table(G, ck, rg), Shape(ck), NEW c \in FreeIn(G, ck),
         NEW t, NEW m \in Nat \ {0}, m < ck[c].size,
         NEW d, NEW ck2, IsSplitAt(ck, c, m, t, d, ck2)
  PROVE  IsSplitOff(G, ck, rg, c, m, t, d, ck2)
<1> DEFINE k1 == [ck EXCEPT ![c].size = ck[c].size - m]
           k2 == [k1 EXCEPT ![d].isize = 0]
<1>1. c \in G /\ c \in Addr /\ ck[c].state = "free" /\ G \subseteq Addr
  BY DEF FreeIn, Table, Cells
<1>2. c \in Nat /\ ck[c].size \in Nat
  BY <1>1, TableBounds
<1>3. d \in Nat /\ c < d /\ d < ChunkEnd(ck, c) /\ d - c = ck[c].size - m
      /\ ChunkEnd(ck, c) - d = m
  BY <1>2 DEF ChunkEnd, IsSplitAt
<1>4. d \in Addr /\ d \notin G
  BY <1>1, <1>3, InsideChunk
<1>5. d # c
  BY <1>1, <1>4
<1>6. /\ Shape(k1) /\ k1[c] = Header("free", d - c, ck[c].isize, ck[c].nae, ck[c].flol)
      /\ \A a \in Addr : a # c => k1[a] = ck[a]
  <2> DEFINE Is(k, x) == /\ Shape(k) /\ k[c] = Header(ck[c].state, x, ck[c].isize, ck[c].nae, ck[c].flol)
                         /\ \A a \in Addr : a # c => k[a] = ck[a]
  <2>1. \A x : Is([ck EXCEPT ![c].size = x], x)
    BY <1>1, SizeChanged
  <2>2. ck[c].size - m = d - c
    BY <1>3
  <2>3. Is(k1, d - c)
    <3> HIDE DEF Is
    <3> QED
      BY <2>1, <2>2
  <2> QED
    BY <1>1, <2>3
<1> HIDE DEF k1
<1>7. /\ Shape(k2) /\ k2[d] = Header(k1[d].state, k1[d].size, 0, k1[d].nae, k1[d].flol)
      /\ \A a \in Addr : a # d => k2[a] = k1[a]
  BY <1>4, <1>6, IsizeChanged
<1>15. ck2 = Used(k2, d, m, t)
  BY DEF k2, k1, IsSplitAt
<1> HIDE DEF k2
<1>8. /\ Shape(ck2) /\ ck2[d] = Header("used", m, k2[d].isize, t, <<>>)
      /\ \A a \in Addr : a # d => ck2[a] = k2[a]
  BY <1>4, <1>7, <1>15, UsedFacts
<1>9. k2[d].isize = 0
  BY <1>7 DEF Header
<1>10. /\ ck2[c] = Header("free", d - c, ck[c].isize, ck[c].nae, ck[c].flol)
       /\ ck2[d] = Header("used", m, 0, t, <<>>)
       /\ \A a \in Addr \ {c, d} : ck2[a] = ck[a]
  BY <1>1, <1>5, <1>6, <1>7, <1>8, <1>9
<1>11. /\ ck2[c].size = d - c /\ ck2[c].isize = ck[c].isize /\ ck2[c].state = ck[c].state
       /\ ck2[d].size = ChunkEnd(ck, c) - d /\ ck2[d].isize = 0 /\ ck2[d].state = "used"
  BY <1>1, <1>3, <1>10 DEF Header
<1>12. \A a \in G \ {c} : ck2[a] = ck[a]
  BY <1>1, <1>4, <1>10
<1>13. Table(G \cup {d}, ck2, rg)
  BY <1>1, <1>3, <1>11, <1>12, TableSplits
<1>14. FreeIn(G \cup {d}, ck2) = FreeIn(G, ck)
  BY <1>1, <1>4, <1>11, <1>12 DEF FreeIn
<1> QED
  BY <1>3, <1>4, <1>8, <1>10, <1>13, <1>14 DEF IsSplitOff

(* The size asked for, and what its array takes of a chunk.                *)
LEMMA SizeFacts ==
  ASSUME NEW t \in Types, NEW n \in Sizes[t]
  PROVE  n \in Nat /\ n >= 2 /\ n + Overhead \in Nat /\ n + Overhead >= 3 /\ Overhead \in Nat
<1>1. Overhead \in Nat \ {0} /\ Sizes[t] \subseteq Nat \ {0, 1}
  BY RsoAssumption
<1> QED
  BY <1>1

LEMMA NewInFreeChunkTable ==
  ASSUME TableInv, NEW t \in Types, NEW n \in Sizes[t], NEW w, NewInFreeChunk(t, n, w)
  PROVE  TableInv'
<1> DEFINE m == n + Overhead
           i == BestFit(m)
           c == rsocfl[i]
           G == Mem(gcmt)
           d == ChunkEnd(chunk, c) - m
           sp == Used([chunk EXCEPT ![c].size = @ - m, ![d].isize = 0], d, m, t)
<1>0. m \in Nat \ {0}
  BY SizeFacts
<1>1. pc \in {"new", "resume"} /\ ChunkFits(m) # {} /\ UNCHANGED <<rsoc_count, regions>>
  BY DEF NewInFreeChunk, Looking
<1>2. /\ gcmt \in Seq(Addr) /\ Increasing(gcmt) /\ rsocfl \in Seq(Addr) /\ rest \in Seq(Addr)
      /\ Shape(chunk) /\ Table(G, chunk, regions) /\ rsoc_count = Cardinality(regions)
      /\ Once(rsocfl) /\ Mem(rsocfl) = FreeIn(G, chunk)
  BY <1>1 DEF TableInv, FreeLists, Sweeping
<1>3. \A k \in DOMAIN rsocfl : rsocfl[k] \in FreeIn(G, chunk) /\ chunk[rsocfl[k]].size \in Nat
  <2>1. \A k \in DOMAIN rsocfl : rsocfl[k] \in FreeIn(G, chunk)
    BY <1>2 DEF Mem
  <2> QED
    BY <1>2, <2>1 DEF FreeIn, Table, Cells
<1>4. i \in 1 .. Len(rsocfl) /\ c \in FreeIn(G, chunk) /\ chunk[c].size \in Nat /\ m <= chunk[c].size
  <2>1. i \in ChunkFits(m)
    <3> HIDE DEF m
    <3> QED
      BY <1>0, <1>1, <1>2, <1>3, BestFitFacts
  <2>2. i \in DOMAIN rsocfl /\ chunk[c].size >= m
    BY <2>1 DEF ChunkFits
  <2> QED
    BY <1>0, <1>2, <1>3, <2>2
<1> DEFINE Splits == IsSplit(c, m) /\ chunk' = sp /\ rsocfl' = Cons(c, RemoveAt(rsocfl, i)) /\ gcmt' = Added(d)
           Takes == /\ \E k \in {m, chunk[c].size} : chunk' = Used(chunk, c, k, t)
                    /\ rsocfl' = RemoveAt(rsocfl, i) /\ gcmt' = gcmt
<1>5. Splits \/ Takes
  BY DEF NewInFreeChunk, End, ChunkEnd
<1>6. pc' = "run" /\ rest' = rest
  BY FromStoreQuiet DEF NewInFreeChunk
<1>7. IsSplitAt(chunk, c, m, t, d, sp)
  BY DEF IsSplitAt
<1> HIDE DEF i, c, sp, d, m, G
<1>8. c \in Addr
  BY <1>2, <1>4 DEF FreeIn, Table, Cells
<1> DEFINE q == RemoveAt(rsocfl, i)
<1>9. q \in Seq(Addr) /\ Mem(q) = FreeIn(G, chunk) \ {c} /\ Once(q)
  BY <1>2, <1>4, RemoveAtFacts, RemoveAtMem DEF c
<1> HIDE DEF q
<1>10. CASE Splits
  <2>1. m < chunk[c].size
    <3>1. RSOC_MIN_STORE * 4 \in Nat /\ RSOC_MIN_STORE * 4 > 0
      BY RsoAssumption
    <3>2. chunk[c].size - m > RSOC_MIN_STORE * 4
      BY <1>10 DEF IsSplit
    <3> QED
      BY <1>0, <1>4, <3>1, <3>2
  <2>2. /\ d \in Addr /\ d \notin G /\ Table(G \cup {d}, sp, regions) /\ Shape(sp)
        /\ FreeIn(G \cup {d}, sp) = FreeIn(G, chunk)
    <3>1. IsSplitOff(G, chunk, regions, c, m, t, d, sp)
      BY <1>0, <1>2, <1>4, <1>7, <2>1, SplitChunk
    <3> QED
      BY <3>1 DEF IsSplitOff
  <2>3. gcmt' \in Seq(Addr) /\ Increasing(gcmt') /\ Mem(gcmt') = G \cup {d}
    BY <1>2, <1>10, <2>2, AddedFacts DEF G
  <2>4. rsocfl' = Cons(c, q)
    BY <1>10 DEF q
  <2>5. rsocfl' \in Seq(Addr)
    BY <1>8, <1>9, <2>4, ConsFacts
  <2>6. Once(rsocfl') /\ Mem(rsocfl') = FreeIn(G, chunk)
    <3>1. Mem(Cons(c, q)) = {c} \cup Mem(q) /\ (Once(q) /\ c \notin Mem(q) => Once(Cons(c, q)))
      BY <1>8, <1>9, ConsMem
    <3>2. Mem(Cons(c, q)) = FreeIn(G, chunk) /\ Once(Cons(c, q))
      BY <1>4, <1>9, <3>1
    <3> QED
      BY <2>4, <3>2
  <2>7. FreeLists'
    BY <1>6, <1>10, <2>2, <2>3, <2>6 DEF FreeLists, Sweeping, Rebuilding, Mem, Once, FreeIn
  <2> QED
    BY <1>1, <1>2, <1>6, <1>10, <2>2, <2>3, <2>5, <2>7 DEF TableInv, Pc, Mem, Increasing
<1>11. CASE Takes
  <2>1. PICK k \in {m, chunk[c].size} : chunk' = Used(chunk, c, k, t)
    BY <1>11
  <2>2. k \in Nat \ {0} /\ k <= chunk[c].size
    BY <1>0, <1>4
  <2>3. Table(G, chunk', regions) /\ Shape(chunk') /\ FreeIn(G, chunk') = FreeIn(G, chunk) \ {c}
    BY <1>2, <1>4, <2>1, <2>2, TakeChunk
  <2>4. rsocfl' = q /\ gcmt' = gcmt
    BY <1>11 DEF q
  <2>5. Mem(gcmt') = G
    BY <2>4 DEF G
  <2>6. FreeLists'
    <3>1. Once(rsocfl') /\ Mem(rsocfl') = FreeIn(Mem(gcmt'), chunk')
      BY <1>9, <2>3, <2>4, <2>5
    <3>2. (Once(rsocfl) /\ Mem(rsocfl) = FreeIn(Mem(gcmt), chunk))'
      BY <3>1 DEF Once, Mem, FreeIn
    <3> QED
      BY <1>6, <3>2 DEF FreeLists, Sweeping, Rebuilding
  <2> QED
    BY <1>1, <1>2, <1>6, <1>9, <2>3, <2>4, <2>5, <2>6 DEF TableInv, Pc, Mem, Increasing
<1> QED
  BY <1>5, <1>10, <1>11

LEMMA MallocTable ==
  ASSUME TableInv, pc \in {"new", "resume"}, NEW t \in Types, NEW n \in Sizes[t], NEW w,
         Malloc(t, n, w)
  PROVE  TableInv'
<1> DEFINE G == Mem(gcmt)
           m == IF n + Overhead > RSOC_SIZE THEN Rounded(n + Overhead) ELSE RSOC_SIZE
<1>0. m \in Nat \ {0}
  <2>1. RSOC_SIZE \in Nat \ {0}
    BY RsoAssumption
  <2>2. n + Overhead \in Nat \ {0}
    BY SizeFacts
  <2> QED
    BY <2>1, <2>2, RoundedFacts
<1>1. PICK c \in Available(m) :
        /\ chunk' = Used([chunk EXCEPT ![c].isize = m], c, m, t)
        /\ gcmt' = Added(c) /\ regions' = regions \cup {<<c, m>>}
        /\ rsoc_count' = rsoc_count + 1 /\ rsocfl' = rsocfl
        /\ pc' = "run" /\ rest' = rest
  BY FromStoreQuiet DEF Malloc, Return, sweepVars
<1> HIDE DEF m
<1>2. /\ gcmt \in Seq(Addr) /\ Increasing(gcmt) /\ rsocfl \in Seq(Addr) /\ rest \in Seq(Addr)
      /\ Shape(chunk) /\ Table(G, chunk, regions) /\ rsoc_count = Cardinality(regions)
      /\ Once(rsocfl) /\ Mem(rsocfl) = FreeIn(G, chunk)
  BY DEF TableInv, FreeLists, Sweeping
<1>3. c \in Addr /\ c + m <= Memory + 1 /\ \A r \in regions : c + m <= r[1] \/ r[1] + r[2] <= c
  <2>1. c \in Places /\ c + m - 1 <= Memory
    BY DEF Available
  <2>2. c \in Addr
    BY <2>1, RsoAssumption DEF Addr
  <2> QED
    BY <1>0, <2>1, <2>2, AddrNat DEF Available
<1> DEFINE k1 == [chunk EXCEPT ![c].isize = m]
<1>4. /\ Shape(k1) /\ k1[c] = Header(chunk[c].state, chunk[c].size, m, chunk[c].nae, chunk[c].flol)
      /\ \A a \in Addr : a # c => k1[a] = chunk[a]
  <2> DEFINE Is(k, x) ==
               /\ Shape(k) /\ k[c] = Header(chunk[c].state, chunk[c].size, x, chunk[c].nae, chunk[c].flol)
               /\ \A a \in Addr : a # c => k[a] = chunk[a]
  <2>1. \A x : Is([chunk EXCEPT ![c].isize = x], x)
    BY <1>2, <1>3, IsizeChanged
  <2>2. Is(k1, m)
    <3> HIDE DEF Is
    <3> QED
      BY <2>1
  <2> QED
    BY <2>2
<1>5. chunk' = Used(k1, c, m, t)
  BY <1>1
<1> HIDE DEF k1, G
<1>6. /\ Shape(chunk') /\ chunk'[c] = Header("used", m, k1[c].isize, t, <<>>)
      /\ \A a \in Addr : a # c => chunk'[a] = k1[a]
  BY <1>3, <1>4, <1>5, UsedFacts
<1>7. chunk'[c].size = m /\ chunk'[c].isize = m /\ chunk'[c].state = "used"
  BY <1>4, <1>6 DEF Header
<1>8. \A b \in G : b # c => chunk'[b] = chunk[b]
  BY <1>2, <1>4, <1>6 DEF Table, Cells
<1>9. /\ c \notin G /\ <<c, m>> \notin regions
      /\ Table(G \cup {c}, chunk', regions \cup {<<c, m>>})
  BY <1>0, <1>2, <1>3, <1>7, <1>8, TableGrows
<1>10. gcmt' \in Seq(Addr) /\ Increasing(gcmt') /\ Mem(gcmt') = G \cup {c}
  BY <1>1, <1>2, <1>3, <1>9, AddedFacts DEF G
<1>11. rsoc_count' = Cardinality(regions')
  <2>1. Cardinality(regions \cup {<<c, m>>}) = Cardinality(regions) + 1
    BY <1>2, <1>9, FS_AddElement DEF Table, Apart
  <2> QED
    BY <1>1, <1>2, <2>1
<1>12. FreeIn(G \cup {c}, chunk') = FreeIn(G, chunk)
  BY <1>7, <1>8, <1>9 DEF FreeIn
<1>13. Mem(rsocfl') = Mem(rsocfl) /\ Once(rsocfl')
  BY <1>1, <1>2
<1>14. FreeLists'
  BY <1>1, <1>2, <1>10, <1>12, <1>13 DEF FreeLists, Sweeping, Rebuilding, Mem, Once, FreeIn
<1> QED
  BY <1>1, <1>2, <1>6, <1>9, <1>10, <1>11, <1>14 DEF TableInv, Pc, Mem, Increasing

(* What new_na does next for one type, size and word.                      *)
GoesOn(t, n, w) ==
  \/ NewInStoreChunk(t, n, w) \/ NewInChunkList(t, n, w) \/ NewInFreeChunk(t, n, w)
  \/ NewMalloc(t, n, w) \/ NewCollects(t, n, w) \/ ResumeFromStore(t, n, w)
  \/ ResumeMalloc(t, n, w) \/ OutOfMemory(t, n, w)

LEMMA NewGoesOnTable ==
  ASSUME TableInv, NewGoesOn PROVE TableInv'
<1> PICK t \in Types : \E n \in Sizes[t], w \in Words : GoesOn(t, n, w)
  BY DEF NewGoesOn, GoesOn
<1> PICK n \in Sizes[t], w \in Words : GoesOn(t, n, w)
  OBVIOUS
<1>1. CASE NewInStoreChunk(t, n, w)
  BY <1>1, GetStoreTable DEF NewInStoreChunk, Sweeping
<1>2. CASE NewInChunkList(t, n, w)
  BY <1>2, GetStoreTable DEF NewInChunkList, Looking, Sweeping
<1>3. CASE NewInFreeChunk(t, n, w)
  BY <1>3, NewInFreeChunkTable
<1>4. CASE NewMalloc(t, n, w)
  BY <1>4, MallocTable DEF NewMalloc
<1>5. CASE NewCollects(t, n, w)
  BY <1>5, GcStartTable DEF NewCollects, Sweeping
<1>6. CASE ResumeFromStore(t, n, w)
  <2>1. pc = "resume" /\ pc' = "run" /\ UNCHANGED <<gcmt, chunk, rsocfl, rsoc_count, regions, rest>>
    BY <1>6, FromStoreQuiet DEF ResumeFromStore
  <2> QED
    BY <2>1, SameChunks, QuietStep DEF Pc, Sweeping
<1>7. CASE ResumeMalloc(t, n, w)
  BY <1>7, MallocTable DEF ResumeMalloc
<1>8. CASE OutOfMemory(t, n, w)
  <2>1. pc \in {"new", "resume"} /\ pc' = "halt" /\ UNCHANGED <<gcmt, chunk, rsocfl, rsoc_count, regions, rest>>
    BY <1>8 DEF OutOfMemory, Nothing, Looking, memVars, sweepVars, histVars
  <2> QED
    BY <2>1, SameChunks, QuietStep DEF Pc, Sweeping
<1> QED
  BY <1>1, <1>2, <1>3, <1>4, <1>5, <1>6, <1>7, <1>8 DEF GoesOn

LEMMA NewTable ==
  ASSUME TableInv, New PROVE TableInv'
<1> PICK t \in Types : \E n \in Sizes[t], w \in Words : NewFromStore(t, n, w) \/ NewNa(t, n, w)
  BY DEF New
<1> PICK n \in Sizes[t], w \in Words : NewFromStore(t, n, w) \/ NewNa(t, n, w)
  OBVIOUS
<1>1. CASE NewFromStore(t, n, w)
  <2>1. pc = "run" /\ pc' = "run" /\ UNCHANGED <<gcmt, chunk, rsocfl, rsoc_count, regions, rest>>
    BY <1>1, FromStoreQuiet DEF NewFromStore
  <2> QED
    BY <2>1, SameChunks, QuietStep DEF Pc, Sweeping
<1>2. CASE NewNa(t, n, w)
  BY <1>2, NewNaTable
<1> QED
  BY <1>1, <1>2
-----------------------------------------------------------------------------
(* gc_sweep.  While the blocks of a chunk are swept, only that chunk may   *)
(* become free; the chunks before it are in the list already.              *)
LEMMA SweepingStep ==
  ASSUME TableInv, pc \in {"enter", "sweep"}, pc' \in {"sweep", "link"}, p1 <= Len(gcmt),
         UNCHANGED <<gcmt, rsocfl, rest, rsoc_count, regions, p1>>,
         Shape(chunk'), \A a \in Addr : a # cur =>
                          /\ chunk'[a].state = chunk[a].state
                          /\ chunk'[a].size = chunk[a].size /\ chunk'[a].isize = chunk[a].isize,
         chunk'[cur].state \in {"used", "free"}, pc' = "sweep" => chunk'[cur].state = "used",
         chunk'[cur].size = chunk[cur].size, chunk'[cur].isize = chunk[cur].isize
  PROVE  TableInv'
<1> DEFINE G == Mem(gcmt)
<1>1. /\ gcmt \in Seq(Addr) /\ Increasing(gcmt) /\ rsocfl \in Seq(Addr) /\ rest \in Seq(Addr)
      /\ Table(G, chunk, regions) /\ rsoc_count = Cardinality(regions)
      /\ p1 \in 1 .. Len(gcmt) /\ Decreasing(rsocfl)
      /\ Mem(rsocfl) = FreeIn(Before(gcmt, p1), chunk)
  BY DEF TableInv, FreeLists, Rebuilding
<1>2. G \subseteq Addr /\ cur \in G
  BY <1>1 DEF Mem, cur
<1>3. \A c \in G : /\ chunk'[c].state \in {"used", "free"}
                   /\ chunk'[c].size \in Nat \ {0} /\ chunk'[c].size <= chunk[c].size
                   /\ chunk'[c].isize = chunk[c].isize
  BY <1>1, <1>2 DEF Table, Cells
<1>4. Table(G, chunk', regions)
  BY <1>1, <1>3, TableShrinks
<1>5. Before(gcmt, p1) \subseteq G /\ cur \notin Before(gcmt, p1)
  <2>1. \A c \in Before(gcmt, p1) : c < cur
    BY <1>1, BeforeFacts DEF cur
  <2>2. cur \in Nat
    BY <1>2, AddrNat
  <2> QED
    BY <1>1, <2>1, <2>2, BeforeFacts
<1>6. FreeIn(Before(gcmt, p1), chunk') = FreeIn(Before(gcmt, p1), chunk)
  BY <1>2, <1>5 DEF FreeIn
<1>7. cur' = cur /\ Mem(gcmt') = G /\ Before(gcmt', p1') = Before(gcmt, p1) /\ Mem(rsocfl') = Mem(rsocfl)
  BY DEF cur
<1> HIDE DEF G
<1>8. FreeLists'
  BY <1>1, <1>6, <1>7 DEF FreeLists, Sweeping, Rebuilding, Decreasing, FreeIn, Mem, Before, cur
<1> QED
  BY <1>1, <1>4, <1>7, <1>8 DEF TableInv, Pc, Mem, Increasing

LEMMA BeginSweepTable == ASSUME TableInv, BeginSweep PROVE TableInv'
<1>1. /\ pc' = "enter" /\ p1' = 1 /\ rsocfl' = <<>>
      /\ UNCHANGED <<gcmt, chunk, rest, rsoc_count, regions>>
  BY DEF BeginSweep, histVars
<1>2. Before(gcmt, 1) = {} /\ Len(gcmt) \in Nat
  BY BeforeFacts DEF TableInv
<1>3. Mem(rsocfl') = {} /\ Decreasing(rsocfl')
  BY <1>1 DEF Mem, Decreasing
<1>4. FreeLists'
  BY <1>1, <1>2, <1>3 DEF FreeLists, Sweeping, Rebuilding, FreeIn, Before, Mem, Decreasing
<1> QED
  BY <1>1, <1>4 DEF TableInv, Pc, Increasing, Mem

LEMMA EnterTable == ASSUME TableInv, EnterChunk PROVE TableInv'
<1>1. /\ pc = "enter" /\ p1 <= Len(gcmt) /\ pc' \in {"sweep", "link"}
      /\ UNCHANGED <<gcmt, rsocfl, rest, rsoc_count, regions, p1>>
      /\ pc' = "sweep" => chunk[cur].state = "used"
      /\ chunk' = chunk \/ \E f : chunk' = [chunk EXCEPT ![cur].flol = f]
  BY DEF EnterChunk, histVars
<1>2. Shape(chunk') /\ SameSizes(chunk, chunk', Addr)
  <2>1. CASE chunk' = chunk
    BY <2>1, SameChunks
  <2>2. CASE chunk' # chunk
    <3>1. PICK f : chunk' = [chunk EXCEPT ![cur].flol = f]
      BY <1>1, <2>2
    <3> DEFINE c == cur
    <3>2. chunk' = [chunk EXCEPT ![c].flol = f]
      BY <3>1
    <3> HIDE DEF c
    <3> QED
      BY <3>2, FlolChanged DEF TableInv
  <2> QED
    BY <2>1, <2>2
<1>3. cur \in Addr /\ chunk[cur].state \in {"used", "free"}
  <2>1. p1 \in 1 .. Len(gcmt)
    BY <1>1 DEF TableInv, FreeLists, Rebuilding
  <2>2. cur \in Mem(gcmt)
    BY <2>1 DEF cur, Mem
  <2> QED
    BY <2>2 DEF TableInv, Table, Cells
<1> QED
  BY <1>1, <1>2, <1>3, SweepingStep DEF SameSizes

LEMMA CurFacts ==
  ASSUME TableInv, pc \in {"sweep", "link"}
  PROVE  p1 \in 1 .. Len(gcmt) /\ cur \in Mem(gcmt) /\ cur \in Addr
<1>1. p1 \in 1 .. Len(gcmt)
  BY DEF TableInv, FreeLists, Rebuilding
<1>2. cur \in Mem(gcmt)
  BY <1>1 DEF cur, Mem
<1> QED
  BY <1>1, <1>2, MemAddr

(* rsoc_sweep: nothing of the table changes, but a chunk it finds empty is *)
(* free from then on.                                                      *)
LEMMA SweepTable ==
  ASSUME TableInv, SweepLarge \/ SweepMarked \/ SweepFree \/ Coalesce \/ CloseRun \/ EndChunk
  PROVE  TableInv'
<1>1. /\ pc = "sweep" /\ pc' \in {"sweep", "link"}
      /\ UNCHANGED <<gcmt, rsocfl, rest, rsoc_count, regions, p1>>
  BY Zenon DEF SweepLarge, SweepMarked, SweepFree, Coalesce, CloseRun, EndChunk, InBlocks, sweepRest
<1>2. p1 \in 1 .. Len(gcmt) /\ cur \in Addr /\ chunk[cur].state = "used"
  <2>1. FreeLists
    BY DEF TableInv
  <2> QED
    BY <1>1, <2>1, CurFacts DEF FreeLists
<1>3. \/ chunk' = chunk
      \/ \E c, f : chunk' = [chunk EXCEPT ![c].flol = f]
      \/ chunk' = [chunk EXCEPT ![cur].state = "free"] /\ pc' = "link"
  BY Zenon DEF SweepLarge, SweepMarked, SweepFree, Coalesce, CloseRun, EndChunk
<1>4. CASE chunk' = chunk
  BY <1>1, <1>2, <1>4, SweepingStep DEF TableInv
<1>5. CASE \E c, f : chunk' = [chunk EXCEPT ![c].flol = f]
  <2>1. PICK c, f : chunk' = [chunk EXCEPT ![c].flol = f]
    BY <1>5
  <2>2. Shape(chunk') /\ SameSizes(chunk, chunk', Addr)
    BY <2>1, FlolChanged DEF TableInv
  <2> QED
    BY <1>1, <1>2, <2>2, SweepingStep DEF SameSizes
<1>6. CASE chunk' = [chunk EXCEPT ![cur].state = "free"] /\ pc' = "link"
  <2> DEFINE c == cur
             Is(k, x) == /\ Shape(k) /\ k[c] = Header(x, chunk[c].size, chunk[c].isize, chunk[c].nae, chunk[c].flol)
                         /\ \A a \in Addr : a # c => k[a] = chunk[a]
  <2>1. \A x : Is([chunk EXCEPT ![c].state = x], x)
    <3> HIDE DEF c
    <3> QED
      BY <1>2, StateChanged DEF TableInv, c
  <2>2. Is(chunk', "free")
    <3> HIDE DEF Is
    <3> QED
      BY <1>6, <2>1
  <2>3. /\ Shape(chunk') /\ \A a \in Addr : a # cur => chunk'[a] = chunk[a]
        /\ chunk'[cur] = Header("free", chunk[cur].size, chunk[cur].isize, chunk[cur].nae, chunk[cur].flol)
    BY <2>2
  <2>4. /\ chunk'[cur].state = "free" /\ chunk'[cur].size = chunk[cur].size
        /\ chunk'[cur].isize = chunk[cur].isize
    BY <2>3 DEF Header
  <2> QED
    BY <1>1, <1>2, <1>6, <2>3, <2>4, SweepingStep
<1> QED
  BY <1>3, <1>4, <1>5, <1>6

LEMMA NoChunkHeader == \E t : NoChunk = Header("none", 0, 0, t, <<>>)
BY DEF NoChunk, Header

Dropped(ck, c) == [ck EXCEPT ![c] = NoChunk]

LEMMA DroppedFacts ==
  ASSUME NEW ck, Shape(ck), NEW c
  PROVE  Shape(Dropped(ck, c)) /\ \A a \in Addr : a # c => Dropped(ck, c)[a] = ck[a]
<1>1. PICK t : NoChunk = Header("none", 0, 0, t, <<>>)
  BY NoChunkHeader
<1> DEFINE Is(k) == Shape(k) /\ \A a \in Addr : a # c => k[a] = ck[a]
<1>2. \A s, m, i, u, f : Is([ck EXCEPT ![c] = Header(s, m, i, u, f)])
  BY PutHeader
<1>3. Is(Dropped(ck, c))
  <2> HIDE DEF Is
  <2> QED
    BY <1>1, <1>2 DEF Dropped
<1> QED
  BY <1>3

LEMMA EnterLists ==
  ASSUME pc' = "enter", p1' \in 1 .. Len(gcmt') + 1, Decreasing(rsocfl'),
         Mem(rsocfl') = FreeIn(Before(gcmt', p1'), chunk')
  PROVE  FreeLists'
<1>1. (pc \in Rebuilding)' /\ ~(pc \notin Sweeping)' /\ pc' \notin {"sweep", "link"} /\ pc' # "sweep" /\ pc' # "free"
  BY DEF Rebuilding, Sweeping
<1>2. (p1 \in 1 .. Len(gcmt) + 1)'
  OBVIOUS
<1>3. Decreasing(rsocfl)'
  BY DEF Decreasing
<1>4. (Mem(rsocfl) = FreeIn(Before(gcmt, p1), chunk))'
  BY DEF Mem, FreeIn, Before
<1> QED
  BY <1>1, <1>2, <1>3, <1>4 DEF FreeLists

LEMMA LinkTable == ASSUME TableInv, Link PROVE TableInv'
<1> DEFINE G == Mem(gcmt)
           B == Before(gcmt, p1)
<1>1. /\ pc = "link" /\ pc' = "enter" /\ UNCHANGED <<rest, rsoc_count, regions>>
  BY DEF Link, histVars
<1>2. /\ gcmt \in Seq(Addr) /\ Increasing(gcmt) /\ rsocfl \in Seq(Addr) /\ rest \in Seq(Addr)
      /\ Shape(chunk) /\ Table(G, chunk, regions) /\ rsoc_count = Cardinality(regions)
      /\ p1 \in 1 .. Len(gcmt) /\ Decreasing(rsocfl) /\ Mem(rsocfl) = FreeIn(B, chunk)
  BY <1>1 DEF TableInv, FreeLists, Rebuilding
<1>3. cur \in G /\ cur \in Addr /\ G \subseteq Addr
  BY <1>1, CurFacts, MemAddr
<1>4. B \subseteq G /\ Before(gcmt, p1 + 1) = B \cup {cur} /\ \A c \in B : c < cur
  BY <1>2, BeforeFacts DEF cur
<1>5. p1 + 1 \in 1 .. Len(gcmt) + 1
  BY <1>2
<1>6. CASE chunk[cur].state = "used" /\ p1' = p1 + 1 /\ UNCHANGED <<gcmt, chunk, rsocfl>>
  <2>1. FreeIn(B \cup {cur}, chunk) = FreeIn(B, chunk)
    BY <1>6 DEF FreeIn
  <2>2. FreeLists'
    BY <1>1, <1>2, <1>4, <1>5, <1>6, <2>1, EnterLists
  <2> QED
    BY <1>1, <1>2, <1>6, <2>2 DEF TableInv, Pc, Increasing, Mem
<1>7. CASE /\ chunk[cur].state = "free" /\ rsocfl' = Cons(cur, rsocfl) /\ p1' = p1 + 1
           /\ UNCHANGED <<gcmt, chunk>>
  <2>1. FreeIn(B \cup {cur}, chunk) = {cur} \cup FreeIn(B, chunk)
    BY <1>7 DEF FreeIn
  <2>2. \A c \in Mem(rsocfl) : c < cur
    BY <1>2, <1>4 DEF FreeIn
  <2>3. Decreasing(Cons(cur, rsocfl)) /\ Cons(cur, rsocfl) \in Seq(Addr)
    BY <1>2, <1>3, <2>2, ConsDecreasing, AddrNat, ConsFacts
  <2>4. Mem(Cons(cur, rsocfl)) = {cur} \cup Mem(rsocfl)
    BY <1>2, <1>3, ConsMem
  <2>5. FreeLists'
    BY <1>1, <1>2, <1>4, <1>5, <1>7, <2>1, <2>3, <2>4, EnterLists
  <2> QED
    BY <1>1, <1>2, <1>7, <2>3, <2>5 DEF TableInv, Pc, Increasing, Mem
<1>8. CASE /\ chunk[cur].state = "free" /\ Merges(cur) /\ gcmt' = RemoveAt(gcmt, p1)
           /\ chunk' = [chunk EXCEPT ![gcmt[p1 - 1]].size = @ + chunk[cur].size, ![cur] = NoChunk]
           /\ UNCHANGED <<rsocfl, p1>>
  <2> DEFINE c == gcmt[p1 - 1]
             d == cur
             n == chunk[c].size + chunk[d].size
             k1 == [chunk EXCEPT ![c].size = n]
  <2>1. /\ p1 - 1 \in 1 .. Len(gcmt) /\ p1 - 1 < p1 /\ ChunkEnd(chunk, c) = d /\ chunk[d].isize = 0
    BY <1>2, <1>8 DEF Merges, End, ChunkEnd
  <2>2. c \in G /\ c \in Addr /\ c \in B
    BY <1>3, <2>1 DEF Mem, Before
  <2>3. c < d /\ c # d
    BY <1>4, <2>2, AddrNat
  <2>4. chunk' = [k1 EXCEPT ![d] = NoChunk]
    BY <1>8
  <2> HIDE DEF c, d, n
  <2>5. /\ Shape(k1) /\ k1[c] = Header(chunk[c].state, n, chunk[c].isize, chunk[c].nae, chunk[c].flol)
        /\ \A a \in Addr : a # c => k1[a] = chunk[a]
    <3> DEFINE Is(k, x) == /\ Shape(k) /\ k[c] = Header(chunk[c].state, x, chunk[c].isize, chunk[c].nae, chunk[c].flol)
                           /\ \A a \in Addr : a # c => k[a] = chunk[a]
    <3>1. \A x : Is([chunk EXCEPT ![c].size = x], x)
      BY <1>2, <2>2, SizeChanged
    <3>2. Is(k1, n)
      <4> HIDE DEF Is
      <4> QED
        BY <3>1
    <3> QED
      BY <3>2
  <2> HIDE DEF k1
  <2>6. Shape(chunk') /\ \A a \in Addr : a # d => chunk'[a] = k1[a]
    <3>1. PICK t : NoChunk = Header("none", 0, 0, t, <<>>)
      BY NoChunkHeader
    <3> DEFINE Is(k) == Shape(k) /\ \A a \in Addr : a # d => k[a] = k1[a]
    <3>2. \A s, m, i, u, f : Is([k1 EXCEPT ![d] = Header(s, m, i, u, f)])
      BY <2>5, PutHeader
    <3>3. Is(chunk')
      <4> HIDE DEF Is
      <4> QED
        BY <2>4, <3>1, <3>2
    <3> QED
      BY <3>3
  <2>7. /\ chunk'[c].size = chunk[c].size + chunk[d].size /\ chunk'[c].isize = chunk[c].isize
        /\ chunk'[c].state = chunk[c].state
    BY <2>2, <2>3, <2>5, <2>6 DEF Header, n
  <2>8. \A b \in Addr \ {c, d} : chunk'[b] = chunk[b]
    BY <2>5, <2>6
  <2>9. d \in G
    BY <1>3 DEF d
  <2>10. Table(G \ {d}, chunk', regions)
    BY <1>2, <1>3, <2>1, <2>2, <2>7, <2>8, <2>9, TableMerges
  <2>11. /\ gcmt' \in Seq(Addr) /\ Increasing(gcmt') /\ Mem(gcmt') = G \ {d}
         /\ Len(gcmt') = Len(gcmt) - 1 /\ \A k \in 1 .. p1 - 1 : gcmt'[k] = gcmt[k]
    BY <1>2, <1>8, RemovedFacts, AddrNat DEF d, cur
  <2>12. Before(gcmt', p1) = B
    <3>1. \A k : k \in 1 .. Len(gcmt') /\ k < p1 <=> k \in 1 .. p1 - 1
      BY <1>2, <2>11
    <3>2. \A k : k \in 1 .. Len(gcmt) /\ k < p1 <=> k \in 1 .. p1 - 1
      BY <1>2
    <3>3. Before(gcmt', p1) = {gcmt'[k] : k \in 1 .. p1 - 1} /\ B = {gcmt[k] : k \in 1 .. p1 - 1}
      BY <3>1, <3>2 DEF Before
    <3> QED
      BY <2>11, <3>3
  <2>13. FreeIn(B, chunk') = FreeIn(B, chunk)
    <3>1. d \notin B
      BY <1>4, AddrNat, <1>3 DEF d
    <3> QED
      BY <1>3, <1>4, <2>7, <2>8, <3>1 DEF FreeIn
  <2>14. p1 \in 1 .. Len(gcmt') + 1
    BY <1>2, <2>11
  <2>15. FreeLists'
    BY <1>1, <1>2, <1>8, <2>12, <2>13, <2>14, EnterLists
  <2> QED
    BY <1>1, <1>2, <1>8, <2>6, <2>10, <2>11, <2>15 DEF TableInv, Pc
<1> QED
  BY <1>6, <1>7, <1>8 DEF Link

LEMMA MayFreeTable == ASSUME TableInv, MayFree PROVE TableInv'
<1>1. /\ pc = "enter" /\ pc' = "free" /\ p1 > Len(gcmt) /\ rest' = rsocfl /\ rsocfl' = <<>>
      /\ where' = Len(gcmt) /\ UNCHANGED <<gcmt, chunk, rsoc_count, regions>>
  BY DEF MayFree, histVars
<1>2. /\ gcmt \in Seq(Addr) /\ rsocfl \in Seq(Addr) /\ p1 \in 1 .. Len(gcmt) + 1
      /\ Decreasing(rsocfl) /\ Mem(rsocfl) = FreeIn(Before(gcmt, p1), chunk)
  BY <1>1 DEF TableInv, FreeLists, Rebuilding
<1>3. p1 = Len(gcmt) + 1
  BY <1>1, <1>2
<1>4. Before(gcmt, Len(gcmt) + 1) = Mem(gcmt)
  BY <1>2, BeforeFacts
<1>5. Mem(rsocfl) = FreeIn(Mem(gcmt), chunk) /\ FreeIn(Mem(gcmt), chunk) \subseteq Mem(gcmt)
  BY <1>2, <1>3, <1>4 DEF FreeIn
<1>6. Mem(<<>>) = {} /\ Once(<<>>)
  BY DEF Mem, Once
<1>7. (Decreasing(rest) /\ Once(rsocfl) /\ Mem(rest) \cap Mem(rsocfl) = {})'
  BY <1>1, <1>2, <1>6 DEF Decreasing, Once, Mem
<1>8. (Mem(rest) \cup Mem(rsocfl) = FreeIn(Mem(gcmt), chunk))'
  <2>1. Mem(rest') \cup Mem(rsocfl') = FreeIn(Mem(gcmt'), chunk')
    BY <1>1, <1>5, <1>6
  <2> QED
    BY <2>1 DEF Mem, FreeIn
<1>9. (where \in 0 .. Len(gcmt) /\ Mem(rest) \subseteq Before(gcmt, where + 1))'
  <2>1. Mem(rsocfl) \subseteq Before(gcmt, Len(gcmt) + 1) /\ Len(gcmt) \in 0 .. Len(gcmt)
    BY <1>2, <1>4, <1>5
  <2>2. Mem(rest') \subseteq Before(gcmt', where' + 1) /\ where' \in 0 .. Len(gcmt')
    BY <1>1, <2>1
  <2> QED
    BY <2>2 DEF Mem, Before
<1>10. FreeLists'
  BY <1>1, <1>7, <1>8, <1>9 DEF FreeLists, Sweeping, Rebuilding
<1> QED
  <2>1. (gcmt \in Seq(Addr) /\ Increasing(gcmt) /\ rsocfl \in Seq(Addr) /\ rest \in Seq(Addr))'
    <3>1. gcmt' \in Seq(Addr) /\ Increasing(gcmt') /\ rsocfl' \in Seq(Addr) /\ rest' \in Seq(Addr)
      BY <1>1, <1>2 DEF TableInv
    <3> QED
      BY <3>1 DEF Increasing
  <2>2. (Shape(chunk) /\ Table(Mem(gcmt), chunk, regions) /\ rsoc_count = Cardinality(regions))'
    BY <1>1 DEF TableInv, Mem
  <2> QED
    BY <1>1, <1>10, <2>1, <2>2 DEF TableInv, Pc

(* The search that goes on below the last index finds the chunk.           *)
LEMMA FreeChunkPlace ==
  ASSUME TableInv, FreeChunk, IsWhole(Head(rest))
  PROVE  \E j \in 1 .. Len(gcmt) :
           gcmt[j] = Head(rest) /\ j <= where /\ where' = j - 1 /\ gcmt' = RemoveAt(gcmt, j)
<1> DEFINE c == Head(rest)
<1>1. /\ pc = "free" /\ rest # <<>> /\ where' = Search(0, where - 1, c) /\ gcmt' = RemoveAt(gcmt, where' + 1)
  BY DEF FreeChunk
<1>2. /\ gcmt \in Seq(Addr) /\ Increasing(gcmt) /\ rest \in Seq(Addr) /\ Decreasing(rest)
      /\ where \in 0 .. Len(gcmt) /\ Mem(rest) \subseteq Before(gcmt, where + 1)
  BY <1>1 DEF TableInv, FreeLists
<1>3. c \in Addr /\ c \in Mem(rest)
  BY <1>1, <1>2, TailFacts, AddrNat
<1>4. PICK j \in 1 .. Len(gcmt) : j < where + 1 /\ gcmt[j] = c
  BY <1>2, <1>3 DEF Before
<1>5. j \in Nat /\ j >= 1 /\ j <= where /\ where \in Nat /\ where <= Len(gcmt)
  BY <1>2, <1>4
<1>6. \A i \in 1 .. Len(gcmt) : gcmt[i] < c <=> i <= j - 1
  <2> SUFFICES ASSUME NEW i \in 1 .. Len(gcmt) PROVE gcmt[i] < c <=> i <= j - 1
    OBVIOUS
  <2>0. gcmt[i] \in Addr /\ gcmt[j] \in Addr
    BY <1>2
  <2>1. gcmt[i] \in Nat /\ gcmt[j] \in Nat
    BY <2>0, AddrNat
  <2>2. (i < j => gcmt[i] < gcmt[j]) /\ (j < i => gcmt[j] < gcmt[i])
    BY <1>2, <1>4 DEF Increasing
  <2> QED
    BY <1>4, <1>5, <2>1, <2>2
<1>7. Below(c, j - 1)
  BY <1>5, <1>6 DEF Below
<1>8. Search(0, where - 1, c) = j - 1
  <2>1. where - 1 \in 0 .. Len(gcmt) - 1 /\ j - 1 <= (where - 1) + 1
    BY <1>2, <1>5
  <2> HIDE DEF c
  <2> QED
    BY <1>2, <1>7, <2>1, SearchFacts
<1>9. where' = j - 1 /\ gcmt' = RemoveAt(gcmt, j)
  <2>1. (j - 1) + 1 = j
    BY <1>5
  <2> QED
    BY <1>1, <1>8, <2>1
<1> QED
  BY <1>4, <1>5, <1>9

(* may_free_rsocfl goes down the table: a chunk given back leaves the      *)
(* places of the chunks before it.                                         *)
LEMMA FreeChunkTable == ASSUME TableInv, FreeChunk PROVE TableInv'
<1> DEFINE G == Mem(gcmt)
           c == Head(rest)
           R == Mem(Tail(rest))
<1>1. /\ pc = "free" /\ pc' = "free" /\ rest # <<>> /\ rest' = Tail(rest)
  BY DEF FreeChunk
<1>2. /\ gcmt \in Seq(Addr) /\ Increasing(gcmt) /\ rsocfl \in Seq(Addr) /\ rest \in Seq(Addr)
      /\ Shape(chunk) /\ Table(G, chunk, regions) /\ rsoc_count = Cardinality(regions)
      /\ Decreasing(rest) /\ Once(rsocfl) /\ Mem(rest) \cap Mem(rsocfl) = {}
      /\ Mem(rest) \cup Mem(rsocfl) = FreeIn(G, chunk)
      /\ where \in 0 .. Len(gcmt) /\ Mem(rest) \subseteq Before(gcmt, where + 1)
  BY <1>1 DEF TableInv, FreeLists
<1>3. /\ Tail(rest) \in Seq(Addr) /\ Decreasing(Tail(rest)) /\ c \in Addr
      /\ Mem(rest) = {c} \cup R /\ \A b \in R : b < c
  BY <1>1, <1>2, TailFacts, AddrNat
<1>4. c \notin R /\ c \notin Mem(rsocfl) /\ c \in G
  <2>1. c \in Nat /\ ~(c < c)
    BY <1>3, AddrNat
  <2>2. c \notin R
    BY <1>3, <2>1
  <2> QED
    BY <1>2, <1>3, <2>2 DEF FreeIn
<1>5. CASE /\ ~IsWhole(c) /\ rsocfl' = Cons(c, rsocfl)
           /\ UNCHANGED <<where, gcmt, chunk, regions, rsoc_count>>
  <2>1. Mem(Cons(c, rsocfl)) = {c} \cup Mem(rsocfl) /\ Once(Cons(c, rsocfl)) /\ Cons(c, rsocfl) \in Seq(Addr)
    BY <1>2, <1>3, <1>4, ConsMem, ConsFacts
  <2>2. (Decreasing(rest) /\ Once(rsocfl) /\ Mem(rest) \cap Mem(rsocfl) = {})'
    <3>1. R \cap ({c} \cup Mem(rsocfl)) = {}
      BY <1>2, <1>3, <1>4
    <3>2. Mem(rest') \cap Mem(rsocfl') = {}
      BY <1>1, <1>5, <2>1, <3>1
    <3>3. Decreasing(rest') /\ Once(rsocfl')
      BY <1>1, <1>3, <1>5, <2>1
    <3> QED
      BY <3>2, <3>3 DEF Decreasing, Once, Mem
  <2>3. (Mem(rest) \cup Mem(rsocfl) = FreeIn(Mem(gcmt), chunk))'
    <3>1. R \cup ({c} \cup Mem(rsocfl)) = FreeIn(G, chunk)
      BY <1>2, <1>3
    <3>2. Mem(rest') \cup Mem(rsocfl') = FreeIn(Mem(gcmt'), chunk')
      BY <1>1, <1>5, <2>1, <3>1
    <3> QED
      BY <3>2 DEF Mem, FreeIn
  <2>4. (where \in 0 .. Len(gcmt) /\ Mem(rest) \subseteq Before(gcmt, where + 1))'
    <3>1. R \subseteq Before(gcmt, where + 1)
      BY <1>2, <1>3
    <3>2. Mem(rest') \subseteq Before(gcmt', where' + 1) /\ where' \in 0 .. Len(gcmt')
      BY <1>1, <1>2, <1>5, <3>1
    <3> QED
      BY <3>2 DEF Mem, Before
  <2>5. FreeLists'
    BY <1>1, <2>2, <2>3, <2>4 DEF FreeLists, Sweeping, Rebuilding
  <2> QED
    BY <1>1, <1>2, <1>3, <1>5, <2>1, <2>5 DEF TableInv, Pc, Mem, Increasing
<1>6. CASE /\ IsWhole(c) /\ where' = Search(0, where - 1, c) /\ gcmt' = RemoveAt(gcmt, where' + 1)
           /\ chunk' = [chunk EXCEPT ![c] = NoChunk]
           /\ regions' = {r \in regions : r[1] # c} /\ rsoc_count' = rsoc_count - 1
           /\ rsocfl' = rsocfl
  <2>1. PICK j \in 1 .. Len(gcmt) : gcmt[j] = c /\ j <= where /\ where' = j - 1 /\ gcmt' = RemoveAt(gcmt, j)
    BY <1>6, FreeChunkPlace
  <2>2. j \in Nat /\ j >= 1 /\ j <= where /\ where \in Nat /\ where <= Len(gcmt)
    BY <1>2, <2>1
  <2>3. \A i \in 1 .. Len(gcmt) : gcmt[i] < c => i <= j - 1
    <3> SUFFICES ASSUME NEW i \in 1 .. Len(gcmt), gcmt[i] < c PROVE i <= j - 1
      OBVIOUS
    <3>0. gcmt[i] \in Addr /\ gcmt[j] \in Addr
      BY <1>2
    <3>1. gcmt[i] \in Nat /\ gcmt[j] \in Nat
      BY <3>0, AddrNat
    <3>2. j < i => gcmt[j] < gcmt[i]
      BY <1>2, <2>1 DEF Increasing
    <3> QED
      BY <2>1, <2>2, <3>1, <3>2
  <2>6. where' = j - 1 /\ gcmt' = RemoveAt(gcmt, j)
    BY <2>1
  <2>7. /\ gcmt' \in Seq(Addr) /\ Increasing(gcmt') /\ Mem(gcmt') = G \ {c}
        /\ Len(gcmt') = Len(gcmt) - 1 /\ \A k \in 1 .. j - 1 : gcmt'[k] = gcmt[k]
    <3>1. /\ RemoveAt(gcmt, j) \in Seq(Addr) /\ Increasing(RemoveAt(gcmt, j))
          /\ Len(RemoveAt(gcmt, j)) = Len(gcmt) - 1
          /\ Mem(RemoveAt(gcmt, j)) = Mem(gcmt) \ {gcmt[j]}
          /\ \A k \in 1 .. j - 1 : RemoveAt(gcmt, j)[k] = gcmt[k]
      BY <1>2, RemovedFacts, AddrNat
    <3> QED
      BY <2>1, <2>6, <3>1
  <2> HIDE DEF c, R, G
  <2>8. Shape(chunk') /\ \A a \in Addr : a # c => chunk'[a] = chunk[a]
    <3>1. chunk' = Dropped(chunk, c)
      BY <1>6 DEF Dropped
    <3> QED
      BY <1>2, <3>1, DroppedFacts
  <2>9. \A b \in G \ {c} : chunk'[b] = chunk[b]
    BY <1>2, <2>8 DEF Table, Cells
  <2>10. Table(G \ {c}, chunk', regions') /\ rsoc_count' = Cardinality(regions')
    <3>1. chunk[c].isize = chunk[c].size
      BY <1>6 DEF IsWhole
    <3>2. /\ Table(G \ {c}, chunk', Returned(regions, c))
          /\ Cardinality(Returned(regions, c)) = Cardinality(regions) - 1
      <4>1. Table(G, chunk, regions) /\ c \in G
        BY <1>2, <1>4
      <4>2. WholeOf(chunk, c) /\ SameBut(G, c, chunk, chunk')
        BY <2>9, <3>1 DEF WholeOf, SameBut
      <4>3. FreedWell(G, c, chunk', regions)
        BY <4>1, <4>2, TableFrees
      <4> QED
        BY <4>3 DEF FreedWell
    <3>3. regions' = Returned(regions, c)
      BY <1>6 DEF Returned
    <3> QED
      BY <1>2, <1>6, <3>2, <3>3
  <2>11. FreeIn(G \ {c}, chunk') = FreeIn(G, chunk) \ {c}
    BY <2>9 DEF FreeIn
  <2>12. (Decreasing(rest) /\ Once(rsocfl) /\ Mem(rest) \cap Mem(rsocfl) = {})'
    <3>1. Mem(rest') \cap Mem(rsocfl') = {}
      BY <1>1, <1>2, <1>3, <1>6 DEF R
    <3>2. Decreasing(rest') /\ Once(rsocfl')
      BY <1>1, <1>2, <1>3, <1>6
    <3> QED
      BY <3>1, <3>2 DEF Decreasing, Once, Mem
  <2>13. (Mem(rest) \cup Mem(rsocfl) = FreeIn(Mem(gcmt), chunk))'
    <3>1. R \cup Mem(rsocfl) = FreeIn(G, chunk) \ {c}
      BY <1>2, <1>3, <1>4
    <3>2. Mem(rest') \cup Mem(rsocfl') = FreeIn(Mem(gcmt'), chunk')
      BY <1>1, <1>6, <2>7, <2>11, <3>1 DEF R
    <3> QED
      BY <3>2 DEF Mem, FreeIn
  <2>14. (where \in 0 .. Len(gcmt) /\ Mem(rest) \subseteq Before(gcmt, where + 1))'
    <3>1. where' \in 0 .. Len(gcmt')
      BY <2>1, <2>2, <2>6, <2>7
    <3>2. ASSUME NEW b \in R PROVE b \in Before(gcmt', where' + 1)
      <4>1. PICK k \in 1 .. Len(gcmt) : gcmt[k] = b
        BY <1>2, <1>3, <3>2 DEF Before
      <4>2. k <= j - 1
        BY <1>3, <2>3, <3>2, <4>1
      <4>3. k \in 1 .. j - 1 /\ k \in 1 .. Len(gcmt') /\ k < where' + 1
        BY <2>1, <2>2, <2>6, <2>7, <4>2
      <4>4. gcmt'[k] = b
        BY <2>7, <4>1, <4>3
      <4> QED
        BY <4>3, <4>4 DEF Before
    <3>3. Mem(rest') \subseteq Before(gcmt', where' + 1)
      BY <1>1, <3>2 DEF R
    <3> QED
      BY <3>1, <3>3 DEF Mem, Before
  <2>15. FreeLists'
    BY <1>1, <2>12, <2>13, <2>14 DEF FreeLists, Sweeping, Rebuilding
  <2>16. Table(Mem(gcmt'), chunk', regions')
    BY <2>7, <2>10
  <2> QED
    BY <1>1, <1>2, <1>3, <1>6, <2>7, <2>8, <2>10, <2>15, <2>16 DEF TableInv, Pc, Mem
<1> QED
  BY <1>5, <1>6 DEF FreeChunk

LEMMA EndSweepTable == ASSUME TableInv, EndSweep PROVE TableInv'
<1>1. /\ pc' \in {"run", "resume"} /\ UNCHANGED <<gcmt, chunk, rsocfl, rest, rsoc_count, regions>>
      /\ \/ pc = "enter" /\ p1 > Len(gcmt)
         \/ pc = "free" /\ rest = <<>>
  BY DEF EndSweep, memVars, sweepVars, histVars
<1>2. Once(rsocfl) /\ Mem(rsocfl) = FreeIn(Mem(gcmt), chunk)
  <2>1. CASE pc = "enter" /\ p1 > Len(gcmt)
    <3>1. /\ gcmt \in Seq(Addr) /\ rsocfl \in Seq(Addr) /\ p1 \in 1 .. Len(gcmt) + 1
          /\ Decreasing(rsocfl) /\ Mem(rsocfl) = FreeIn(Before(gcmt, p1), chunk)
      BY <2>1 DEF TableInv, FreeLists, Rebuilding
    <3>2. p1 = Len(gcmt) + 1
      BY <2>1, <3>1
    <3> QED
      BY <3>1, <3>2, BeforeFacts, OrderedOnce, AddrNat
  <2>2. CASE pc = "free" /\ rest = <<>>
    <3>1. Mem(rest) = {}
      BY <2>2 DEF Mem
    <3> QED
      BY <2>2, <3>1 DEF TableInv, FreeLists
  <2> QED
    BY <1>1, <2>1, <2>2
<1>3. FreeLists'
  BY <1>1, <1>2 DEF FreeLists, Sweeping, Rebuilding, FreeIn, Mem, Once
<1> QED
  BY <1>1, <1>3 DEF TableInv, Pc, Mem, Increasing

LEMMA StutterTable == ASSUME TableInv, UNCHANGED vars PROVE TableInv'
<1>1. UNCHANGED <<gcmt, chunk, rsocfl, rsoc_count, regions, rest, pc, p1, where>>
  BY DEF vars, memVars, sweepVars, histVars
<1>2. cur' = cur
  BY <1>1 DEF cur
<1>3. /\ Mem(gcmt') = Mem(gcmt) /\ Mem(rsocfl') = Mem(rsocfl) /\ Mem(rest') = Mem(rest)
      /\ FreeIn(Mem(gcmt'), chunk') = FreeIn(Mem(gcmt), chunk)
      /\ \A n : Before(gcmt', n) = Before(gcmt, n)
      /\ \A n : FreeIn(Before(gcmt', n), chunk') = FreeIn(Before(gcmt, n), chunk)
  BY <1>1
<1>4. FreeLists'
  <2>1. (pc \notin Sweeping)' => (Once(rsocfl) /\ Mem(rsocfl) = FreeIn(Mem(gcmt), chunk))'
    BY <1>1 DEF TableInv, FreeLists, Mem, Once, FreeIn, Sweeping
  <2>2. ASSUME pc' \in Rebuilding
        PROVE  (p1 \in 1 .. Len(gcmt) + 1 /\ Decreasing(rsocfl)
                /\ Mem(rsocfl) = FreeIn(Before(gcmt, p1), chunk))'
    <3>1. p1' \in 1 .. Len(gcmt') + 1 /\ Decreasing(rsocfl')
          /\ Mem(rsocfl') = FreeIn(Before(gcmt', p1'), chunk')
      BY <1>1, <1>3, <2>2 DEF TableInv, FreeLists
    <3> QED
      BY <3>1 DEF Mem, Decreasing, FreeIn, Before
  <2>3. ((pc \in {"sweep", "link"} => p1 <= Len(gcmt)) /\ (pc = "sweep" => chunk[cur].state = "used"))'
    BY <1>1, <1>2 DEF TableInv, FreeLists
  <2>4. ASSUME pc' = "free"
        PROVE  (/\ Decreasing(rest) /\ Once(rsocfl) /\ Mem(rest) \cap Mem(rsocfl) = {}
                /\ Mem(rest) \cup Mem(rsocfl) = FreeIn(Mem(gcmt), chunk)
                /\ where \in 0 .. Len(gcmt) /\ Mem(rest) \subseteq Before(gcmt, where + 1))'
    <3>1. /\ Decreasing(rest') /\ Once(rsocfl') /\ Mem(rest') \cap Mem(rsocfl') = {}
          /\ Mem(rest') \cup Mem(rsocfl') = FreeIn(Mem(gcmt'), chunk')
          /\ where' \in 0 .. Len(gcmt') /\ Mem(rest') \subseteq Before(gcmt', where' + 1)
      BY <1>1, <1>3, <2>4 DEF TableInv, FreeLists
    <3> QED
      BY <3>1 DEF Mem, Decreasing, Once, FreeIn, Before
  <2> QED
    BY <2>1, <2>2, <2>3, <2>4 DEF FreeLists
<1> QED
  BY <1>1, <1>3, <1>4 DEF TableInv, Mem, Increasing

LEMMA TableNext == ASSUME TableInv, [Next]_vars PROVE TableInv'
<1>1. CASE Program \/ Halted
  BY <1>1, ProgramTable
<1>2. CASE New
  BY <1>2, NewTable
<1>3. CASE NewGoesOn
  BY <1>3, NewGoesOnTable
<1>4. CASE FullCollect
  BY <1>4, GcStartTable DEF FullCollect, Sweeping
<1>5. CASE Collector
  BY <1>5, MarkTable, BeginSweepTable, EnterTable, SweepTable, LinkTable, MayFreeTable,
     FreeChunkTable, EndSweepTable DEF Collector
<1>6. CASE UNCHANGED vars
  BY <1>6, StutterTable
<1> QED
  BY <1>1, <1>2, <1>3, <1>4, <1>5, <1>6 DEF Next

(* The table of chunks is right in every state of every execution.         *)
THEOREM TableInvariance == Spec => []TableInv
<1>1. Init => TableInv
  BY TableInit
<1>2. TableInv /\ [Next]_vars => TableInv'
  BY TableNext
<1> QED
  BY <1>1, <1>2, PTL DEF Spec

(* ChunkTable holds in every state the invariant allows.                   *)
LEMMA TableImplies == ASSUME TableInv PROVE ChunkTable
<1> DEFINE G == Mem(gcmt)
<1>1. /\ gcmt \in Seq(Addr) /\ Increasing(gcmt) /\ rsocfl \in Seq(Addr)
      /\ Table(G, chunk, regions) /\ rsoc_count = Cardinality(regions)
  BY DEF TableInv
<1>2. Chunks = G /\ ToSet(rsocfl) = Mem(rsocfl)
  BY <1>1 DEF Chunks, Mem, ToSet
<1> SUFFICES ASSUME AtRest
             PROVE  /\ \A i \in 1..Len(gcmt) - 1 : End(gcmt[i]) <= gcmt[i + 1]
                    /\ \A c \in Chunks : \E r \in regions : r[1] <= c /\ End(c) <= r[1] + r[2]
                    /\ ToSet(rsocfl) = {c \in Chunks : chunk[c].state = "free"}
                    /\ IsInjective(rsocfl)
                    /\ rsoc_count = Cardinality(regions)
  BY DEF ChunkTable
<1>3. Once(rsocfl) /\ Mem(rsocfl) = FreeIn(G, chunk)
  BY DEF AtRest, TableInv, FreeLists, Sweeping
<1>4. IsInjective(rsocfl)
  BY <1>1, <1>3 DEF Once, IsInjective
<1>5. ASSUME NEW i \in 1 .. Len(gcmt) - 1 PROVE End(gcmt[i]) <= gcmt[i + 1]
  <2>1. i \in 1 .. Len(gcmt) /\ i + 1 \in 1 .. Len(gcmt) /\ i < i + 1
    BY <1>1
  <2>2. gcmt[i] \in G /\ gcmt[i + 1] \in G /\ gcmt[i] < gcmt[i + 1]
    BY <1>1, <2>1 DEF Mem, Increasing
  <2> QED
    BY <1>1, <2>2 DEF Table, Cells, ChunkEnd, End
<1>6. \A c \in Chunks : \E r \in regions : r[1] <= c /\ End(c) <= r[1] + r[2]
  BY <1>1, <1>2 DEF Table, Regions, ChunkEnd, End
<1> QED
  BY <1>1, <1>2, <1>3, <1>4, <1>5, <1>6 DEF FreeIn

(* The table of chunks stays sorted and its chunks lie apart in memory     *)
(* that malloc gave, through every split, merge and return of a chunk      *)
(* (new_na, gc_sweep, may_free_rsocfl); rsocfl has the free chunks, each   *)
(* once, and rsoc_count counts the blocks obtained from malloc.            *)
THEOREM TableKept == Spec => []ChunkTable
BY TableInvariance, TableImplies, PTL
-----------------------------------------------------------------------------
(* The blocks of the used chunks.  sz[h] is the size of the block at h: what *)
(* its header says, or store_left if it is the store of a type.            *)
Block(n, f) == [size |-> n, flag |-> f]
Env(n, h, c, l) == [store_left |-> n, store |-> h, store_chunk |-> c, chunk_list |-> l]
InC(ck, c, h) == First(c) <= h /\ h < ChunkEnd(ck, c)
UsedIn(G, ck) == {c \in G : ck[c].state = "used"}
IsStore(nv, h) == \E t \in Types : nv[t].store_left > 0 /\ nv[t].store = h
StartsOf(ar) == {a[1] : a \in ar}

UsedApart(U, ck) ==
  /\ \A c \in U : c \in Addr /\ ck[c].size \in Nat /\ ck[c].size > Overhead + 1
  /\ \A c \in U : ChunkEnd(ck, c) <= Memory + 1
  /\ \A c, d \in U : c < d => ChunkEnd(ck, c) <= d

(* A large chunk has one block, the blocks of another one fill it.         *)
FitsIn(ck, c, h, hd, sz) ==
  /\ h + sz[h] <= ChunkEnd(ck, c)
  /\ ck[c].size > RSOC_SIZE => h = First(c)
  /\ ck[c].size <= RSOC_SIZE => h + sz[h] \in hd \/ h + sz[h] = ChunkEnd(ck, c)

Tiles(U, ck, hd, sz) ==
  /\ UsedApart(U, ck)
  /\ \A c \in U : First(c) \in hd
  /\ \A h \in hd : h \in Addr /\ sz[h] \in Nat /\ sz[h] > 1
  /\ \A h \in hd : \E c \in U : InC(ck, c, h) /\ FitsIn(ck, c, h, hd, sz)
  /\ \A g, h \in hd : g < h => g + sz[g] <= h

(* Every block is the store of a type, an array or free.                   *)
Contents(rs, nv, hd, ar, sz) ==
  /\ \A a \in ar : /\ a = <<a[1], a[2]>> /\ a[1] \in hd /\ ~IsStore(nv, a[1])
                   /\ a[2] \in Nat /\ a[2] <= sz[a[1]]
  /\ \A a, b \in ar : a[1] = b[1] => a = b
  /\ \A h \in hd : ~IsStore(nv, h) =>
       /\ sz[h] = rs[h].size
       /\ h \in StartsOf(ar) => rs[h].flag \in {UNMARKED, MARKED}
       /\ h \notin StartsOf(ar) => rs[h].flag = FREE

StoreIn(U, ck, nv, hd, sz, t) ==
  nv[t].store_left > 0 =>
    /\ nv[t].store \in hd /\ sz[nv[t].store] = nv[t].store_left
    /\ nv[t].store_chunk # 0 /\ InC(ck, nv[t].store_chunk, nv[t].store)
    /\ ck[nv[t].store_chunk].size <= RSOC_SIZE

ChunksOf(U, ck, nv, t) ==
  /\ nv[t].store_chunk # 0 => nv[t].store_chunk \in U /\ ck[nv[t].store_chunk].nae = t
  /\ nv[t].chunk_list \in Seq(Addr)
  /\ \A c \in Mem(nv[t].chunk_list) : c \in U /\ ck[c].nae = t

Stores(U, ck, nv, hd, sz) ==
  \A t \in Types : nv[t].store_left \in Nat /\ StoreIn(U, ck, nv, hd, sz, t) /\ ChunksOf(U, ck, nv, t)

(* The free lists of the chunks have free blocks, each once.               *)
FreeBlock(nv, hd, ar, f) == f \in hd /\ f \notin StartsOf(ar) /\ ~IsStore(nv, f)
Listed(ck, nv, hd, ar, c) ==
  /\ ck[c].flol \in Seq(Addr) /\ Once(ck[c].flol)
  /\ ck[c].flol # <<>> => ck[c].size <= RSOC_SIZE
  /\ \A f \in Mem(ck[c].flol) : FreeBlock(nv, hd, ar, f) /\ InC(ck, c, f)
Lists(U, ck, nv, hd, ar) == \A c \in U : Listed(ck, nv, hd, ar, c)

Heap(U, ck, rs, nv, hd, ar, sz) ==
  /\ Tiles(U, ck, hd, sz) /\ Contents(rs, nv, hd, ar, sz)
  /\ Stores(U, ck, nv, hd, sz) /\ Lists(U, ck, nv, hd, ar)
Good(U, ck, rs, nv, hd, ar) == \E sz : Heap(U, ck, rs, nv, hd, ar, sz)

LEMMA FirstNat == \A a \in Addr : a \in Nat /\ First(a) \in Nat /\ First(a) = a + Overhead /\ a < First(a)
BY AddrNat, RsoAssumption DEF First

(* A block is in one chunk.                                                *)
LEMMA OneChunk ==
  ASSUME NEW U, NEW ck, UsedApart(U, ck), NEW c \in U, NEW d \in U, NEW h \in Addr,
         InC(ck, c, h), InC(ck, d, h)
  PROVE  c = d
<1>1. /\ c \in Nat /\ d \in Nat /\ h \in Nat /\ c < First(c) /\ d < First(d)
      /\ ck[c].size \in Nat /\ ck[d].size \in Nat /\ First(c) \in Nat /\ First(d) \in Nat
  BY FirstNat, AddrNat DEF UsedApart
<1>2. ~(c < d)
  <2> SUFFICES ASSUME c < d PROVE FALSE
    OBVIOUS
  <2>1. ChunkEnd(ck, c) <= d
    BY DEF UsedApart
  <2> QED
    BY <1>1, <2>1 DEF InC, ChunkEnd
<1>3. ~(d < c)
  <2> SUFFICES ASSUME d < c PROVE FALSE
    OBVIOUS
  <2>1. ChunkEnd(ck, d) <= c
    BY DEF UsedApart
  <2> QED
    BY <1>1, <2>1 DEF InC, ChunkEnd
<1> QED
  BY <1>1, <1>2, <1>3

LEMMA FitsChunk ==
  ASSUME NEW U, NEW ck, NEW hd, NEW sz, Tiles(U, ck, hd, sz), NEW h \in hd, NEW c \in U, InC(ck, c, h)
  PROVE  FitsIn(ck, c, h, hd, sz)
<1>1. PICK d \in U : InC(ck, d, h) /\ FitsIn(ck, d, h, hd, sz)
  BY DEF Tiles
<1>2. h \in Addr /\ UsedApart(U, ck)
  BY DEF Tiles
<1>3. c = d
  BY <1>1, <1>2, OneChunk
<1> QED
  BY <1>1, <1>3

LEMMA FirstIn ==
  ASSUME NEW U, NEW ck, UsedApart(U, ck), NEW c \in U PROVE InC(ck, c, First(c))
BY FirstNat, RsoAssumption DEF UsedApart, InC, ChunkEnd, First

(* Two types have two stores.                                              *)
LEMMA OneStore ==
  ASSUME NEW U, NEW ck, NEW rs, NEW nv, NEW hd, NEW ar, NEW sz, Heap(U, ck, rs, nv, hd, ar, sz),
         NEW t \in Types, NEW u \in Types, nv[t].store_left > 0, nv[u].store_left > 0,
         nv[t].store = nv[u].store
  PROVE  t = u
<1>1. /\ nv[t].store \in hd /\ nv[t].store_chunk \in U /\ ck[nv[t].store_chunk].nae = t
      /\ InC(ck, nv[t].store_chunk, nv[t].store)
  BY DEF Heap, Stores, StoreIn, ChunksOf
<1>2. /\ nv[u].store_chunk \in U /\ ck[nv[u].store_chunk].nae = u
      /\ InC(ck, nv[u].store_chunk, nv[u].store)
  BY DEF Heap, Stores, StoreIn, ChunksOf
<1>3. nv[t].store \in Addr /\ UsedApart(U, ck)
  BY <1>1 DEF Heap, Tiles
<1>4. nv[t].store_chunk = nv[u].store_chunk
  BY <1>1, <1>2, <1>3, OneChunk
<1> QED
  BY <1>1, <1>2, <1>4
-----------------------------------------------------------------------------
(* What a step changes, in words the lemmas below can take as hypotheses.  *)
OnlyBlock(rs, rs2, h) == \A a \in Addr : a # h => rs2[a] = rs[a]
OnlyEnv(nv, nv2, t) == \A u \in Types : u # t => nv2[u] = nv[u]
SameChunks2(U, ck, ck2) == \A c \in U : ck2[c] = ck[c]
OnlyFlol(U, ck, ck2, c) ==
  /\ ck2[c].size = ck[c].size /\ ck2[c].nae = ck[c].nae
  /\ \A d \in U : d # c => ck2[d] = ck[d]
Valid(rs, nv, t) ==
  nv[t].store_left > 0 => rs[nv[t].store].size = nv[t].store_left /\ rs[nv[t].store].flag = FREE

(* Tiles depends on the sizes of the used chunks only.                     *)
SizesSame(U, ck, ck2) == \A c \in U : ck2[c].size = ck[c].size
LEMMA TilesKept ==
  ASSUME NEW U, NEW ck, NEW hd, NEW sz, Tiles(U, ck, hd, sz), NEW ck2, SizesSame(U, ck, ck2)
  PROVE  Tiles(U, ck2, hd, sz)
<1>1. \A c \in U : ck2[c].size = ck[c].size /\ ChunkEnd(ck2, c) = ChunkEnd(ck, c)
  BY DEF SizesSame, ChunkEnd
<1>2. UsedApart(U, ck2)
  BY <1>1 DEF Tiles, UsedApart
<1>3. ASSUME NEW h \in hd PROVE \E c \in U : InC(ck2, c, h) /\ FitsIn(ck2, c, h, hd, sz)
  <2>1. PICK c \in U : InC(ck, c, h) /\ FitsIn(ck, c, h, hd, sz)
    BY DEF Tiles
  <2> QED
    BY <1>1, <2>1 DEF InC, FitsIn
<1> QED
  BY <1>2, <1>3 DEF Tiles

(* Chunks other than the used ones do not matter.                          *)
LEMMA HeapFrame ==
  ASSUME NEW U, NEW ck, NEW rs, NEW nv, NEW hd, NEW ar, Good(U, ck, rs, nv, hd, ar),
         NEW ck2, SameChunks2(U, ck, ck2)
  PROVE  Good(U, ck2, rs, nv, hd, ar)
<1>1. PICK sz : Heap(U, ck, rs, nv, hd, ar, sz)
  BY DEF Good
<1>2. \A c \in U : ck2[c] = ck[c] /\ ChunkEnd(ck2, c) = ChunkEnd(ck, c)
  BY DEF SameChunks2, ChunkEnd
<1>3. Tiles(U, ck2, hd, sz)
  BY <1>1, <1>2, TilesKept DEF Heap, SizesSame
<1>4. Stores(U, ck2, nv, hd, sz)
  <2> SUFFICES ASSUME NEW t \in Types
               PROVE  nv[t].store_left \in Nat /\ StoreIn(U, ck2, nv, hd, sz, t) /\ ChunksOf(U, ck2, nv, t)
    BY DEF Stores
  <2>1. nv[t].store_left \in Nat /\ StoreIn(U, ck, nv, hd, sz, t) /\ ChunksOf(U, ck, nv, t)
    BY <1>1 DEF Heap, Stores
  <2>2. ChunksOf(U, ck2, nv, t)
    BY <1>2, <2>1 DEF ChunksOf
  <2>3. StoreIn(U, ck2, nv, hd, sz, t)
    BY <1>2, <2>1 DEF StoreIn, ChunksOf, InC
  <2> QED
    BY <2>1, <2>2, <2>3
<1>5. Lists(U, ck2, nv, hd, ar)
  <2> SUFFICES ASSUME NEW c \in U PROVE Listed(ck2, nv, hd, ar, c)
    BY DEF Lists
  <2>1. Listed(ck, nv, hd, ar, c)
    BY <1>1 DEF Heap, Lists
  <2> QED
    BY <1>2, <2>1 DEF Listed, InC
<1> QED
  BY <1>1, <1>3, <1>4, <1>5 DEF Heap, Good

(* The header of the store of t is written, while it is a store.           *)
LEMMA StoreHeaderWritten ==
  ASSUME NEW U, NEW ck, NEW rs, NEW nv, NEW hd, NEW ar, Good(U, ck, rs, nv, hd, ar),
         NEW t \in Types, nv[t].store_left > 0, NEW rs2, OnlyBlock(rs, rs2, nv[t].store)
  PROVE  Good(U, ck, rs2, nv, hd, ar)
<1>1. PICK sz : Heap(U, ck, rs, nv, hd, ar, sz)
  BY DEF Good
<1>2. \A h \in hd : h \in Addr /\ (~IsStore(nv, h) => h # nv[t].store)
  BY <1>1 DEF Heap, Tiles, IsStore
<1>3. \A h \in hd : ~IsStore(nv, h) => rs2[h] = rs[h]
  BY <1>2 DEF OnlyBlock
<1>4. Contents(rs2, nv, hd, ar, sz)
  BY <1>1, <1>3 DEF Heap, Contents
<1> QED
  BY <1>1, <1>4 DEF Heap, Good

(* Only marks of arrays change.                                            *)
MarksOnly(rs, rs2, hd, ar) ==
  \A h \in hd : /\ rs2[h].size = rs[h].size
                /\ h \notin StartsOf(ar) => rs2[h] = rs[h]
                /\ h \in StartsOf(ar) => rs2[h].flag \in {UNMARKED, MARKED}
LEMMA HeapMarks ==
  ASSUME NEW U, NEW ck, NEW rs, NEW nv, NEW hd, NEW ar, Good(U, ck, rs, nv, hd, ar),
         NEW rs2, MarksOnly(rs, rs2, hd, ar)
  PROVE  Good(U, ck, rs2, nv, hd, ar)
<1>1. PICK sz : Heap(U, ck, rs, nv, hd, ar, sz)
  BY DEF Good
<1>2. Contents(rs2, nv, hd, ar, sz)
  BY <1>1 DEF Heap, Contents, MarksOnly
<1> QED
  BY <1>1, <1>2 DEF Heap, Good

(* The store of t, whose header is written, becomes a free block.          *)
LEMMA StoreDropped ==
  ASSUME NEW U, NEW ck, NEW rs, NEW nv, NEW hd, NEW ar, Good(U, ck, rs, nv, hd, ar),
         NEW t \in Types, Valid(rs, nv, t), NEW nv2, OnlyEnv(nv, nv2, t),
         nv2[t].store_left = 0, nv2[t].store_chunk = nv[t].store_chunk,
         nv2[t].chunk_list = nv[t].chunk_list
  PROVE  Good(U, ck, rs, nv2, hd, ar)
<1>1. PICK sz : Heap(U, ck, rs, nv, hd, ar, sz)
  BY DEF Good
<1>2. \A h : IsStore(nv2, h) => IsStore(nv, h)
  BY DEF IsStore, OnlyEnv
<1>3. \A h : IsStore(nv, h) /\ ~IsStore(nv2, h) => nv[t].store_left > 0 /\ h = nv[t].store
  BY DEF IsStore, OnlyEnv
<1>4. nv[t].store_left > 0 => sz[nv[t].store] = nv[t].store_left /\ nv[t].store \notin StartsOf(ar)
  BY <1>1 DEF Heap, Stores, StoreIn, Contents, IsStore, StartsOf
<1>5. Contents(rs, nv2, hd, ar, sz)
  BY <1>1, <1>2, <1>3, <1>4 DEF Heap, Contents, Valid
<1>6. Stores(U, ck, nv2, hd, sz)
  <2> SUFFICES ASSUME NEW u \in Types
               PROVE  nv2[u].store_left \in Nat /\ StoreIn(U, ck, nv2, hd, sz, u) /\ ChunksOf(U, ck, nv2, u)
    BY DEF Stores
  <2>1. nv[u].store_left \in Nat /\ StoreIn(U, ck, nv, hd, sz, u) /\ ChunksOf(U, ck, nv, u)
    BY <1>1 DEF Heap, Stores
  <2>2. CASE u = t
    BY <2>1, <2>2 DEF StoreIn, ChunksOf
  <2>3. CASE u # t
    BY <2>1, <2>3 DEF StoreIn, ChunksOf, OnlyEnv
  <2> QED
    BY <2>2, <2>3
<1>7. Lists(U, ck, nv2, hd, ar)
  BY <1>1, <1>2 DEF Heap, Lists, Listed, FreeBlock
<1> QED
  BY <1>1, <1>5, <1>6, <1>7 DEF Heap, Good

(* A type without a store gets other lists of chunks.                      *)
LEMMA ListsChanged ==
  ASSUME NEW U, NEW ck, NEW rs, NEW nv, NEW hd, NEW ar, Good(U, ck, rs, nv, hd, ar),
         NEW t \in Types, NEW nv2, OnlyEnv(nv, nv2, t), nv2[t].store_left = nv[t].store_left,
         nv2[t].store = nv[t].store,
         nv2[t].store_chunk = nv[t].store_chunk \/ nv[t].store_left = 0,
         ChunksOf(U, ck, nv2, t)
  PROVE  Good(U, ck, rs, nv2, hd, ar)
<1>1. PICK sz : Heap(U, ck, rs, nv, hd, ar, sz)
  BY DEF Good
<1>2. \A h : IsStore(nv2, h) <=> IsStore(nv, h)
  <2>1. \A u \in Types : nv2[u].store_left = nv[u].store_left /\ nv2[u].store = nv[u].store
    BY DEF OnlyEnv
  <2> QED
    BY <2>1 DEF IsStore
<1>5. Contents(rs, nv2, hd, ar, sz)
  BY <1>1, <1>2 DEF Heap, Contents
<1>6. Stores(U, ck, nv2, hd, sz)
  <2> SUFFICES ASSUME NEW u \in Types
               PROVE  nv2[u].store_left \in Nat /\ StoreIn(U, ck, nv2, hd, sz, u) /\ ChunksOf(U, ck, nv2, u)
    BY DEF Stores
  <2>1. nv[u].store_left \in Nat /\ StoreIn(U, ck, nv, hd, sz, u) /\ ChunksOf(U, ck, nv, u)
    BY <1>1 DEF Heap, Stores
  <2>2. CASE u = t
    BY <2>1, <2>2 DEF StoreIn, ChunksOf
  <2>3. CASE u # t
    BY <2>1, <2>3 DEF StoreIn, ChunksOf, OnlyEnv
  <2> QED
    BY <2>2, <2>3
<1>7. Lists(U, ck, nv2, hd, ar)
  BY <1>1, <1>2 DEF Heap, Lists, Listed, FreeBlock
<1> QED
  BY <1>1, <1>5, <1>6, <1>7 DEF Heap, Good
-----------------------------------------------------------------------------
(* A free block enters the free list of its chunk, leaves it, becomes the  *)
(* store of a type.                                                        *)
LEMMA FlolChange ==
  ASSUME NEW U, NEW ck, NEW rs, NEW nv, NEW hd, NEW ar, Good(U, ck, rs, nv, hd, ar),
         NEW c \in U, NEW ck2, OnlyFlol(U, ck, ck2, c), Listed(ck2, nv, hd, ar, c)
  PROVE  Good(U, ck2, rs, nv, hd, ar)
<1>1. PICK sz : Heap(U, ck, rs, nv, hd, ar, sz)
  BY DEF Good
<1>2. \A d \in U : ck2[d].size = ck[d].size /\ ck2[d].nae = ck[d].nae /\ ChunkEnd(ck2, d) = ChunkEnd(ck, d)
  BY DEF OnlyFlol, ChunkEnd
<1>3. Tiles(U, ck2, hd, sz)
  BY <1>1, <1>2, TilesKept DEF Heap, SizesSame
<1>4. Stores(U, ck2, nv, hd, sz)
  <2> SUFFICES ASSUME NEW t \in Types
               PROVE  nv[t].store_left \in Nat /\ StoreIn(U, ck2, nv, hd, sz, t) /\ ChunksOf(U, ck2, nv, t)
    BY DEF Stores
  <2>1. nv[t].store_left \in Nat /\ StoreIn(U, ck, nv, hd, sz, t) /\ ChunksOf(U, ck, nv, t)
    BY <1>1 DEF Heap, Stores
  <2>2. ChunksOf(U, ck2, nv, t)
    BY <1>2, <2>1 DEF ChunksOf
  <2>3. StoreIn(U, ck2, nv, hd, sz, t)
    BY <1>2, <2>1 DEF StoreIn, ChunksOf, InC
  <2> QED
    BY <2>1, <2>2, <2>3
<1>5. Lists(U, ck2, nv, hd, ar)
  <2> SUFFICES ASSUME NEW d \in U PROVE Listed(ck2, nv, hd, ar, d)
    BY DEF Lists
  <2>1. Listed(ck, nv, hd, ar, d)
    BY <1>1 DEF Heap, Lists
  <2>2. CASE d = c
    BY <2>2
  <2>3. CASE d # c
    BY <1>2, <2>1, <2>3 DEF Listed, InC, OnlyFlol
  <2> QED
    BY <2>2, <2>3
<1> QED
  BY <1>1, <1>3, <1>4, <1>5 DEF Heap, Good

LEMMA EmptyFlol ==
  ASSUME NEW U, NEW ck, NEW rs, NEW nv, NEW hd, NEW ar, Good(U, ck, rs, nv, hd, ar),
         NEW c \in U, NEW ck2, OnlyFlol(U, ck, ck2, c), ck2[c].flol = <<>>
  PROVE  Good(U, ck2, rs, nv, hd, ar)
<1>1. Listed(ck2, nv, hd, ar, c)
  BY DEF Listed, Once, Mem
<1> QED
  BY <1>1, FlolChange

LEMMA ListedOf ==
  ASSUME NEW U, NEW ck, NEW rs, NEW nv, NEW hd, NEW ar, Good(U, ck, rs, nv, hd, ar), NEW c \in U
  PROVE  Listed(ck, nv, hd, ar, c)
BY DEF Good, Heap, Lists

LEMMA Filed ==
  ASSUME NEW U, NEW ck, NEW rs, NEW nv, NEW hd, NEW ar, Good(U, ck, rs, nv, hd, ar),
         NEW c \in U, ck[c].size <= RSOC_SIZE, NEW ck2, OnlyFlol(U, ck, ck2, c),
         NEW h, FreeBlock(nv, hd, ar, h), InC(ck, c, h), h \notin Mem(ck[c].flol),
         ck2[c].flol = Cons(h, ck[c].flol)
  PROVE  Good(U, ck2, rs, nv, hd, ar)
<1>1. Listed(ck, nv, hd, ar, c)
  BY ListedOf
<1>2. h \in Addr
  BY DEF FreeBlock, Good, Heap, Tiles
<1>3. /\ Cons(h, ck[c].flol) \in Seq(Addr) /\ Once(Cons(h, ck[c].flol))
      /\ Mem(Cons(h, ck[c].flol)) = {h} \cup Mem(ck[c].flol)
  <2> DEFINE l == ck[c].flol
  <2>1. l \in Seq(Addr) /\ Once(l) /\ h \notin Mem(l)
    BY <1>1 DEF Listed
  <2> HIDE DEF l
  <2>2. Cons(h, l) \in Seq(Addr)
    BY <1>2, <2>1, ConsFacts
  <2>3. Once(Cons(h, l)) /\ Mem(Cons(h, l)) = {h} \cup Mem(l)
    BY <1>2, <2>1, ConsMem
  <2> QED
    BY <2>2, <2>3 DEF l
<1>4. \A f : InC(ck2, c, f) <=> InC(ck, c, f)
  BY DEF InC, ChunkEnd, OnlyFlol
<1>5. Listed(ck2, nv, hd, ar, c)
  BY <1>1, <1>3, <1>4 DEF Listed, OnlyFlol
<1> QED
  BY <1>5, FlolChange

Shortened(ck, ck2, c, i) == i \in 1 .. Len(ck[c].flol) /\ ck2[c].flol = RemoveAt(ck[c].flol, i)
LEMMA Unfiled ==
  ASSUME NEW U, NEW ck, NEW rs, NEW nv, NEW hd, NEW ar, Good(U, ck, rs, nv, hd, ar),
         NEW c \in U, NEW ck2, OnlyFlol(U, ck, ck2, c), NEW i, Shortened(ck, ck2, c, i)
  PROVE  /\ Good(U, ck2, rs, nv, hd, ar)
         /\ Mem(ck2[c].flol) = Mem(ck[c].flol) \ {ck[c].flol[i]}
<1>1. Listed(ck, nv, hd, ar, c)
  BY ListedOf
<1>2. /\ RemoveAt(ck[c].flol, i) \in Seq(Addr) /\ Once(RemoveAt(ck[c].flol, i))
      /\ Mem(RemoveAt(ck[c].flol, i)) = Mem(ck[c].flol) \ {ck[c].flol[i]}
  BY <1>1, RemoveAtFacts, RemoveAtMem DEF Listed, Shortened
<1>3. ck[c].flol # <<>>
  BY <1>1 DEF Listed, Shortened
<1>4. \A f : InC(ck2, c, f) <=> InC(ck, c, f)
  BY DEF InC, ChunkEnd, OnlyFlol
<1>5. Listed(ck2, nv, hd, ar, c)
  BY <1>1, <1>2, <1>3, <1>4 DEF Listed, OnlyFlol, Shortened
<1> QED
  BY <1>2, <1>5, FlolChange DEF Shortened

LEMMA StoreTaken ==
  ASSUME NEW U, NEW ck, NEW rs, NEW nv, NEW hd, NEW ar, Good(U, ck, rs, nv, hd, ar),
         NEW t \in Types, nv[t].store_left = 0, NEW c \in U, ck[c].nae = t, ck[c].size <= RSOC_SIZE,
         NEW h, FreeBlock(nv, hd, ar, h), InC(ck, c, h), h \notin Mem(ck[c].flol),
         NEW nv2, OnlyEnv(nv, nv2, t), nv2[t].store_left = rs[h].size, nv2[t].store = h,
         nv2[t].store_chunk = c, nv2[t].chunk_list = nv[t].chunk_list
  PROVE  Good(U, ck, rs, nv2, hd, ar) /\ nv2[t].store_left > 1
<1>1. PICK sz : Heap(U, ck, rs, nv, hd, ar, sz)
  BY DEF Good
<1>2. /\ h \in hd /\ h \in Addr /\ sz[h] = rs[h].size /\ sz[h] \in Nat /\ sz[h] > 1 /\ h \notin StartsOf(ar)
      /\ ~IsStore(nv, h)
  BY <1>1 DEF FreeBlock, Heap, Tiles, Contents
<1>3. \A g : IsStore(nv2, g) <=> IsStore(nv, g) \/ g = h
  <2>1. \A u \in Types : u # t => nv2[u] = nv[u]
    BY DEF OnlyEnv
  <2>2. nv2[t].store_left > 0
    BY <1>2
  <2> QED
    BY <2>1, <2>2 DEF IsStore
<1>4. Contents(rs, nv2, hd, ar, sz)
  <2>1. \A a \in ar : a[1] # h
    BY <1>2 DEF StartsOf
  <2> QED
    BY <1>1, <1>3, <2>1 DEF Heap, Contents
<1>5. c \in Addr /\ c # 0
  BY <1>1, AddrNat DEF Heap, Tiles, UsedApart
<1>6. Stores(U, ck, nv2, hd, sz)
  <2> SUFFICES ASSUME NEW u \in Types
               PROVE  nv2[u].store_left \in Nat /\ StoreIn(U, ck, nv2, hd, sz, u) /\ ChunksOf(U, ck, nv2, u)
    BY DEF Stores
  <2>1. nv[u].store_left \in Nat /\ StoreIn(U, ck, nv, hd, sz, u) /\ ChunksOf(U, ck, nv, u)
    BY <1>1 DEF Heap, Stores
  <2>2. CASE u = t
    BY <1>2, <1>5, <2>1, <2>2 DEF StoreIn, ChunksOf
  <2>3. CASE u # t
    BY <2>1, <2>3 DEF StoreIn, ChunksOf, OnlyEnv
  <2> QED
    BY <2>2, <2>3
<1>7. Lists(U, ck, nv2, hd, ar)
  <2> SUFFICES ASSUME NEW d \in U PROVE Listed(ck, nv2, hd, ar, d)
    BY DEF Lists
  <2>1. Listed(ck, nv, hd, ar, d)
    BY <1>1 DEF Heap, Lists
  <2>2. h \notin Mem(ck[d].flol)
    <3> SUFFICES ASSUME h \in Mem(ck[d].flol) PROVE FALSE
      OBVIOUS
    <3>1. InC(ck, d, h)
      BY <2>1 DEF Listed
    <3>2. d = c
      BY <1>1, <1>2, <3>1, OneChunk DEF Heap, Tiles
    <3> QED
      BY <3>2
  <2> QED
    BY <1>3, <2>1, <2>2 DEF Listed, FreeBlock
<1> QED
  BY <1>1, <1>2, <1>4, <1>6, <1>7 DEF Heap, Good
-----------------------------------------------------------------------------
(* rso_from_store: the beginning of the store becomes an array.            *)
Written(rs, rs2, h, s) ==
  /\ rs2[h].size = s /\ rs2[h].flag = UNMARKED
  /\ \A a \in Addr : a \notin h .. h + s - 1 => rs2[a] = rs[a]

LEMMA OthersKept ==
  ASSUME NEW U, NEW ck, NEW hd, NEW sz, Tiles(U, ck, hd, sz), NEW h \in hd,
         NEW s \in Nat, s <= sz[h], NEW rs, NEW rs2, Written(rs, rs2, h, s)
  PROVE  \A g \in hd : g # h => rs2[g] = rs[g]
<1> SUFFICES ASSUME NEW g \in hd, g # h PROVE rs2[g] = rs[g]
  OBVIOUS
<1>1. g \in Addr /\ h \in Addr /\ sz[h] \in Nat
  BY DEF Tiles
<1>2. g \in Nat /\ h \in Nat
  BY <1>1, AddrNat
<1>3. h < g => h + sz[h] <= g
  BY DEF Tiles
<1>4. g \notin h .. h + s - 1
  BY <1>1, <1>2, <1>3
<1> QED
  BY <1>1, <1>4 DEF Written

LEMMA StoreAt ==
  ASSUME NEW U, NEW ck, NEW rs, NEW nv, NEW hd, NEW ar, NEW sz, Heap(U, ck, rs, nv, hd, ar, sz),
         NEW t \in Types, nv[t].store_left > 0
  PROVE  /\ nv[t].store \in hd /\ nv[t].store \in Addr /\ sz[nv[t].store] = nv[t].store_left
         /\ nv[t].store_left \in Nat /\ IsStore(nv, nv[t].store)
         /\ nv[t].store \notin StartsOf(ar)
         /\ nv[t].store_chunk \in U /\ ck[nv[t].store_chunk].nae = t /\ ck[nv[t].store_chunk].size <= RSOC_SIZE
         /\ InC(ck, nv[t].store_chunk, nv[t].store)
         /\ nv[t].store_chunk # 0
<1>1. nv[t].store_left \in Nat /\ StoreIn(U, ck, nv, hd, sz, t) /\ ChunksOf(U, ck, nv, t)
  BY DEF Heap, Stores
<1>2. IsStore(nv, nv[t].store)
  BY DEF IsStore
<1>3. nv[t].store \notin StartsOf(ar)
  BY <1>2 DEF Heap, Contents, StartsOf
<1> QED
  BY <1>1, <1>2, <1>3 DEF StoreIn, ChunksOf, Heap, Tiles

LEMMA StartsAdded == ASSUME NEW ar, NEW h, NEW n PROVE StartsOf(ar \cup {<<h, n>>}) = StartsOf(ar) \cup {h}
<1> DEFINE x == <<h, n>>
<1>1. x[1] = h
  OBVIOUS
<1> HIDE DEF x
<1>2. StartsOf(ar \cup {x}) = StartsOf(ar) \cup {x[1]}
  BY DEF StartsOf
<1> QED
  BY <1>1, <1>2 DEF x

LEMMA WholeTaken ==
  ASSUME NEW U, NEW ck, NEW rs, NEW nv, NEW hd, NEW ar, Good(U, ck, rs, nv, hd, ar),
         NEW t \in Types, nv[t].store_left > 0, NEW n \in Nat, n <= nv[t].store_left,
         NEW rs2, Written(rs, rs2, nv[t].store, nv[t].store_left),
         NEW nv2, OnlyEnv(nv, nv2, t), nv2[t].store_left = 0,
         nv2[t].store_chunk = nv[t].store_chunk, nv2[t].chunk_list = nv[t].chunk_list
  PROVE  Good(U, ck, rs2, nv2, hd, ar \cup {<<nv[t].store, n>>})
<1> DEFINE h == nv[t].store
           ar2 == ar \cup {<<h, n>>}
<1>1. PICK sz : Heap(U, ck, rs, nv, hd, ar, sz)
  BY DEF Good
<1>2. /\ h \in hd /\ sz[h] = nv[t].store_left /\ nv[t].store_left \in Nat /\ IsStore(nv, h)
      /\ h \notin StartsOf(ar)
  BY <1>1, StoreAt
<1>3. \A g \in hd : g # h => rs2[g] = rs[g]
  BY <1>1, <1>2, OthersKept DEF Heap
<1>4. \A g : IsStore(nv2, g) <=> IsStore(nv, g) /\ g # h
  <2>1. ASSUME NEW u \in Types, nv[u].store_left > 0, u # t PROVE nv[u].store # h
    BY <1>1, <2>1, OneStore
  <2>2. ~(nv2[t].store_left > 0)
    OBVIOUS
  <2>3. ASSUME NEW g, IsStore(nv2, g) PROVE IsStore(nv, g) /\ g # h
    <3>1. PICK u \in Types : nv2[u].store_left > 0 /\ nv2[u].store = g
      BY <2>3 DEF IsStore
    <3>2. u # t /\ nv2[u] = nv[u]
      BY <2>2, <3>1 DEF OnlyEnv
    <3> QED
      BY <2>1, <3>1, <3>2 DEF IsStore
  <2>4. ASSUME NEW g, IsStore(nv, g), g # h PROVE IsStore(nv2, g)
    <3>1. PICK u \in Types : nv[u].store_left > 0 /\ nv[u].store = g
      BY <2>4 DEF IsStore
    <3>2. u # t /\ nv2[u] = nv[u]
      BY <2>4, <3>1 DEF OnlyEnv
    <3> QED
      BY <3>1, <3>2 DEF IsStore
  <2> QED
    BY <2>3, <2>4
<1>5. StartsOf(ar2) = StartsOf(ar) \cup {h}
  BY StartsAdded
<1>6. Contents(rs2, nv2, hd, ar2, sz)
  <2>1. \A a \in ar2 : /\ a = <<a[1], a[2]>> /\ a[1] \in hd /\ ~IsStore(nv2, a[1])
                       /\ a[2] \in Nat /\ a[2] <= sz[a[1]]
    <3>1. \A a \in ar : /\ a = <<a[1], a[2]>> /\ a[1] \in hd /\ ~IsStore(nv2, a[1])
                        /\ a[2] \in Nat /\ a[2] <= sz[a[1]]
      BY <1>1, <1>4 DEF Heap, Contents
    <3>2. LET a == <<h, n>> IN /\ a = <<a[1], a[2]>> /\ a[1] \in hd /\ ~IsStore(nv2, a[1])
                               /\ a[2] \in Nat /\ a[2] <= sz[a[1]]
      BY <1>2, <1>4
    <3> QED
      BY <3>1, <3>2
  <2>2. \A a, b \in ar2 : a[1] = b[1] => a = b
    <3>1. \A a \in ar : a[1] # h
      BY <1>2 DEF StartsOf
    <3>2. \A a, b \in ar : a[1] = b[1] => a = b
      BY <1>1 DEF Heap, Contents
    <3> QED
      BY <3>1, <3>2
  <2>3. ASSUME NEW g \in hd, ~IsStore(nv2, g)
        PROVE  /\ sz[g] = rs2[g].size
               /\ g \in StartsOf(ar2) => rs2[g].flag \in {UNMARKED, MARKED}
               /\ g \notin StartsOf(ar2) => rs2[g].flag = FREE
    <3>1. CASE g = h
      BY <1>2, <1>5, <3>1 DEF Written
    <3>2. CASE g # h
      BY <1>1, <1>3, <1>4, <1>5, <2>3, <3>2 DEF Heap, Contents
    <3> QED
      BY <3>1, <3>2
  <2> QED
    BY <2>1, <2>2, <2>3 DEF Contents
<1>7. Stores(U, ck, nv2, hd, sz)
  <2> SUFFICES ASSUME NEW u \in Types
               PROVE  nv2[u].store_left \in Nat /\ StoreIn(U, ck, nv2, hd, sz, u) /\ ChunksOf(U, ck, nv2, u)
    BY DEF Stores
  <2>1. nv[u].store_left \in Nat /\ StoreIn(U, ck, nv, hd, sz, u) /\ ChunksOf(U, ck, nv, u)
    BY <1>1 DEF Heap, Stores
  <2>2. CASE u = t
    BY <2>1, <2>2 DEF StoreIn, ChunksOf
  <2>3. CASE u # t
    BY <2>1, <2>3 DEF StoreIn, ChunksOf, OnlyEnv
  <2> QED
    BY <2>2, <2>3
<1>8. Lists(U, ck, nv2, hd, ar2)
  <2>1. \A f : FreeBlock(nv, hd, ar, f) => FreeBlock(nv2, hd, ar2, f)
    BY <1>2, <1>4, <1>5 DEF FreeBlock
  <2> HIDE DEF ar2
  <2> QED
    BY <1>1, <2>1 DEF Heap, Lists, Listed
<1> QED
  BY <1>1, <1>6, <1>7, <1>8 DEF Heap, Good

LEMMA CutTaken ==
  ASSUME NEW U, NEW ck, NEW rs, NEW nv, NEW hd, NEW ar, Good(U, ck, rs, nv, hd, ar),
         NEW t \in Types, NEW n \in Nat, n > 1, n + 1 < nv[t].store_left,
         NEW rs2, Written(rs, rs2, nv[t].store, n),
         NEW nv2, OnlyEnv(nv, nv2, t), nv2[t].store_left = nv[t].store_left - n,
         nv2[t].store = nv[t].store + n,
         nv2[t].store_chunk = nv[t].store_chunk, nv2[t].chunk_list = nv[t].chunk_list
  PROVE  Good(U, ck, rs2, nv2, hd \cup {nv[t].store + n}, ar \cup {<<nv[t].store, n>>})
<1> DEFINE h == nv[t].store
           m == nv[t].store_left
           c == nv[t].store_chunk
           k == h + n
           hd2 == hd \cup {k}
           ar2 == ar \cup {<<h, n>>}
<1>1. PICK sz : Heap(U, ck, rs, nv, hd, ar, sz)
  BY DEF Good
<1> DEFINE sz2 == [g \in hd2 |-> IF g = h THEN n ELSE IF g = k THEN m - n ELSE sz[g]]
<1>0. m > 0
  <2>1. m \in Nat
    BY <1>1 DEF Heap, Stores
  <2> QED
    BY <2>1
<1>2. /\ h \in hd /\ h \in Addr /\ sz[h] = m /\ m \in Nat /\ IsStore(nv, h) /\ h \notin StartsOf(ar)
      /\ c \in U /\ ck[c].nae = t /\ ck[c].size <= RSOC_SIZE /\ InC(ck, c, h) /\ c # 0
  BY <1>0, <1>1, StoreAt
<1>3. h \in Nat /\ k \in Nat /\ h < k /\ k < h + m /\ m - n \in Nat /\ m - n > 1 /\ k + (m - n) = h + m
  BY <1>2, AddrNat
<1>4. /\ \A g \in hd : g \in Addr /\ g \in Nat /\ sz[g] \in Nat /\ sz[g] > 1
      /\ \A g, g2 \in hd : g < g2 => g + sz[g] <= g2
  BY <1>1, AddrNat DEF Heap, Tiles
<1>5. k \notin hd
  BY <1>2, <1>3, <1>4
<1>6. \A g \in hd : g # h => rs2[g] = rs[g]
  BY <1>1, <1>2, <1>3, OthersKept DEF Heap
<1>7. FitsIn(ck, c, h, hd, sz)
  BY <1>1, <1>2, FitsChunk DEF Heap
<1>8. c \in Addr /\ c \in Nat /\ ck[c].size \in Nat /\ ChunkEnd(ck, c) \in Nat /\ ChunkEnd(ck, c) <= Memory + 1
      /\ First(c) \in Nat
  BY <1>1, <1>2, FirstNat DEF Heap, Tiles, UsedApart, ChunkEnd
<1>9. InC(ck, c, k) /\ k \in Addr
  <2>1. k < ChunkEnd(ck, c)
    BY <1>2, <1>3, <1>7, <1>8 DEF FitsIn
  <2>2. First(c) <= k
    BY <1>2, <1>3, <1>8 DEF InC
  <2>3. k \in 1 .. Memory
    BY <1>3, <1>8, <2>1, AddrNat
  <2> QED
    BY <2>1, <2>2, <2>3 DEF InC, Addr
<1>10. /\ sz2[h] = n /\ sz2[k] = m - n /\ \A g \in hd : g # h => sz2[g] = sz[g]
       /\ h # k /\ hd2 = hd \cup {k}
  BY <1>2, <1>3, <1>5
<1>11. StartsOf(ar2) = StartsOf(ar) \cup {h}
  BY StartsAdded
<1> HIDE DEF hd2, sz2, ar2
<1>12. Tiles(U, ck, hd2, sz2)
  <2>1. \A g \in hd2 : g \in Addr /\ g \in Nat /\ sz2[g] \in Nat /\ sz2[g] > 1
    BY <1>3, <1>4, <1>9, <1>10
  <2>2. ASSUME NEW g \in hd2 PROVE \E d \in U : InC(ck, d, g) /\ FitsIn(ck, d, g, hd2, sz2)
    <3>1. CASE g = h
      <4>1. FitsIn(ck, c, h, hd2, sz2)
        BY <1>2, <1>3, <1>7, <1>8, <1>10 DEF FitsIn
      <4> QED
        BY <1>2, <3>1, <4>1
    <3>2. CASE g = k
      <4>1. FitsIn(ck, c, k, hd2, sz2)
        <5>1. ~(ck[c].size > RSOC_SIZE)
          BY <1>2, <1>8, RsoAssumption
        <5>2. h + m <= ChunkEnd(ck, c) /\ (h + m \in hd \/ h + m = ChunkEnd(ck, c))
          BY <1>2, <1>7 DEF FitsIn
        <5>3. k + sz2[k] = h + m
          BY <1>3, <1>10
        <5> QED
          BY <1>10, <5>1, <5>2, <5>3 DEF FitsIn
      <4> QED
        BY <1>2, <1>9, <3>2, <4>1
    <3>3. CASE g # h /\ g # k
      <4>1. g \in hd /\ sz2[g] = sz[g]
        BY <1>10, <3>3
      <4>2. PICK d \in U : InC(ck, d, g) /\ FitsIn(ck, d, g, hd, sz)
        BY <1>1, <4>1 DEF Heap, Tiles
      <4>3. FitsIn(ck, d, g, hd2, sz2)
        BY <1>10, <4>1, <4>2 DEF FitsIn
      <4> QED
        BY <4>2, <4>3
    <3> QED
      BY <3>1, <3>2, <3>3
  <2>3. ASSUME NEW g \in hd2, NEW g2 \in hd2, g < g2 PROVE g + sz2[g] <= g2
    <3>1. CASE g = h
      BY <1>2, <1>3, <1>4, <1>10, <2>3, <3>1
    <3>2. CASE g = k
      <4>1. g2 \in hd /\ g2 \in Nat /\ h < g2
        BY <1>3, <1>4, <1>10, <2>3, <3>2
      <4>2. h + m <= g2
        BY <1>2, <1>4, <4>1
      <4> QED
        BY <1>3, <1>10, <3>2, <4>2
    <3>3. CASE g # h /\ g # k
      <4>1. g \in hd /\ sz2[g] = sz[g] /\ sz[g] \in Nat /\ g \in Nat
        BY <1>4, <1>10, <3>3
      <4>2. CASE g2 = k
        <5>1. g < h \/ h < g
          BY <1>3, <3>3, <4>1
        <5>2. CASE g < h
          <6>1. g + sz[g] <= h
            BY <1>2, <1>4, <4>1, <5>2
          <6> QED
            BY <1>3, <4>1, <4>2, <6>1
        <5>3. CASE h < g
          <6>1. h + m <= g
            BY <1>2, <1>4, <4>1, <5>3
          <6> QED
            BY <1>3, <2>3, <4>1, <4>2, <6>1
        <5> QED
          BY <5>1, <5>2, <5>3
      <4>3. CASE g2 # k
        <5>1. g2 \in hd
          BY <1>10, <4>3
        <5> QED
          BY <1>4, <2>3, <4>1, <5>1
      <4> QED
        BY <4>2, <4>3
    <3> QED
      BY <3>1, <3>2, <3>3
  <2>4. UsedApart(U, ck) /\ \A d \in U : First(d) \in hd2
    BY <1>1, <1>10 DEF Heap, Tiles
  <2> QED
    BY <2>1, <2>2, <2>3, <2>4 DEF Tiles
<1>13. nv2[t].store_left > 0 /\ nv2[t].store = k
  BY <1>3
<1>14. \A g : IsStore(nv2, g) => g = k \/ (IsStore(nv, g) /\ g # h)
  <2>1. ASSUME NEW u \in Types, nv[u].store_left > 0, u # t PROVE nv[u].store # h
    BY <1>0, <1>1, <2>1, OneStore
  <2>2. ASSUME NEW g, IsStore(nv2, g), g # k PROVE IsStore(nv, g) /\ g # h
    <3>1. PICK u \in Types : nv2[u].store_left > 0 /\ nv2[u].store = g
      BY <2>2 DEF IsStore
    <3>2. u # t /\ nv2[u] = nv[u]
      BY <1>13, <2>2, <3>1 DEF OnlyEnv
    <3> QED
      BY <2>1, <3>1, <3>2 DEF IsStore
  <2> QED
    BY <2>2
<1>15. \A g : IsStore(nv, g) /\ g # h => IsStore(nv2, g)
  <2> SUFFICES ASSUME NEW g, IsStore(nv, g), g # h PROVE IsStore(nv2, g)
    OBVIOUS
  <2>1. PICK u \in Types : nv[u].store_left > 0 /\ nv[u].store = g
    BY DEF IsStore
  <2>2. u # t /\ nv2[u] = nv[u]
    BY <2>1 DEF OnlyEnv
  <2> QED
    BY <2>1, <2>2 DEF IsStore
<1>16. IsStore(nv2, k)
  BY <1>13 DEF IsStore
<1>17. Contents(rs2, nv2, hd2, ar2, sz2)
  <2>1. \A a \in ar2 : /\ a = <<a[1], a[2]>> /\ a[1] \in hd2 /\ ~IsStore(nv2, a[1])
                       /\ a[2] \in Nat /\ a[2] <= sz2[a[1]]
    <3>1. ASSUME NEW a \in ar
          PROVE /\ a = <<a[1], a[2]>> /\ a[1] \in hd2 /\ ~IsStore(nv2, a[1])
                /\ a[2] \in Nat /\ a[2] <= sz2[a[1]]
      <4>1. /\ a = <<a[1], a[2]>> /\ a[1] \in hd /\ ~IsStore(nv, a[1])
            /\ a[2] \in Nat /\ a[2] <= sz[a[1]]
        BY <1>1 DEF Heap, Contents
      <4>2. a[1] # h /\ a[1] # k
        BY <1>2, <1>5, <4>1
      <4> QED
        BY <1>10, <1>14, <4>1, <4>2
    <3>2. LET a == <<h, n>> IN /\ a = <<a[1], a[2]>> /\ a[1] \in hd2 /\ ~IsStore(nv2, a[1])
                               /\ a[2] \in Nat /\ a[2] <= sz2[a[1]]
      BY <1>2, <1>10, <1>14
    <3> QED
      BY <3>1, <3>2 DEF ar2
  <2>2. \A a, b \in ar2 : a[1] = b[1] => a = b
    <3>1. \A a \in ar : a[1] # h
      BY <1>2 DEF StartsOf
    <3>2. \A a, b \in ar : a[1] = b[1] => a = b
      BY <1>1 DEF Heap, Contents
    <3> QED
      BY <3>1, <3>2 DEF ar2
  <2>3. ASSUME NEW g \in hd2, ~IsStore(nv2, g)
        PROVE  /\ sz2[g] = rs2[g].size
               /\ g \in StartsOf(ar2) => rs2[g].flag \in {UNMARKED, MARKED}
               /\ g \notin StartsOf(ar2) => rs2[g].flag = FREE
    <3>1. CASE g = h
      BY <1>10, <1>11, <3>1 DEF Written
    <3>2. CASE g # h
      <4>1. g \in hd /\ ~IsStore(nv, g)
        BY <1>10, <1>15, <1>16, <2>3, <3>2
      <4> QED
        BY <1>1, <1>6, <1>10, <1>11, <3>2, <4>1 DEF Heap, Contents
    <3> QED
      BY <3>1, <3>2
  <2> QED
    BY <2>1, <2>2, <2>3 DEF Contents
<1>18. Stores(U, ck, nv2, hd2, sz2)
  <2> SUFFICES ASSUME NEW u \in Types
               PROVE  nv2[u].store_left \in Nat /\ StoreIn(U, ck, nv2, hd2, sz2, u) /\ ChunksOf(U, ck, nv2, u)
    BY DEF Stores
  <2>1. nv[u].store_left \in Nat /\ StoreIn(U, ck, nv, hd, sz, u) /\ ChunksOf(U, ck, nv, u)
    BY <1>1 DEF Heap, Stores
  <2>2. CASE u = t
    BY <1>2, <1>3, <1>9, <1>10, <1>13, <2>1, <2>2 DEF StoreIn, ChunksOf
  <2>3. CASE u # t
    <3>1. nv2[u] = nv[u]
      BY <2>3 DEF OnlyEnv
    <3>2. nv[u].store_left > 0 => nv[u].store # h
      BY <1>0, <1>1, <2>3, OneStore
    <3> QED
      BY <1>10, <2>1, <3>1, <3>2 DEF StoreIn, ChunksOf
  <2> QED
    BY <2>2, <2>3
<1>19. Lists(U, ck, nv2, hd2, ar2)
  <2>1. \A f : FreeBlock(nv, hd, ar, f) => FreeBlock(nv2, hd2, ar2, f)
    BY <1>2, <1>5, <1>10, <1>11, <1>14 DEF FreeBlock
  <2> QED
    BY <1>1, <2>1 DEF Heap, Lists, Listed
<1>20. Good(U, ck, rs2, nv2, hd2, ar2)
  BY <1>12, <1>17, <1>18, <1>19 DEF Heap, Good
<1> QED
  BY <1>20 DEF hd2, ar2
-----------------------------------------------------------------------------
(* A chunk comes into use, with one block: a store, or an array.           *)
TileFits(ck, d, s) ==
  /\ s > 1 /\ First(d) + s <= ChunkEnd(ck, d)
  /\ ck[d].size <= RSOC_SIZE => First(d) + s = ChunkEnd(ck, d)
Sized(sz, h, s) == [g \in DOMAIN sz \cup {h} |-> IF g = h THEN s ELSE sz[g]]

(* The sizes may be taken for a function on the blocks.                    *)
LEMMA GoodFunction ==
  ASSUME NEW U, NEW ck, NEW rs, NEW nv, NEW hd, NEW ar, Good(U, ck, rs, nv, hd, ar)
  PROVE  \E sz : DOMAIN sz = hd /\ Heap(U, ck, rs, nv, hd, ar, sz)
<1>1. PICK sz : Heap(U, ck, rs, nv, hd, ar, sz)
  BY DEF Good
<1> DEFINE z == [g \in hd |-> sz[g]]
<1>2. DOMAIN z = hd /\ \A g \in hd : z[g] = sz[g]
  OBVIOUS
<1> HIDE DEF z
<1>3. Tiles(U, ck, hd, z)
  <2>1. \A c, h : h \in hd /\ FitsIn(ck, c, h, hd, sz) => FitsIn(ck, c, h, hd, z)
    BY <1>2 DEF FitsIn
  <2> QED
    BY <1>1, <1>2, <2>1 DEF Heap, Tiles
<1>4. Contents(rs, nv, hd, ar, z)
  BY <1>1, <1>2 DEF Heap, Contents
<1>5. Stores(U, ck, nv, hd, z)
  BY <1>1, <1>2 DEF Heap, Stores, StoreIn
<1> QED
  BY <1>1, <1>2, <1>3, <1>4, <1>5 DEF Heap

LEMMA NewTile ==
  ASSUME NEW U, NEW ck, NEW hd, NEW sz, Tiles(U, ck, hd, sz), DOMAIN sz = hd,
         NEW d, d \notin U, NEW ck2, SameChunks2(U, ck, ck2), UsedApart(U \cup {d}, ck2),
         NEW s \in Nat, TileFits(ck2, d, s)
  PROVE  /\ First(d) \notin hd
         /\ Tiles(U \cup {d}, ck2, hd \cup {First(d)}, Sized(sz, First(d), s))
         /\ \A h \in hd : h < First(d) \/ First(d) + s <= h
<1> DEFINE f == First(d)
           U2 == U \cup {d}
           hd2 == hd \cup {f}
           sz2 == Sized(sz, f, s)
<1>1. /\ \A c \in U : ck2[c] = ck[c] /\ ChunkEnd(ck2, c) = ChunkEnd(ck, c)
  BY DEF SameChunks2, ChunkEnd
<1>2. Tiles(U, ck2, hd, sz)
  BY <1>1, TilesKept DEF SizesSame
<1>3. /\ d \in U2 /\ U \subseteq U2
      /\ \A c \in U2 : /\ c \in Addr /\ c \in Nat /\ ck2[c].size \in Nat /\ ChunkEnd(ck2, c) \in Nat
                       /\ First(c) \in Nat /\ c < First(c) /\ First(c) < ChunkEnd(ck2, c)
                       /\ ChunkEnd(ck2, c) <= Memory + 1
      /\ \A c, b \in U2 : c < b => ChunkEnd(ck2, c) <= b
  BY FirstNat, RsoAssumption DEF UsedApart, ChunkEnd
<1>4. /\ \A g \in hd : g \in Addr /\ g \in Nat /\ sz[g] \in Nat /\ sz[g] > 1
      /\ \A g, g2 \in hd : g < g2 => g + sz[g] <= g2
  BY <1>2, AddrNat DEF Tiles
<1>5. f + s <= ChunkEnd(ck2, d) /\ f \in Nat
  BY <1>3 DEF TileFits
<1>6. ASSUME NEW g \in hd PROVE (g + sz[g] <= f \/ f + s <= g) /\ g # f
  <2>1. PICK c \in U : InC(ck2, c, g) /\ FitsIn(ck2, c, g, hd, sz)
    BY <1>2 DEF Tiles
  <2>2. c # d /\ c \in U2
    BY <1>3
  <2>3. g < ChunkEnd(ck2, c) /\ First(c) <= g /\ g + sz[g] <= ChunkEnd(ck2, c)
    BY <2>1 DEF InC, FitsIn
  <2>4. CASE c < d
    <3>1. ChunkEnd(ck2, c) <= d
      BY <1>3, <2>2, <2>4
    <3> QED
      BY <1>3, <1>4, <2>2, <2>3, <3>1
  <2>5. CASE d < c
    <3>1. ChunkEnd(ck2, d) <= c
      BY <1>3, <2>2, <2>5
    <3> QED
      BY <1>3, <1>4, <1>5, <2>2, <2>3, <3>1
  <2> QED
    BY <1>3, <2>2, <2>4, <2>5
<1>7. /\ f \notin hd /\ sz2[f] = s /\ \A g \in hd : sz2[g] = sz[g]
  <2>1. f \notin hd
    BY <1>6
  <2> QED
    BY <2>1 DEF Sized
<1>8. f \in Addr /\ InC(ck2, d, f)
  <2>1. f < ChunkEnd(ck2, d) /\ f >= 1 /\ f <= Memory
    BY <1>3, AddrNat
  <2> QED
    BY <1>5, <2>1, AddrNat DEF InC, Addr
<1>9. f = First(d)
  OBVIOUS
<1> HIDE DEF f, sz2
<1>10. FitsIn(ck2, d, f, hd2, sz2)
  BY <1>3, <1>5, <1>7, <1>9, RsoAssumption DEF FitsIn, TileFits
<1>11. ASSUME NEW g \in hd PROVE \E c \in U2 : InC(ck2, c, g) /\ FitsIn(ck2, c, g, hd2, sz2)
  <2>1. PICK c \in U : InC(ck2, c, g) /\ FitsIn(ck2, c, g, hd, sz)
    BY <1>2 DEF Tiles
  <2>2. FitsIn(ck2, c, g, hd2, sz2)
    BY <1>7, <2>1 DEF FitsIn
  <2> QED
    BY <2>1, <2>2
<1>12. \A g, g2 \in hd2 : g < g2 => g + sz2[g] <= g2
  <2>1. s \in Nat /\ s > 1
    BY DEF TileFits
  <2> SUFFICES ASSUME NEW g \in hd2, NEW g2 \in hd2, g < g2 PROVE g + sz2[g] <= g2
    OBVIOUS
  <2>2. CASE g = f
    BY <1>4, <1>5, <1>6, <1>7, <2>1, <2>2
  <2>3. CASE g2 = f /\ g # f
    BY <1>4, <1>5, <1>6, <1>7, <2>1, <2>3
  <2>4. CASE g \in hd /\ g2 \in hd
    BY <1>4, <1>7, <2>4
  <2> QED
    BY <2>2, <2>3, <2>4
<1>13. \A h \in hd2 : h \in Addr /\ sz2[h] \in Nat /\ sz2[h] > 1
  BY <1>4, <1>7, <1>8 DEF TileFits
<1>14. \A c \in U2 : First(c) \in hd2
  BY <1>2, <1>9 DEF Tiles
<1>15. \A h \in hd2 : \E c \in U2 : InC(ck2, c, h) /\ FitsIn(ck2, c, h, hd2, sz2)
  BY <1>3, <1>8, <1>10, <1>11
<1>16. Tiles(U2, ck2, hd2, sz2)
  BY <1>12, <1>13, <1>14, <1>15 DEF Tiles
<1>17. \A h \in hd : h < f \/ f + s <= h
  BY <1>4, <1>5, <1>6
<1> QED
  BY <1>7, <1>16, <1>17 DEF f, sz2

(* The lists and the stores of the chunks that were in use.                *)
MoreSizes(hd, sz, hd2, sz2) == hd \subseteq hd2 /\ \A h \in hd : sz2[h] = sz[h]
LEMMA MoreChunks ==
  ASSUME NEW U, NEW ck, NEW nv, NEW hd, NEW sz, Stores(U, ck, nv, hd, sz), NEW d,
         NEW ck2, SameChunks2(U, ck, ck2), NEW hd2, NEW sz2, MoreSizes(hd, sz, hd2, sz2)
  PROVE  Stores(U \cup {d}, ck2, nv, hd2, sz2)
<1> SUFFICES ASSUME NEW t \in Types
             PROVE  nv[t].store_left \in Nat /\ StoreIn(U \cup {d}, ck2, nv, hd2, sz2, t) /\ ChunksOf(U \cup {d}, ck2, nv, t)
  BY DEF Stores
<1>1. \A c \in U : ck2[c] = ck[c] /\ ChunkEnd(ck2, c) = ChunkEnd(ck, c)
  BY DEF SameChunks2, ChunkEnd
<1>2. nv[t].store_left \in Nat /\ StoreIn(U, ck, nv, hd, sz, t) /\ ChunksOf(U, ck, nv, t)
  BY DEF Stores
<1>3. ChunksOf(U \cup {d}, ck2, nv, t)
  BY <1>1, <1>2 DEF ChunksOf
<1>4. StoreIn(U \cup {d}, ck2, nv, hd2, sz2, t)
  BY <1>1, <1>2 DEF StoreIn, ChunksOf, InC, MoreSizes
<1> QED
  BY <1>2, <1>3, <1>4

LEMMA NewStoreChunk ==
  ASSUME NEW U, NEW ck, NEW rs, NEW nv, NEW hd, NEW ar, Good(U, ck, rs, nv, hd, ar),
         NEW t \in Types, nv[t].store_left = 0,
         NEW d, d \notin U, NEW ck2, SameChunks2(U, ck, ck2), UsedApart(U \cup {d}, ck2),
         ck2[d].size <= RSOC_SIZE, ck2[d].nae = t, ck2[d].flol = <<>>,
         ck2[d].size > Overhead + 1,
         NEW nv2, OnlyEnv(nv, nv2, t), nv2[t].store_left = ck2[d].size - Overhead,
         nv2[t].store = First(d), nv2[t].store_chunk = d,
         nv2[t].chunk_list \in Seq(Addr),
         Mem(nv2[t].chunk_list) \subseteq Mem(nv[t].chunk_list) \cup {d}
  PROVE  Good(U \cup {d}, ck2, rs, nv2, hd \cup {First(d)}, ar)
<1> DEFINE f == First(d)
           s == ck2[d].size - Overhead
           U2 == U \cup {d}
           hd2 == hd \cup {f}
<1>1. PICK sz : DOMAIN sz = hd /\ Heap(U, ck, rs, nv, hd, ar, sz)
  BY GoodFunction
<1> DEFINE sz2 == Sized(sz, f, s)
<1>2. /\ d \in Addr /\ d \in Nat /\ ck2[d].size \in Nat /\ f \in Nat /\ f = d + Overhead /\ Overhead \in Nat
  BY FirstNat, RsoAssumption DEF UsedApart
<1>3. s \in Nat /\ TileFits(ck2, d, s) /\ s > 1
  <2> DEFINE z == ck2[d].size
             e == ChunkEnd(ck2, d)
  <2>1. z \in Nat /\ z > Overhead + 1 /\ s = z - Overhead
    BY <1>2
  <2>2. e = d + z
    BY DEF ChunkEnd
  <2> HIDE DEF f, s, z, e
  <2>3. s \in Nat /\ s > 1 /\ f + s = e /\ e \in Nat
    BY <1>2, <2>1, <2>2
  <2>4. f + s <= e
    BY <2>3
  <2> QED
    BY <2>3, <2>4 DEF TileFits, e, f
<1>4. f \notin hd /\ Tiles(U2, ck2, hd2, sz2)
  <2>1. Tiles(U, ck, hd, sz)
    BY <1>1 DEF Heap
  <2> HIDE DEF s
  <2> QED
    BY <1>1, <1>3, <2>1, NewTile
<1>5. sz2[f] = s /\ \A g \in hd : sz2[g] = sz[g]
  BY <1>1, <1>4 DEF Sized
<1> HIDE DEF sz2, f
<1>6. \A g : IsStore(nv2, g) <=> IsStore(nv, g) \/ g = f
  <2>1. \A u \in Types : u # t => nv2[u] = nv[u]
    BY DEF OnlyEnv
  <2>2. nv2[t].store_left > 0 /\ nv2[t].store = f
    BY <1>3 DEF f
  <2> QED
    BY <2>1, <2>2 DEF IsStore
<1>7. Contents(rs, nv2, hd2, ar, sz2)
  <2>1. \A a \in ar : a[1] \in hd /\ a[1] # f
    BY <1>1, <1>4 DEF Heap, Contents
  <2> QED
    BY <1>1, <1>5, <1>6, <2>1 DEF Heap, Contents
<1>8. Stores(U2, ck2, nv2, hd2, sz2)
  <2> SUFFICES ASSUME NEW u \in Types
               PROVE  nv2[u].store_left \in Nat /\ StoreIn(U2, ck2, nv2, hd2, sz2, u) /\ ChunksOf(U2, ck2, nv2, u)
    BY DEF Stores
  <2>1. nv[u].store_left \in Nat /\ StoreIn(U2, ck2, nv, hd2, sz2, u) /\ ChunksOf(U2, ck2, nv, u)
    <3>1. Stores(U, ck, nv, hd, sz)
      BY <1>1 DEF Heap
    <3>2. MoreSizes(hd, sz, hd2, sz2)
      BY <1>5 DEF MoreSizes
    <3> HIDE DEF s, hd2, sz2
    <3>3. Stores(U2, ck2, nv, hd2, sz2)
      BY <3>1, <3>2, MoreChunks
    <3> QED
      BY <3>3 DEF Stores
  <2>2. CASE u = t
    <3>1. InC(ck2, d, f) /\ d # 0
      BY <1>2, FirstIn, AddrNat DEF f
    <3>2. StoreIn(U2, ck2, nv2, hd2, sz2, u)
      BY <1>5, <2>2, <3>1 DEF StoreIn, f
    <3>3. ChunksOf(U2, ck2, nv2, u)
      BY <2>1, <2>2 DEF ChunksOf
    <3> QED
      BY <1>3, <2>2, <3>2, <3>3
  <2>3. CASE u # t
    BY <2>1, <2>3 DEF StoreIn, ChunksOf, OnlyEnv
  <2> QED
    BY <2>2, <2>3
<1>9. Lists(U2, ck2, nv2, hd2, ar)
  <2>1. Listed(ck2, nv2, hd2, ar, d)
    BY DEF Listed, Once, Mem
  <2>2. ASSUME NEW c \in U PROVE Listed(ck2, nv2, hd2, ar, c)
    <3>1. Listed(ck, nv, hd, ar, c)
      BY <1>1 DEF Heap, Lists
    <3>2. ck2[c] = ck[c] /\ \A g : InC(ck2, c, g) <=> InC(ck, c, g)
      BY DEF SameChunks2, InC, ChunkEnd
    <3>3. \A g : FreeBlock(nv, hd, ar, g) => FreeBlock(nv2, hd2, ar, g)
      BY <1>4, <1>6 DEF FreeBlock
    <3> QED
      BY <3>1, <3>2, <3>3 DEF Listed
  <2> QED
    BY <2>1, <2>2 DEF Lists
<1>10. Good(U2, ck2, rs, nv2, hd2, ar)
  BY <1>4, <1>7, <1>8, <1>9 DEF Heap, Good
<1> QED
  BY <1>10 DEF f

LEMMA NewArrayChunk ==
  ASSUME NEW U, NEW ck, NEW rs, NEW nv, NEW hd, NEW ar, Good(U, ck, rs, nv, hd, ar),
         NEW d, d \notin U, NEW ck2, SameChunks2(U, ck, ck2), UsedApart(U \cup {d}, ck2),
         NEW n \in Nat, TileFits(ck2, d, n), ck2[d].flol = <<>>,
         NEW rs2, Written(rs, rs2, First(d), n)
  PROVE  Good(U \cup {d}, ck2, rs2, nv, hd \cup {First(d)}, ar \cup {<<First(d), n>>})
<1> DEFINE f == First(d)
           U2 == U \cup {d}
           hd2 == hd \cup {f}
           ar2 == ar \cup {<<f, n>>}
<1>1. PICK sz : DOMAIN sz = hd /\ Heap(U, ck, rs, nv, hd, ar, sz)
  BY GoodFunction
<1> DEFINE sz2 == Sized(sz, f, n)
<1>2. f \notin hd /\ Tiles(U2, ck2, hd2, sz2) /\ \A h \in hd : h < f \/ f + n <= h
  <2>1. Tiles(U, ck, hd, sz)
    BY <1>1 DEF Heap
  <2> QED
    BY <1>1, <2>1, NewTile
<1>3. sz2[f] = n /\ \A g \in hd : sz2[g] = sz[g]
  BY <1>1, <1>2 DEF Sized
<1>4. /\ \A g \in hd : g \in Addr /\ g \in Nat
      /\ f \in Nat /\ d \in Addr
  BY <1>1, AddrNat, FirstNat DEF Heap, Tiles, UsedApart
<1>5. StartsOf(ar2) = StartsOf(ar) \cup {f}
  BY StartsAdded
<1>6. \A g \in hd : rs2[g] = rs[g]
  <2> SUFFICES ASSUME NEW g \in hd PROVE rs2[g] = rs[g]
    OBVIOUS
  <2>1. g \notin f .. f + n - 1
    BY <1>2, <1>4
  <2> QED
    BY <1>4, <2>1 DEF Written
<1>7. ~IsStore(nv, f)
  <2>1. \A g : IsStore(nv, g) => g \in hd
    BY <1>1 DEF Heap, Stores, StoreIn, IsStore
  <2> QED
    BY <1>2, <2>1
<1>8. rs2[f].size = n /\ rs2[f].flag = UNMARKED
  BY DEF Written
<1> HIDE DEF sz2, f
<1>9. Contents(rs2, nv, hd2, ar2, sz2)
  <2>1. \A a \in ar : a[1] \in hd /\ a[1] # f
    BY <1>1, <1>2 DEF Heap, Contents
  <2>2. \A a \in ar2 : /\ a = <<a[1], a[2]>> /\ a[1] \in hd2 /\ ~IsStore(nv, a[1])
                       /\ a[2] \in Nat /\ a[2] <= sz2[a[1]]
    <3>1. \A a \in ar : /\ a = <<a[1], a[2]>> /\ a[1] \in hd2 /\ ~IsStore(nv, a[1])
                        /\ a[2] \in Nat /\ a[2] <= sz2[a[1]]
      BY <1>1, <1>3, <2>1 DEF Heap, Contents
    <3>2. LET a == <<f, n>> IN /\ a = <<a[1], a[2]>> /\ a[1] \in hd2 /\ ~IsStore(nv, a[1])
                               /\ a[2] \in Nat /\ a[2] <= sz2[a[1]]
      BY <1>3, <1>7
    <3> QED
      BY <3>1, <3>2
  <2>3. \A a, b \in ar2 : a[1] = b[1] => a = b
    <3>1. \A a, b \in ar : a[1] = b[1] => a = b
      BY <1>1 DEF Heap, Contents
    <3> QED
      BY <2>1, <3>1
  <2>4. ASSUME NEW g \in hd2, ~IsStore(nv, g)
        PROVE  /\ sz2[g] = rs2[g].size
               /\ g \in StartsOf(ar2) => rs2[g].flag \in {UNMARKED, MARKED}
               /\ g \notin StartsOf(ar2) => rs2[g].flag = FREE
    <3>1. CASE g = f
      BY <1>3, <1>5, <1>8, <3>1
    <3>2. CASE g # f
      BY <1>1, <1>3, <1>5, <1>6, <2>4, <3>2 DEF Heap, Contents
    <3> QED
      BY <3>1, <3>2
  <2> QED
    BY <2>2, <2>3, <2>4 DEF Contents
<1>10. Stores(U2, ck2, nv, hd2, sz2)
  <2>1. Stores(U, ck, nv, hd, sz)
    BY <1>1 DEF Heap
  <2>2. MoreSizes(hd, sz, hd2, sz2)
    BY <1>3 DEF MoreSizes
  <2> HIDE DEF hd2, sz2
  <2> QED
    BY <2>1, <2>2, MoreChunks
<1>11. Lists(U2, ck2, nv, hd2, ar2)
  <2>1. Listed(ck2, nv, hd2, ar2, d)
    BY DEF Listed, Once, Mem
  <2>2. ASSUME NEW c \in U PROVE Listed(ck2, nv, hd2, ar2, c)
    <3>1. Listed(ck, nv, hd, ar, c)
      BY <1>1 DEF Heap, Lists
    <3>2. ck2[c] = ck[c] /\ \A g : InC(ck2, c, g) <=> InC(ck, c, g)
      BY DEF SameChunks2, InC, ChunkEnd
    <3>3. \A g : FreeBlock(nv, hd, ar, g) => FreeBlock(nv, hd2, ar2, g)
      BY <1>2, <1>5 DEF FreeBlock
    <3> HIDE DEF ar2
    <3> QED
      BY <3>1, <3>2, <3>3 DEF Listed
  <2> QED
    BY <2>1, <2>2 DEF Lists
<1>12. Good(U2, ck2, rs2, nv, hd2, ar2)
  BY <1>2, <1>9, <1>10, <1>11 DEF Heap, Good
<1> QED
  BY <1>12 DEF f
-----------------------------------------------------------------------------
(* rsoc_sweep: an array is freed.                                          *)
ArraysBut(ar, h) == {a \in ar : a[1] # h}
LEMMA StartsBut == ASSUME NEW ar, NEW h PROVE StartsOf(ArraysBut(ar, h)) = StartsOf(ar) \ {h}
BY DEF StartsOf, ArraysBut

LEMMA ArrayFreed ==
  ASSUME NEW U, NEW ck, NEW rs, NEW nv, NEW hd, NEW ar, Good(U, ck, rs, nv, hd, ar),
         NEW h \in hd, NEW rs2, OnlyBlock(rs, rs2, h), rs2[h].size = rs[h].size, rs2[h].flag = FREE
  PROVE  Good(U, ck, rs2, nv, hd, ArraysBut(ar, h))
<1> DEFINE ar2 == ArraysBut(ar, h)
<1>1. PICK sz : Heap(U, ck, rs, nv, hd, ar, sz)
  BY DEF Good
<1>2. \A g \in hd : g # h => rs2[g] = rs[g]
  BY <1>1 DEF Heap, Tiles, OnlyBlock
<1>3. StartsOf(ar2) = StartsOf(ar) \ {h}
  BY StartsBut
<1>4. \A a \in ar2 : a \in ar
  BY DEF ArraysBut
<1> HIDE DEF ar2
<1>5. Contents(rs2, nv, hd, ar2, sz)
  <2>1. ASSUME NEW g \in hd, ~IsStore(nv, g)
        PROVE  /\ sz[g] = rs2[g].size
               /\ g \in StartsOf(ar2) => rs2[g].flag \in {UNMARKED, MARKED}
               /\ g \notin StartsOf(ar2) => rs2[g].flag = FREE
    BY <1>1, <1>2, <1>3, <2>1 DEF Heap, Contents
  <2> QED
    BY <1>1, <1>4, <2>1 DEF Heap, Contents
<1>6. Lists(U, ck, nv, hd, ar2)
  BY <1>1, <1>3 DEF Heap, Lists, Listed, FreeBlock
<1>7. Good(U, ck, rs2, nv, hd, ar2)
  BY <1>1, <1>5, <1>6 DEF Heap, Good
<1> QED
  BY <1>7 DEF ar2

(* Two free blocks that follow each other become one.                      *)
LEMMA NextBlock ==
  ASSUME NEW U, NEW ck, NEW rs, NEW nv, NEW hd, NEW ar, Good(U, ck, rs, nv, hd, ar),
         NEW c \in U, ck[c].size <= RSOC_SIZE, NEW h \in hd, InC(ck, c, h), ~IsStore(nv, h)
  PROVE  /\ h \in Addr /\ h \in Nat /\ rs[h].size \in Nat /\ rs[h].size > 1
         /\ h + rs[h].size <= ChunkEnd(ck, c)
         /\ h + rs[h].size \in hd \/ h + rs[h].size = ChunkEnd(ck, c)
         /\ h + rs[h].size \in hd /\ h + rs[h].size < ChunkEnd(ck, c) => InC(ck, c, h + rs[h].size)
         /\ \A g \in hd : h < g => h + rs[h].size <= g
<1>1. PICK sz : Heap(U, ck, rs, nv, hd, ar, sz)
  BY DEF Good
<1>2. h \in Addr /\ sz[h] \in Nat /\ sz[h] > 1 /\ sz[h] = rs[h].size
  BY <1>1 DEF Heap, Tiles, Contents
<1>3. FitsIn(ck, c, h, hd, sz)
  BY <1>1, FitsChunk DEF Heap
<1>4. \A g \in hd : h < g => h + rs[h].size <= g
  BY <1>1, <1>2 DEF Heap, Tiles
<1>5. h \in Nat /\ First(c) \in Nat /\ c \in Addr /\ ck[c].size \in Nat
  BY <1>1, <1>2, AddrNat, FirstNat DEF Heap, Tiles, UsedApart
<1>6. InC(ck, c, h + rs[h].size) <=> h + rs[h].size < ChunkEnd(ck, c)
  BY <1>2, <1>5 DEF InC
<1> QED
  BY <1>2, <1>3, <1>4, <1>5, <1>6 DEF FitsIn

LEMMA Joined ==
  ASSUME NEW U, NEW ck, NEW rs, NEW nv, NEW hd, NEW ar, Good(U, ck, rs, nv, hd, ar),
         NEW c \in U, ck[c].size <= RSOC_SIZE, NEW h, FreeBlock(nv, hd, ar, h), InC(ck, c, h),
         NEW p, p = h + rs[h].size, p < ChunkEnd(ck, c), ~IsStore(nv, p), p \notin Mem(ck[c].flol),
         NEW rs2, OnlyBlock(rs, rs2, h), rs2[h].size = rs[h].size + rs[p].size,
         rs2[h].flag = rs[h].flag
  PROVE  Good(U, ck, rs2, nv, hd \ {p}, ArraysBut(ar, p))
<1> DEFINE hd2 == hd \ {p}
           ar2 == ArraysBut(ar, p)
<1>1. PICK sz : Heap(U, ck, rs, nv, hd, ar, sz)
  BY DEF Good
<1> DEFINE sz2 == [g \in hd |-> IF g = h THEN sz[h] + sz[p] ELSE sz[g]]
<1>2. h \in hd /\ ~IsStore(nv, h) /\ h \notin StartsOf(ar)
  BY DEF FreeBlock
<1>3. c \in Addr /\ c \in Nat /\ First(c) \in Nat /\ ck[c].size \in Nat /\ ChunkEnd(ck, c) \in Nat
  BY <1>1, FirstNat DEF Heap, Tiles, UsedApart, ChunkEnd
<1>4. /\ h \in Addr /\ h \in Nat /\ rs[h].size \in Nat /\ rs[h].size > 1
      /\ p \in hd \/ p = ChunkEnd(ck, c)
      /\ p \in hd => InC(ck, c, p)
      /\ \A g \in hd : h < g => p <= g
  BY <1>2, NextBlock
<1>5. p \in hd /\ InC(ck, c, p) /\ p \in Nat /\ h < p
  BY <1>3, <1>4
<1>6. /\ p \in Addr /\ rs[p].size \in Nat /\ rs[p].size > 1
      /\ p + rs[p].size <= ChunkEnd(ck, c)
      /\ p + rs[p].size \in hd \/ p + rs[p].size = ChunkEnd(ck, c)
      /\ \A g \in hd : p < g => p + rs[p].size <= g
  BY <1>5, NextBlock
<1>7. sz[h] = rs[h].size /\ sz[p] = rs[p].size
  BY <1>1, <1>2, <1>5 DEF Heap, Contents
<1>8. /\ \A g \in hd : g \in Addr /\ g \in Nat /\ sz[g] \in Nat /\ sz[g] > 1
      /\ \A g, g2 \in hd : g < g2 => g + sz[g] <= g2
  BY <1>1, AddrNat DEF Heap, Tiles
<1>9. sz2[h] = sz[h] + sz[p] /\ \A g \in hd : g # h => sz2[g] = sz[g]
  BY <1>2
<1>10. h + sz2[h] = p + sz[p] /\ h + sz[h] = p
  BY <1>4, <1>6, <1>7, <1>9
<1>11. hd2 \subseteq hd /\ p \notin hd2 /\ h \in hd2 /\ \A g \in hd : g # p => g \in hd2
  BY <1>2, <1>4, <1>5
<1>12. StartsOf(ar2) = StartsOf(ar) \ {p}
  BY StartsBut
<1>13. \A a \in ar2 : a \in ar /\ a[1] # p
  BY DEF ArraysBut
<1> HIDE DEF sz2, hd2, ar2
<1>14. \A g \in hd2 : g # h => rs2[g] = rs[g]
  BY <1>8, <1>11 DEF OnlyBlock
<1>15. Tiles(U, ck, hd2, sz2)
  <2>1. ASSUME NEW d \in U PROVE First(d) \in hd2
    <3>1. First(d) \in hd /\ First(d) \in Nat
      BY <1>1, <1>8 DEF Heap, Tiles
    <3>2. First(d) # p
      <4> SUFFICES ASSUME First(d) = p PROVE FALSE
        OBVIOUS
      <4>1. InC(ck, d, p) /\ UsedApart(U, ck)
        BY <1>1, FirstIn DEF Heap, Tiles
      <4>2. d = c
        BY <1>5, <1>6, <4>1, OneChunk
      <4> QED
        BY <1>3, <1>4, <1>5, <4>2 DEF InC
    <3> QED
      BY <1>11, <3>1, <3>2
  <2>2. \A g \in hd2 : g \in Addr /\ sz2[g] \in Nat /\ sz2[g] > 1
    <3>1. sz[h] + sz[p] \in Nat /\ sz[h] + sz[p] > 1
      BY <1>4, <1>6, <1>7
    <3> QED
      BY <1>8, <1>9, <1>11, <3>1
  <2>3. ASSUME NEW g \in hd2 PROVE \E d \in U : InC(ck, d, g) /\ FitsIn(ck, d, g, hd2, sz2)
    <3>1. CASE g = h
      <4>1. FitsIn(ck, c, h, hd2, sz2)
        <5>1. ~(ck[c].size > RSOC_SIZE)
          BY <1>3, RsoAssumption
        <5>2. p + sz[p] \in hd => p + sz[p] \in hd2
          BY <1>5, <1>6, <1>7, <1>11
        <5> QED
          BY <1>6, <1>7, <1>10, <5>1, <5>2 DEF FitsIn
      <4> QED
        BY <3>1, <4>1
    <3>2. CASE g # h
      <4>1. PICK d \in U : InC(ck, d, g) /\ FitsIn(ck, d, g, hd, sz)
        BY <1>1, <1>11 DEF Heap, Tiles
      <4>2. g + sz[g] # p
        <5>1. g < h \/ h < g
          BY <1>4, <1>8, <1>11, <3>2
        <5>2. CASE g < h
          BY <1>2, <1>4, <1>5, <1>8, <1>11, <5>2
        <5>3. CASE h < g
          <6>1. p <= g /\ g \in Nat /\ sz[g] \in Nat /\ sz[g] > 1
            BY <1>4, <1>8, <1>11, <5>3
          <6> QED
            BY <1>5, <6>1
        <5> QED
          BY <5>1, <5>2, <5>3
      <4>3. FitsIn(ck, d, g, hd2, sz2)
        BY <1>9, <1>11, <3>2, <4>1, <4>2 DEF FitsIn
      <4> QED
        BY <4>1, <4>3
    <3> QED
      BY <3>1, <3>2
  <2>4. ASSUME NEW g \in hd2, NEW g2 \in hd2, g < g2 PROVE g + sz2[g] <= g2
    <3>1. CASE g = h
      <4>1. g2 \in hd /\ g2 \in Nat /\ g2 # p /\ p <= g2
        BY <1>4, <1>8, <1>11, <2>4, <3>1
      <4>2. p < g2
        BY <1>5, <4>1
      <4> QED
        BY <1>6, <1>7, <1>10, <3>1, <4>1, <4>2
    <3>2. CASE g # h
      BY <1>8, <1>9, <1>11, <2>4, <3>2
    <3> QED
      BY <3>1, <3>2
  <2>5. UsedApart(U, ck)
    BY <1>1 DEF Heap, Tiles
  <2> QED
    BY <2>1, <2>2, <2>3, <2>4, <2>5 DEF Tiles
<1>16. Contents(rs2, nv, hd2, ar2, sz2)
  <2>1. ASSUME NEW a \in ar2
        PROVE  /\ a = <<a[1], a[2]>> /\ a[1] \in hd2 /\ ~IsStore(nv, a[1])
               /\ a[2] \in Nat /\ a[2] <= sz2[a[1]]
    <3>1. /\ a = <<a[1], a[2]>> /\ a[1] \in hd /\ ~IsStore(nv, a[1])
          /\ a[2] \in Nat /\ a[2] <= sz[a[1]] /\ a[1] # p
      BY <1>1, <1>13 DEF Heap, Contents
    <3>2. a[1] # h
      BY <1>2, <1>13 DEF StartsOf
    <3> QED
      BY <1>9, <1>11, <3>1, <3>2
  <2>2. \A a, b \in ar2 : a[1] = b[1] => a = b
    BY <1>1, <1>13 DEF Heap, Contents
  <2>3. ASSUME NEW g \in hd2, ~IsStore(nv, g)
        PROVE  /\ sz2[g] = rs2[g].size
               /\ g \in StartsOf(ar2) => rs2[g].flag \in {UNMARKED, MARKED}
               /\ g \notin StartsOf(ar2) => rs2[g].flag = FREE
    <3>1. CASE g = h
      <4>1. rs[h].flag = FREE
        BY <1>1, <1>2 DEF Heap, Contents
      <4>2. sz2[h] = rs2[h].size /\ rs2[h].flag = FREE /\ h \notin StartsOf(ar2)
        BY <1>2, <1>7, <1>9, <1>12, <4>1
      <4> QED
        BY <3>1, <4>2
    <3>2. CASE g # h
      <4>1. g \in hd /\ g # p /\ rs2[g] = rs[g] /\ sz2[g] = sz[g]
        BY <1>9, <1>11, <1>14, <3>2
      <4> QED
        BY <1>1, <1>12, <2>3, <4>1 DEF Heap, Contents
    <3> QED
      BY <3>1, <3>2
  <2> QED
    BY <2>1, <2>2, <2>3 DEF Contents
<1>17. Stores(U, ck, nv, hd2, sz2)
  <2> SUFFICES ASSUME NEW t \in Types
               PROVE  nv[t].store_left \in Nat /\ StoreIn(U, ck, nv, hd2, sz2, t) /\ ChunksOf(U, ck, nv, t)
    BY DEF Stores
  <2>1. nv[t].store_left \in Nat /\ StoreIn(U, ck, nv, hd, sz, t) /\ ChunksOf(U, ck, nv, t)
    BY <1>1 DEF Heap, Stores
  <2>2. nv[t].store_left > 0 => nv[t].store # h /\ nv[t].store # p
    BY <1>2 DEF IsStore
  <2> QED
    BY <1>9, <1>11, <2>1, <2>2 DEF StoreIn
<1>18. Lists(U, ck, nv, hd2, ar2)
  <2> SUFFICES ASSUME NEW d \in U PROVE Listed(ck, nv, hd2, ar2, d)
    BY DEF Lists
  <2>1. Listed(ck, nv, hd, ar, d)
    BY <1>1 DEF Heap, Lists
  <2>2. p \notin Mem(ck[d].flol)
    <3> SUFFICES ASSUME p \in Mem(ck[d].flol) PROVE FALSE
      OBVIOUS
    <3>1. InC(ck, d, p) /\ UsedApart(U, ck)
      BY <1>1, <2>1 DEF Listed, Heap, Tiles
    <3>2. d = c
      BY <1>5, <1>6, <3>1, OneChunk
    <3> QED
      BY <3>2
  <2>3. \A f : FreeBlock(nv, hd, ar, f) /\ f # p => FreeBlock(nv, hd2, ar2, f)
    BY <1>11, <1>12 DEF FreeBlock
  <2> QED
    BY <2>1, <2>2, <2>3 DEF Listed
<1>19. Good(U, ck, rs2, nv, hd2, ar2)
  BY <1>15, <1>16, <1>17, <1>18 DEF Heap, Good
<1> QED
  BY <1>19 DEF hd2, ar2
-----------------------------------------------------------------------------
(* A chunk is no longer used, nor known to a type.                         *)
HeadsOut(ck, c, hd) == {h \in hd : ~InC(ck, c, h)}
ArraysOut(ck, c, ar) == {a \in ar : ~InC(ck, c, a[1])}
Unknown(nv, c) == \A t \in Types : nv[t].store_chunk # c /\ c \notin Mem(nv[t].chunk_list)

LEMMA ChunkGone ==
  ASSUME NEW U, NEW ck, NEW rs, NEW nv, NEW hd, NEW ar, Good(U, ck, rs, nv, hd, ar),
         NEW c \in U, Unknown(nv, c), NEW ck2, SameChunks2(U \ {c}, ck, ck2)
  PROVE  Good(U \ {c}, ck2, rs, nv, HeadsOut(ck, c, hd), ArraysOut(ck, c, ar))
<1> DEFINE U2 == U \ {c}
           hd2 == HeadsOut(ck, c, hd)
           ar2 == ArraysOut(ck, c, ar)
<1>1. PICK sz : Heap(U, ck, rs, nv, hd, ar, sz)
  BY DEF Good
<1>2. \A g : g \in hd2 <=> g \in hd /\ ~InC(ck, c, g)
  BY DEF HeadsOut
<1>3. \A a : a \in ar2 <=> a \in ar /\ ~InC(ck, c, a[1])
  BY DEF ArraysOut
<1>4. \A g : g \in StartsOf(ar2) <=> g \in StartsOf(ar) /\ ~InC(ck, c, g)
  BY <1>3 DEF StartsOf
<1>5. U2 \subseteq U /\ c \notin U2
  OBVIOUS
<1>6. \A d \in U2 : ck2[d] = ck[d] /\ ChunkEnd(ck2, d) = ChunkEnd(ck, d)
  BY DEF SameChunks2, ChunkEnd
<1> HIDE DEF hd2, ar2, U2
<1>7. \A d \in U2 : \A g : InC(ck2, d, g) <=> InC(ck, d, g)
  BY <1>6 DEF InC
<1>8. \A d \in U2, g \in hd : InC(ck, d, g) => g \in hd2
  <2> SUFFICES ASSUME NEW d \in U2, NEW g \in hd, InC(ck, d, g), InC(ck, c, g) PROVE FALSE
    BY <1>2
  <2>1. UsedApart(U, ck) /\ g \in Addr
    BY <1>1 DEF Heap, Tiles
  <2>2. d = c
    BY <1>5, <2>1, OneChunk
  <2> QED
    BY <1>5, <2>2
<1>9. Tiles(U2, ck2, hd2, sz)
  <2>1. UsedApart(U2, ck2)
    BY <1>1, <1>5, <1>6 DEF Heap, Tiles, UsedApart
  <2>2. ASSUME NEW d \in U2 PROVE First(d) \in hd2
    <3>1. First(d) \in hd /\ InC(ck, d, First(d))
      BY <1>1, <1>5, FirstIn DEF Heap, Tiles
    <3> QED
      BY <1>8, <3>1
  <2>3. ASSUME NEW g \in hd2 PROVE \E d \in U2 : InC(ck2, d, g) /\ FitsIn(ck2, d, g, hd2, sz)
    <3>1. g \in hd /\ ~InC(ck, c, g)
      BY <1>2
    <3>2. PICK d \in U : InC(ck, d, g) /\ FitsIn(ck, d, g, hd, sz)
      BY <1>1, <3>1 DEF Heap, Tiles
    <3>3. d \in U2
      BY <3>1, <3>2 DEF U2
    <3>4. g + sz[g] \in hd => g + sz[g] \in hd2 \/ g + sz[g] = ChunkEnd(ck, d)
      <4> SUFFICES ASSUME g + sz[g] \in hd, g + sz[g] # ChunkEnd(ck, d) PROVE g + sz[g] \in hd2
        OBVIOUS
      <4>1. g + sz[g] <= ChunkEnd(ck, d)
        BY <3>2 DEF FitsIn
      <4>2. /\ g \in Nat /\ sz[g] \in Nat /\ d \in Addr /\ d \in Nat /\ ck[d].size \in Nat
            /\ ChunkEnd(ck, d) \in Nat /\ First(d) \in Nat /\ First(d) <= g
        BY <1>1, <3>1, <3>2, AddrNat, FirstNat DEF Heap, Tiles, UsedApart, ChunkEnd, InC
      <4>3. InC(ck, d, g + sz[g])
        BY <4>1, <4>2 DEF InC
      <4> QED
        BY <1>8, <3>3, <4>3
    <3>5. FitsIn(ck2, d, g, hd2, sz)
      BY <1>6, <3>2, <3>3, <3>4 DEF FitsIn
    <3> QED
      BY <1>7, <3>2, <3>3, <3>5
  <2> QED
    BY <1>1, <1>2, <2>1, <2>2, <2>3 DEF Heap, Tiles
<1>10. Contents(rs, nv, hd2, ar2, sz)
  <2>1. \A a \in ar2 : /\ a = <<a[1], a[2]>> /\ a[1] \in hd2 /\ ~IsStore(nv, a[1])
                       /\ a[2] \in Nat /\ a[2] <= sz[a[1]]
    BY <1>1, <1>2, <1>3 DEF Heap, Contents
  <2>2. \A a, b \in ar2 : a[1] = b[1] => a = b
    BY <1>1, <1>3 DEF Heap, Contents
  <2>3. \A h \in hd2 : ~IsStore(nv, h) =>
          /\ sz[h] = rs[h].size
          /\ h \in StartsOf(ar2) => rs[h].flag \in {UNMARKED, MARKED}
          /\ h \notin StartsOf(ar2) => rs[h].flag = FREE
    BY <1>1, <1>2, <1>4 DEF Heap, Contents
  <2> QED
    BY <2>1, <2>2, <2>3 DEF Contents
<1>11. Stores(U2, ck2, nv, hd2, sz)
  <2> SUFFICES ASSUME NEW t \in Types
               PROVE  nv[t].store_left \in Nat /\ StoreIn(U2, ck2, nv, hd2, sz, t) /\ ChunksOf(U2, ck2, nv, t)
    BY DEF Stores
  <2>1. nv[t].store_left \in Nat /\ StoreIn(U, ck, nv, hd, sz, t) /\ ChunksOf(U, ck, nv, t)
    BY <1>1 DEF Heap, Stores
  <2>2. nv[t].store_chunk # c /\ c \notin Mem(nv[t].chunk_list)
    BY DEF Unknown
  <2>3. \A d \in U : d # c => d \in U2
    BY DEF U2
  <2>4. ChunksOf(U2, ck2, nv, t)
    BY <1>6, <2>1, <2>2, <2>3 DEF ChunksOf
  <2>5. StoreIn(U2, ck2, nv, hd2, sz, t)
    <3> SUFFICES ASSUME nv[t].store_left > 0 PROVE StoreIn(U2, ck2, nv, hd2, sz, t)
      BY DEF StoreIn
    <3>1. nv[t].store_chunk # 0 /\ nv[t].store_chunk \in U2
      BY <2>1, <2>2, <2>3 DEF StoreIn, ChunksOf
    <3>2. /\ nv[t].store \in hd /\ sz[nv[t].store] = nv[t].store_left
          /\ InC(ck, nv[t].store_chunk, nv[t].store) /\ ck[nv[t].store_chunk].size <= RSOC_SIZE
      BY <2>1 DEF StoreIn
    <3> QED
      BY <1>6, <1>7, <1>8, <3>1, <3>2 DEF StoreIn
  <2> QED
    BY <2>1, <2>4, <2>5
<1>12. Lists(U2, ck2, nv, hd2, ar2)
  <2> SUFFICES ASSUME NEW d \in U2 PROVE Listed(ck2, nv, hd2, ar2, d)
    BY DEF Lists
  <2>1. Listed(ck, nv, hd, ar, d)
    BY <1>1, <1>5 DEF Heap, Lists
  <2>2. \A f : FreeBlock(nv, hd, ar, f) /\ InC(ck, d, f) => FreeBlock(nv, hd2, ar2, f)
    BY <1>4, <1>8 DEF FreeBlock
  <2>3. ck2[d] = ck[d] /\ \A f : InC(ck2, d, f) <=> InC(ck, d, f)
    BY <1>6, <1>7
  <2> QED
    BY <2>1, <2>2, <2>3 DEF Listed
<1>13. Good(U2, ck2, rs, nv, hd2, ar2)
  BY <1>9, <1>10, <1>11, <1>12 DEF Heap, Good
<1> QED
  BY <1>13 DEF U2, hd2, ar2

(* The blocks from the chunk to its end are those behind its header.       *)
LEMMA HeadsBetween ==
  ASSUME NEW U, NEW ck, NEW rs, NEW nv, NEW hd, NEW ar, Good(U, ck, rs, nv, hd, ar),
         NEW c \in U, NEW h \in hd, c <= h, h < ChunkEnd(ck, c)
  PROVE  InC(ck, c, h)
<1>1. PICK sz : Heap(U, ck, rs, nv, hd, ar, sz)
  BY DEF Good
<1>2. PICK d \in U : InC(ck, d, h)
  BY <1>1 DEF Heap, Tiles
<1>3. /\ \A b \in U : b \in Addr /\ b \in Nat /\ ChunkEnd(ck, b) \in Nat /\ First(b) \in Nat /\ b < First(b)
      /\ \A b, e \in U : b < e => ChunkEnd(ck, b) <= e
      /\ h \in Nat
  BY <1>1, FirstNat, AddrNat DEF Heap, Tiles, UsedApart, ChunkEnd
<1>4. ~(d < c)
  BY <1>2, <1>3 DEF InC
<1>5. ~(c < d)
  BY <1>2, <1>3 DEF InC
<1>6. c = d
  BY <1>3, <1>4, <1>5
<1> QED
  BY <1>2, <1>6

(* gc_start: every store becomes a free block.                             *)
StoresWritten(rs, rs2, nv) ==
  /\ \A a \in Addr : ~IsStore(nv, a) => rs2[a] = rs[a]
  /\ \A t \in Types : Valid(rs2, nv, t)
NoStores(nv) == \A t \in Types : nv[t].store_left = 0 /\ nv[t].store_chunk = 0 /\ nv[t].chunk_list = <<>>

LEMMA StoresDropped ==
  ASSUME NEW U, NEW ck, NEW rs, NEW nv, NEW hd, NEW ar, Good(U, ck, rs, nv, hd, ar),
         NEW rs2, StoresWritten(rs, rs2, nv), NEW nv2, NoStores(nv2)
  PROVE  Good(U, ck, rs2, nv2, hd, ar)
<1>1. PICK sz : Heap(U, ck, rs, nv, hd, ar, sz)
  BY DEF Good
<1>2. \A h : ~IsStore(nv2, h)
  BY DEF NoStores, IsStore
<1>3. \A h \in hd : h \in Addr
  BY <1>1 DEF Heap, Tiles
<1>4. Contents(rs2, nv2, hd, ar, sz)
  <2>1. ASSUME NEW h \in hd
        PROVE  /\ sz[h] = rs2[h].size
               /\ h \in StartsOf(ar) => rs2[h].flag \in {UNMARKED, MARKED}
               /\ h \notin StartsOf(ar) => rs2[h].flag = FREE
    <3>1. CASE ~IsStore(nv, h)
      BY <1>1, <1>3, <3>1 DEF Heap, Contents, StoresWritten
    <3>2. CASE IsStore(nv, h)
      <4>1. PICK t \in Types : nv[t].store_left > 0 /\ nv[t].store = h
        BY <3>2 DEF IsStore
      <4>2. sz[h] = nv[t].store_left /\ h \notin StartsOf(ar)
        BY <1>1, <4>1, StoreAt
      <4> QED
        BY <4>1, <4>2 DEF StoresWritten, Valid
    <3> QED
      BY <3>1, <3>2
  <2>2. \A a \in ar : a[1] \in hd /\ a = <<a[1], a[2]>> /\ a[2] \in Nat /\ a[2] <= sz[a[1]]
    BY <1>1 DEF Heap, Contents
  <2>3. \A a, b \in ar : a[1] = b[1] => a = b
    BY <1>1 DEF Heap, Contents
  <2> QED
    BY <1>2, <2>1, <2>2, <2>3 DEF Contents
<1>5. Stores(U, ck, nv2, hd, sz)
  <2>1. <<>> \in Seq(Addr) /\ Mem(<<>>) = {}
    BY DEF Mem
  <2> SUFFICES ASSUME NEW t \in Types
               PROVE  nv2[t].store_left \in Nat /\ StoreIn(U, ck, nv2, hd, sz, t) /\ ChunksOf(U, ck, nv2, t)
    BY DEF Stores
  <2>2. nv2[t].store_left = 0 /\ nv2[t].store_chunk = 0 /\ nv2[t].chunk_list = <<>>
    BY DEF NoStores
  <2>3. nv2[t].store_left \in Nat /\ StoreIn(U, ck, nv2, hd, sz, t)
    BY <2>2 DEF StoreIn
  <2>4. ChunksOf(U, ck, nv2, t)
    BY <2>1, <2>2, Zenon DEF ChunksOf
  <2> QED
    BY <2>3, <2>4
<1>6. Lists(U, ck, nv2, hd, ar)
  BY <1>1, <1>2 DEF Heap, Lists, Listed, FreeBlock
<1> QED
  BY <1>1, <1>4, <1>5, <1>6 DEF Heap, Good
-----------------------------------------------------------------------------
(* Headers of blocks and na_env are records; only what a step assigns      *)
(* changes.                                                                *)
IsBlock(b) == b = Block(b.size, b.flag)
IsEnv(e) == e = Env(e.store_left, e.store, e.store_chunk, e.chunk_list)
Blocks(rs) == rs = [a \in Addr |-> Block(rs[a].size, rs[a].flag)]
Envs(nv) == nv = [t \in Types |-> Env(nv[t].store_left, nv[t].store, nv[t].store_chunk, nv[t].chunk_list)]
PutBlock(rs, rs2, h, n, f) == Blocks(rs2) /\ OnlyBlock(rs, rs2, h) /\ rs2[h] = Block(n, f)
PutEnv(nv, nv2, t, n, h, c, l) == Envs(nv2) /\ OnlyEnv(nv, nv2, t) /\ nv2[t] = Env(n, h, c, l)

LEMMA BlockFields == \A n, f : LET b == Block(n, f) IN b.size = n /\ b.flag = f /\ IsBlock(b)
BY DEF Block, IsBlock

LEMMA EnvFields ==
  \A n, h, c, l : LET e == Env(n, h, c, l) IN
    /\ e.store_left = n /\ e.store = h /\ e.store_chunk = c /\ e.chunk_list = l /\ IsEnv(e)
BY DEF Env, IsEnv

LEMMA BlockUpdates ==
  ASSUME NEW b, IsBlock(b), NEW v
  PROVE  [b EXCEPT !.size = v] = Block(v, b.flag) /\ [b EXCEPT !.flag = v] = Block(b.size, v)
<1>1. PICK n, f : b = Block(n, f)
  BY DEF IsBlock
<1>2. b.size = n /\ b.flag = f
  BY <1>1, BlockFields
<1>3. [b EXCEPT !.size = v] = Block(v, f) /\ [b EXCEPT !.flag = v] = Block(n, v)
  BY <1>1 DEF Block
<1> QED
  BY <1>2, <1>3

LEMMA EnvUpdates ==
  ASSUME NEW e, IsEnv(e), NEW v
  PROVE  /\ [e EXCEPT !.store_left = v] = Env(v, e.store, e.store_chunk, e.chunk_list)
         /\ [e EXCEPT !.store = v] = Env(e.store_left, v, e.store_chunk, e.chunk_list)
         /\ [e EXCEPT !.store_chunk = v] = Env(e.store_left, e.store, v, e.chunk_list)
         /\ [e EXCEPT !.chunk_list = v] = Env(e.store_left, e.store, e.store_chunk, v)
<1>1. PICK n, h, c, l : e = Env(n, h, c, l)
  BY DEF IsEnv
<1>2. e.store_left = n /\ e.store = h /\ e.store_chunk = c /\ e.chunk_list = l
  BY <1>1, EnvFields
<1>3. [e EXCEPT !.store_left = v] = Env(v, h, c, l)
  BY <1>1 DEF Env
<1>4. [e EXCEPT !.store = v] = Env(n, v, c, l)
  BY <1>1 DEF Env
<1>5. [e EXCEPT !.store_chunk = v] = Env(n, h, v, l)
  BY <1>1 DEF Env
<1>6. [e EXCEPT !.chunk_list = v] = Env(n, h, c, v)
  BY <1>1 DEF Env
<1> QED
  BY <1>2, <1>3, <1>4, <1>5, <1>6

LEMMA BlocksAt == ASSUME NEW rs, Blocks(rs), NEW a \in Addr PROVE IsBlock(rs[a]) /\ rs = [b \in Addr |-> rs[b]]
<1> DEFINE H(b) == Block(rs[b].size, rs[b].flag)
<1>1. rs = [b \in Addr |-> H(b)]
  BY DEF Blocks
<1> HIDE DEF H
<1>2. rs[a] = H(a) /\ rs = [b \in Addr |-> rs[b]]
  BY <1>1
<1> QED
  BY <1>2 DEF H, IsBlock

LEMMA BlocksFrom == ASSUME NEW rs, rs = [b \in Addr |-> rs[b]], \A a \in Addr : IsBlock(rs[a]) PROVE Blocks(rs)
<1> DEFINE H(b) == Block(rs[b].size, rs[b].flag)
<1>1. \A a \in Addr : rs[a] = H(a)
  BY DEF IsBlock
<1> HIDE DEF H
<1>2. rs = [b \in Addr |-> H(b)]
  BY <1>1
<1> QED
  BY <1>2 DEF H, Blocks

LEMMA BlockPut ==
  ASSUME NEW rs, Blocks(rs), NEW h \in Addr, NEW n, NEW f, NEW rs2, rs2 = [rs EXCEPT ![h] = Block(n, f)]
  PROVE  PutBlock(rs, rs2, h, n, f)
<1> DEFINE b == Block(n, f)
<1>1. IsBlock(b)
  BY BlockFields
<1> HIDE DEF b
<1>2. /\ rs2 = [a \in Addr |-> rs2[a]] /\ rs2[h] = b
      /\ \A a \in Addr : a # h => rs2[a] = rs[a]
  BY BlocksAt DEF b
<1>3. Blocks(rs2)
  BY <1>1, <1>2, BlocksAt, BlocksFrom
<1> QED
  BY <1>2, <1>3 DEF PutBlock, OnlyBlock, b

LEMMA EnvsAt == ASSUME NEW nv, Envs(nv), NEW t \in Types PROVE IsEnv(nv[t]) /\ nv = [u \in Types |-> nv[u]]
<1> DEFINE H(u) == Env(nv[u].store_left, nv[u].store, nv[u].store_chunk, nv[u].chunk_list)
<1>1. nv = [u \in Types |-> H(u)]
  BY DEF Envs
<1> HIDE DEF H
<1>2. nv[t] = H(t) /\ nv = [u \in Types |-> nv[u]]
  BY <1>1
<1> QED
  BY <1>2 DEF H, IsEnv

LEMMA EnvsFrom == ASSUME NEW nv, nv = [u \in Types |-> nv[u]], \A t \in Types : IsEnv(nv[t]) PROVE Envs(nv)
<1> DEFINE H(u) == Env(nv[u].store_left, nv[u].store, nv[u].store_chunk, nv[u].chunk_list)
<1>1. \A t \in Types : nv[t] = H(t)
  BY DEF IsEnv
<1> HIDE DEF H
<1>2. nv = [u \in Types |-> H(u)]
  BY <1>1
<1> QED
  BY <1>2 DEF H, Envs

LEMMA EnvPut ==
  ASSUME NEW nv, Envs(nv), NEW t \in Types, NEW n, NEW h, NEW c, NEW l,
         NEW nv2, nv2 = [nv EXCEPT ![t] = Env(n, h, c, l)]
  PROVE  PutEnv(nv, nv2, t, n, h, c, l)
<1> DEFINE e == Env(n, h, c, l)
<1>1. IsEnv(e)
  BY EnvFields
<1> HIDE DEF e
<1>2. /\ nv2 = [u \in Types |-> nv2[u]] /\ nv2[t] = e
      /\ \A u \in Types : u # t => nv2[u] = nv[u]
  BY EnvsAt DEF e
<1>3. Envs(nv2)
  BY <1>1, <1>2, EnvsAt, EnvsFrom
<1> QED
  BY <1>2, <1>3 DEF PutEnv, OnlyEnv, e

(* The header of an array is written and its contents are cleared.         *)
LEMMA ClearedFacts ==
  ASSUME Blocks(rsoh), NEW h \in Addr, NEW s \in Nat, s > 0
  PROVE  Blocks(Cleared(h, s)) /\ Written(rsoh, Cleared(h, s), h, s)
<1> DEFINE C(a) == IF a = h THEN [size |-> s, flag |-> UNMARKED]
                   ELSE IF a \in h + 1..h + s - 1 THEN [size |-> 0, flag |-> DATA]
                   ELSE rsoh[a]
           rs2 == Cleared(h, s)
<1>1. rs2 = [a \in Addr |-> C(a)]
  BY DEF Cleared
<1>2. ASSUME NEW a \in Addr PROVE IsBlock(C(a))
  <2>1. IsBlock(rsoh[a])
    BY BlocksAt
  <2>2. IsBlock(Block(s, UNMARKED)) /\ IsBlock(Block(0, DATA))
    BY BlockFields
  <2> QED
    BY <2>1, <2>2 DEF Block
<1>3. C(h).size = s /\ C(h).flag = UNMARKED
  OBVIOUS
<1>4. ASSUME NEW a \in Addr, a \notin h .. h + s - 1 PROVE C(a) = rsoh[a]
  <2>1. h \in Nat
    BY AddrNat
  <2>2. a # h /\ a \notin h + 1 .. h + s - 1
    BY <1>4, <2>1
  <2> QED
    BY <2>2
<1> HIDE DEF C, rs2
<1>5. rs2 = [a \in Addr |-> rs2[a]] /\ \A a \in Addr : rs2[a] = C(a)
  BY <1>1
<1>6. Blocks(rs2)
  BY <1>2, <1>5, BlocksFrom
<1>7. Written(rsoh, rs2, h, s)
  BY <1>3, <1>4, <1>5 DEF Written
<1> QED
  BY <1>6, <1>7 DEF rs2

(* Neither header nor contents of the arrays change.                       *)
KeepsArrays(ar, rs, rs2) ==
  \A a \in ar : rs2[a[1]] = rs[a[1]] /\ \A x \in a[1] + 1 .. a[1] + a[2] - 1 : rs2[x] = rs[x]

LEMMA BlockApart ==
  ASSUME NEW U, NEW ck, NEW rs, NEW nv, NEW hd, NEW ar, NEW sz, Heap(U, ck, rs, nv, hd, ar, sz),
         NEW a \in ar, NEW h \in hd, a[1] # h
  PROVE  \A x : x = a[1] \/ x \in a[1] + 1 .. a[1] + a[2] - 1 => x \in Addr /\ x \notin h .. h + sz[h] - 1
<1>1. /\ a[1] \in hd /\ a[2] \in Nat /\ a[2] <= sz[a[1]]
  BY DEF Heap, Contents
<1>2. /\ a[1] \in Addr /\ h \in Addr /\ sz[a[1]] \in Nat /\ sz[h] \in Nat /\ sz[h] > 1
      /\ sz[a[1]] > 1
      /\ a[1] < h => a[1] + sz[a[1]] <= h
      /\ h < a[1] => h + sz[h] <= a[1]
  BY <1>1 DEF Heap, Tiles
<1>3. PICK c \in U : InC(ck, c, a[1]) /\ FitsIn(ck, c, a[1], hd, sz)
  BY <1>1 DEF Heap, Tiles
<1>4. a[1] + sz[a[1]] <= ChunkEnd(ck, c) /\ ChunkEnd(ck, c) <= Memory + 1 /\ ChunkEnd(ck, c) \in Nat
  BY <1>3, AddrNat DEF FitsIn, Heap, Tiles, UsedApart, ChunkEnd
<1>5. a[1] \in Nat /\ a[1] >= 1 /\ h \in Nat /\ Memory \in Nat
  BY <1>2, AddrNat
<1> SUFFICES ASSUME NEW x, x = a[1] \/ x \in a[1] + 1 .. a[1] + a[2] - 1
             PROVE  x \in Addr /\ x \notin h .. h + sz[h] - 1
  OBVIOUS
<1>6. x \in Nat /\ a[1] <= x /\ x < a[1] + sz[a[1]]
  BY <1>1, <1>2, <1>5
<1>7. x \in Nat /\ x >= 1 /\ x <= Memory
  BY <1>2, <1>4, <1>5, <1>6
<1>8. x \in Addr
  BY <1>2, <1>7 DEF Addr
<1>9. CASE a[1] < h
  BY <1>1, <1>2, <1>5, <1>6, <1>8, <1>9
<1>10. CASE h < a[1]
  BY <1>1, <1>2, <1>5, <1>6, <1>8, <1>10
<1> QED
  BY <1>2, <1>5, <1>9, <1>10

LEMMA WrittenKeeps ==
  ASSUME NEW U, NEW ck, NEW rs, NEW nv, NEW hd, NEW ar, NEW sz, Heap(U, ck, rs, nv, hd, ar, sz),
         NEW h \in hd, h \notin StartsOf(ar), NEW s \in Nat, s <= sz[h], NEW rs2, Written(rs, rs2, h, s)
  PROVE  KeepsArrays(ar, rs, rs2)
<1> SUFFICES ASSUME NEW a \in ar
             PROVE  rs2[a[1]] = rs[a[1]] /\ \A x \in a[1] + 1 .. a[1] + a[2] - 1 : rs2[x] = rs[x]
  BY DEF KeepsArrays
<1>1. a[1] # h
  BY DEF StartsOf
<1>2. h \in Nat /\ sz[h] \in Nat
  BY AddrNat DEF Heap, Tiles
<1> SUFFICES ASSUME NEW x, x = a[1] \/ x \in a[1] + 1 .. a[1] + a[2] - 1 PROVE rs2[x] = rs[x]
  OBVIOUS
<1>3. x \in Addr /\ x \notin h .. h + sz[h] - 1
  BY <1>1, BlockApart
<1>4. x \in Nat /\ x \notin h .. h + s - 1
  BY <1>2, <1>3, AddrNat
<1> QED
  BY <1>3, <1>4 DEF Written

LEMMA StoreKeeps ==
  ASSUME NEW U, NEW ck, NEW rs, NEW nv, NEW hd, NEW ar, Good(U, ck, rs, nv, hd, ar),
         NEW t \in Types, nv[t].store_left > 0, NEW s \in Nat, s <= nv[t].store_left,
         NEW rs2, Written(rs, rs2, nv[t].store, s)
  PROVE  KeepsArrays(ar, rs, rs2)
<1>1. PICK sz : Heap(U, ck, rs, nv, hd, ar, sz)
  BY DEF Good
<1>2. /\ nv[t].store \in hd /\ sz[nv[t].store] = nv[t].store_left /\ nv[t].store \notin StartsOf(ar)
  BY <1>1, StoreAt
<1> QED
  BY <1>1, <1>2, WrittenKeeps

LEMMA NewArrayKeeps ==
  ASSUME NEW U, NEW ck, NEW rs, NEW nv, NEW hd, NEW ar, Good(U, ck, rs, nv, hd, ar),
         NEW d, d \notin U, NEW ck2, SameChunks2(U, ck, ck2), UsedApart(U \cup {d}, ck2),
         NEW n \in Nat, TileFits(ck2, d, n), ck2[d].flol = <<>>,
         NEW rs2, Written(rs, rs2, First(d), n)
  PROVE  KeepsArrays(ar, rs, rs2) /\ First(d) \in Addr
<1> DEFINE f == First(d)
           U2 == U \cup {d}
           hd2 == hd \cup {f}
           ar2 == ar \cup {<<f, n>>}
<1>1. Good(U2, ck2, rs2, nv, hd2, ar2)
  BY NewArrayChunk
<1>2. f \notin hd /\ f \in hd2
  <2>1. PICK sz : DOMAIN sz = hd /\ Heap(U, ck, rs, nv, hd, ar, sz)
    BY GoodFunction
  <2>2. Tiles(U, ck, hd, sz)
    BY <2>1 DEF Heap
  <2> QED
    BY <2>1, <2>2, NewTile
<1>3. f \notin StartsOf(ar) /\ ~IsStore(nv, f)
  BY <1>2 DEF Good, Heap, Contents, Stores, StoreIn, IsStore, StartsOf
<1>4. ar \subseteq ar2
  OBVIOUS
<1> HIDE DEF U2, hd2, ar2, f
<1>5. PICK sz : Heap(U2, ck2, rs2, nv, hd2, ar2, sz)
  BY <1>1 DEF Good
<1>6. sz[f] = n /\ f \in Addr
  BY <1>2, <1>3, <1>5 DEF Heap, Contents, Tiles, Written, f
<1>7. ASSUME NEW a \in ar, NEW x, x = a[1] \/ x \in a[1] + 1 .. a[1] + a[2] - 1
      PROVE  rs2[x] = rs[x]
  <2>1. a \in ar2 /\ a[1] # f
    BY <1>3, <1>4 DEF StartsOf
  <2>2. x \in Addr /\ x \notin f .. f + n - 1
    BY <1>2, <1>5, <1>6, <1>7, <2>1, BlockApart
  <2> QED
    BY <2>2 DEF Written, f
<1>8. KeepsArrays(ar, rs, rs2)
  BY <1>7 DEF KeepsArrays
<1> QED
  BY <1>6, <1>8 DEF f
-----------------------------------------------------------------------------
(* rso_from_store, on the heap that has the store.                         *)
Made(h, n, w) ==
  /\ pc' = "run" /\ word' = [word EXCEPT ![w] = h] /\ live' = [live EXCEPT ![w] = TRUE]
  /\ arrays' = arrays \cup {<<h, n>>} /\ attr' = attr /\ req' = <<>>
  /\ rsoh'[h].flag = UNMARKED /\ KeepsArrays(arrays, rsoh, rsoh')
  /\ Blocks(rsoh') /\ Envs(nae')

LEMMA FromStoreAssigns ==
  ASSUME NEW t, NEW n, NEW w, NEW m, NEW h, NEW c, NEW l, FromStore(t, Env(m, h, c, l), n, w)
  PROVE  /\ pc' = "run" /\ word' = [word EXCEPT ![w] = h] /\ live' = [live EXCEPT ![w] = TRUE]
         /\ arrays' = arrays \cup {<<h, n>>} /\ attr' = attr /\ req' = <<>>
         /\ TooSmall(m - n) =>
              /\ nae' = [nae EXCEPT ![t] = Env(0, h, c, l)]
              /\ rsoh' = Cleared(h, m) /\ heads' = heads \cup {h}
         /\ ~TooSmall(m - n) =>
              /\ nae' = [nae EXCEPT ![t] = Env(m - n, h + n, c, l)]
              /\ rsoh' = Cleared(h, n) /\ heads' = heads \cup {h} \cup {h + n}
<1> DEFINE e == Env(m, h, c, l)
           left == e.store_left - n
           whole == TooSmall(left)
           f == [e EXCEPT !.store_left = IF whole THEN 0 ELSE left,
                          !.store = IF whole THEN @ ELSE @ + n]
<1>1. e.store_left = m /\ e.store = h /\ e.store_chunk = c /\ e.chunk_list = l /\ IsEnv(e)
  BY EnvFields
<1>2. /\ nae' = [nae EXCEPT ![t] = f]
      /\ rsoh' = Cleared(e.store, IF whole THEN e.store_left ELSE n)
      /\ heads' = heads \cup {e.store} \cup (IF whole THEN {} ELSE {e.store + n})
      /\ Return(e.store, n, w)
  BY DEF FromStore
<1>3. f = IF whole THEN Env(0, h, c, l) ELSE Env(m - n, h + n, c, l)
  <2> DEFINE v == IF whole THEN 0 ELSE left
             x == IF whole THEN h ELSE h + n
             e1 == [e EXCEPT !.store_left = v]
  <2>1. e1 = Env(v, h, c, l)
    <3> HIDE DEF e, v
    <3> QED
      BY <1>1, EnvUpdates
  <2>2. e1.store = h /\ e1.store_left = v /\ e1.store_chunk = c /\ e1.chunk_list = l /\ IsEnv(e1)
    BY <2>1, EnvFields
  <2>3. f = [e1 EXCEPT !.store = x]
    BY <1>1
  <2> HIDE DEF e1, v, x
  <2>4. f = Env(v, x, c, l)
    BY <2>2, <2>3, EnvUpdates
  <2> QED
    BY <1>1, <2>4 DEF v, x
<1> QED
  BY <1>1, <1>2, <1>3 DEF Return

(* The beginning of the store becomes an array, or the whole of it.        *)
StoreOf(nv, t, m, h, c, l) ==
  nv[t].store_left = m /\ nv[t].store = h /\ nv[t].store_chunk = c /\ nv[t].chunk_list = l
LEMMA StoreWhole ==
  ASSUME NEW U, NEW ck, NEW rs, NEW nv, NEW hd, NEW ar, Good(U, ck, rs, nv, hd, ar),
         NEW t \in Types, NEW m \in Nat, NEW h, NEW c, NEW l, StoreOf(nv, t, m, h, c, l),
         NEW n \in Nat, n > 1, n <= m, NEW rs2, Written(rs, rs2, h, m),
         NEW nv2, OnlyEnv(nv, nv2, t), NEW k, StoreOf(nv2, t, 0, k, c, l)
  PROVE  Good(U, ck, rs2, nv2, hd, ar \cup {<<h, n>>}) /\ KeepsArrays(ar, rs, rs2)
<1>1. nv[t].store_left > 0 /\ nv[t].store_left \in Nat /\ nv[t].store_left <= nv[t].store_left
  BY DEF StoreOf
<1>2. Written(rs, rs2, nv[t].store, nv[t].store_left)
  BY DEF StoreOf
<1>3. KeepsArrays(ar, rs, rs2)
  BY <1>1, <1>2, StoreKeeps
<1>4. n <= nv[t].store_left
  BY DEF StoreOf
<1>5. nv2[t].store_left = 0 /\ nv2[t].store_chunk = nv[t].store_chunk /\ nv2[t].chunk_list = nv[t].chunk_list
  BY DEF StoreOf
<1>6. Good(U, ck, rs2, nv2, hd, ar \cup {<<nv[t].store, n>>})
  BY <1>1, <1>2, <1>4, <1>5, WholeTaken
<1> QED
  BY <1>3, <1>6 DEF StoreOf

LEMMA StoreCut ==
  ASSUME NEW U, NEW ck, NEW rs, NEW nv, NEW hd, NEW ar, Good(U, ck, rs, nv, hd, ar),
         NEW t \in Types, NEW m \in Nat, NEW h, NEW c, NEW l, StoreOf(nv, t, m, h, c, l),
         NEW n \in Nat, n > 1, n + 1 < m, NEW rs2, Written(rs, rs2, h, n),
         NEW nv2, OnlyEnv(nv, nv2, t), StoreOf(nv2, t, m - n, h + n, c, l)
  PROVE  Good(U, ck, rs2, nv2, hd \cup {h + n}, ar \cup {<<h, n>>}) /\ KeepsArrays(ar, rs, rs2)
<1>1. nv[t].store_left > 0 /\ n <= nv[t].store_left /\ n + 1 < nv[t].store_left
  BY DEF StoreOf
<1>2. Written(rs, rs2, nv[t].store, n)
  BY DEF StoreOf
<1>3. KeepsArrays(ar, rs, rs2)
  BY <1>1, <1>2, StoreKeeps
<1>5. /\ nv2[t].store_left = nv[t].store_left - n /\ nv2[t].store = nv[t].store + n
      /\ nv2[t].store_chunk = nv[t].store_chunk /\ nv2[t].chunk_list = nv[t].chunk_list
  BY DEF StoreOf
<1>6. Good(U, ck, rs2, nv2, hd \cup {nv[t].store + n}, ar \cup {<<nv[t].store, n>>})
  BY <1>1, <1>2, <1>5, CutTaken
<1> QED
  BY <1>3, <1>6 DEF StoreOf

LEMMA FromStoreGood ==
  ASSUME Blocks(rsoh), Envs(nae), NEW t \in Types, NEW n \in Nat, n > 1, NEW w,
         NEW m \in Nat, NEW h, NEW c, NEW l, FromStore(t, Env(m, h, c, l), n, w), n <= m,
         NEW nv, nv = [nae EXCEPT ![t] = Env(m, h, c, l)],
         NEW U, NEW ck, Good(U, ck, rsoh, nv, heads \cup {h}, arrays)
  PROVE  /\ Good(U, ck, rsoh', nae', heads', arrays') /\ Made(h, n, w)
         /\ h \in Addr
<1>1. PutEnv(nae, nv, t, m, h, c, l)
  BY EnvPut
<1>2. /\ StoreOf(nv, t, m, h, c, l)
      /\ Envs(nv) /\ OnlyEnv(nae, nv, t)
  BY <1>1, EnvFields DEF PutEnv, StoreOf
<1>3. h \in Addr /\ h \in Nat /\ m > 0
  <2>1. PICK sz : Heap(U, ck, rsoh, nv, heads \cup {h}, arrays, sz)
    BY DEF Good
  <2> QED
    BY <2>1, AddrNat DEF Heap, Tiles
<1>4. \A x, y : nae' = [nae EXCEPT ![t] = Env(x, y, c, l)] =>
        /\ Envs(nae') /\ OnlyEnv(nv, nae', t)
        /\ StoreOf(nae', t, x, y, c, l)
  <2> SUFFICES ASSUME NEW x, NEW y, nae' = [nae EXCEPT ![t] = Env(x, y, c, l)]
               PROVE  /\ Envs(nae') /\ OnlyEnv(nv, nae', t)
                      /\ StoreOf(nae', t, x, y, c, l)
    OBVIOUS
  <2>1. PutEnv(nae, nae', t, x, y, c, l)
    BY EnvPut
  <2> QED
    BY <1>2, <2>1, EnvFields DEF PutEnv, OnlyEnv, StoreOf
<1>5. /\ pc' = "run" /\ word' = [word EXCEPT ![w] = h] /\ live' = [live EXCEPT ![w] = TRUE]
      /\ arrays' = arrays \cup {<<h, n>>} /\ attr' = attr /\ req' = <<>>
  BY FromStoreAssigns
<1> DEFINE hd == heads \cup {h}
<1>8. Good(U, ck, rsoh, nv, hd, arrays)
  OBVIOUS
<1> HIDE DEF hd
<1>6. CASE TooSmall(m - n)
  <2>1. /\ nae' = [nae EXCEPT ![t] = Env(0, h, c, l)]
        /\ rsoh' = Cleared(h, m) /\ heads' = heads \cup {h}
    BY <1>6, FromStoreAssigns
  <2>2. Blocks(rsoh') /\ Written(rsoh, rsoh', h, m)
    BY <1>3, <2>1, ClearedFacts
  <2>4. /\ Envs(nae') /\ OnlyEnv(nv, nae', t)
        /\ StoreOf(nae', t, 0, h, c, l)
    BY <1>4, <2>1
  <2>5. Good(U, ck, rsoh', nae', hd, arrays \cup {<<h, n>>}) /\ KeepsArrays(arrays, rsoh, rsoh')
    BY <1>2, <1>8, <2>2, <2>4, StoreWhole
  <2> QED
    BY <1>3, <1>5, <2>1, <2>2, <2>4, <2>5 DEF Made, Written, hd
<1>7. CASE ~TooSmall(m - n)
  <2>1. /\ nae' = [nae EXCEPT ![t] = Env(m - n, h + n, c, l)]
        /\ rsoh' = Cleared(h, n) /\ heads' = heads \cup {h} \cup {h + n}
    BY <1>7, FromStoreAssigns
  <2>2. Blocks(rsoh') /\ Written(rsoh, rsoh', h, n)
    BY <1>3, <2>1, ClearedFacts
  <2>4. /\ Envs(nae') /\ OnlyEnv(nv, nae', t)
        /\ StoreOf(nae', t, m - n, h + n, c, l)
    BY <1>4, <2>1
  <2>5. n + 1 < m
    BY <1>7 DEF TooSmall
  <2>6. Good(U, ck, rsoh', nae', hd \cup {h + n}, arrays \cup {<<h, n>>}) /\ KeepsArrays(arrays, rsoh, rsoh')
    BY <1>2, <1>8, <2>2, <2>4, <2>5, StoreCut
  <2> QED
    BY <1>3, <1>5, <2>1, <2>2, <2>4, <2>6 DEF Made, Written, hd
<1> QED
  BY <1>6, <1>7
-----------------------------------------------------------------------------
(* The invariant: the blocks fill the chunks, and the marks, the walk of   *)
(* gcna_align_mark and the sweep are where the code needs them to be.      *)
InUse == UsedIn(Mem(gcmt), chunk)
HeapGood == Good(InUse, chunk, rsoh, nae, heads, arrays)

Shapes ==
  /\ Blocks(rsoh) /\ Envs(nae)
  /\ word = [w \in Words |-> word[w]] /\ live = [w \in Words |-> live[w]]
  /\ attr = [f \in Fields |-> attr[f]]
  /\ \A w \in Words : word[w] \in Addr \cup {0}

Marking == {"mark", "walk"}
Collecting == Marking \cup Sweeping

(* The request under way; the headers of the stores are written.           *)
Asked(t) == \E n \in Sizes[t], w \in Words : req = <<t, n, w>>
Headers ==
  /\ pc \in Collecting => \A t \in Types : Valid(rsoh, nae, t)
  /\ \/ req = <<>>
     \/ \E t \in Types : /\ Asked(t)
                         /\ pc = "resume" => Valid(rsoh, nae, t)
                         /\ pc = "new" => nae[t].store_left = 0

(* The sweep is past the block at h, past chunk c.                         *)
Passed(h) == CASE pc = "enter" -> p1 <= Len(gcmt) => h < cur
               [] pc = "sweep" -> h < gp
               [] pc = "link" -> h < ChunkEnd(chunk, cur)
               [] OTHER -> TRUE
Done(c) == CASE pc = "enter" -> p1 <= Len(gcmt) => c < cur
             [] pc = "sweep" -> c < cur
             [] pc = "link" -> c <= cur
             [] OTHER -> TRUE
Held == {word[w] : w \in Words} \cup {attr[f] : f \in Fields}
Roots == {word[w] : w \in {v \in Words : live[v]}} \cup ({attr[f] : f \in Fields} \ {0})
IsMarked(h) == rsoh[h].flag = MARKED

MarkedSoFar ==
  /\ NoStores(nae)
  /\ \A f \in Fields : attr[f] # 0 => IsMarked(attr[f])
  /\ \A w \in Words : live[w] /\ w < wi => IsMarked(word[w])
  /\ wi \in 1 .. NWords + 1
StoresPassed ==
  \A t \in Types : /\ nae[t].store_left > 0 => Passed(nae[t].store)
                   /\ nae[t].store_chunk # 0 => nae[t].store_left > 0
                   /\ \A c \in Mem(nae[t].chunk_list) : Done(c)
SweptSoFar ==
  /\ \A h \in Roots : IsMarked(h) \/ Passed(h)
  /\ \A h \in StartsOf(arrays) : Passed(h) => ~IsMarked(h) /\ h \in Held
  /\ StoresPassed
Marks ==
  /\ Roots \subseteq StartsOf(arrays)
  /\ pc \notin Collecting => \A h \in StartsOf(arrays) : ~IsMarked(h)
  /\ pc \in Collecting => \A h \in StartsOf(arrays) : IsMarked(h) => h \in Held
  /\ pc \in Marking => MarkedSoFar
  /\ pc \in Sweeping => SweptSoFar

WalkAt ==
  pc = "walk" =>
    /\ wi \in Words /\ rsoh[word[wi]].flag \in {UNMARKED, DATA}
    /\ \E c \in InUse : /\ chunk[c].size <= RSOC_SIZE /\ InC(chunk, c, word[wi])
                        /\ (pf \in heads /\ InC(chunk, c, pf)) \/ pf = ChunkEnd(chunk, c)
    /\ word[wi] \in heads => pf <= word[wi]

SweepAt ==
  pc = "sweep" =>
    /\ \A f \in Mem(chunk[cur].flol) : f < gp
    /\ chunk[cur].size > RSOC_SIZE => gp = First(cur) /\ pp = 0
    /\ chunk[cur].size <= RSOC_SIZE /\ pp = 0 =>
         \/ gp \in heads /\ InC(chunk, cur, gp)
         \/ gp = ChunkEnd(chunk, cur) /\ \A h \in StartsOf(arrays) : h + rsoh[h].size # ChunkEnd(chunk, cur)
    /\ chunk[cur].size <= RSOC_SIZE /\ pp # 0 =>
         gp \in heads /\ InC(chunk, cur, gp) /\ gp \notin StartsOf(arrays) /\ pp = gp + rsoh[gp].size

HeapInv == HeapGood /\ Shapes /\ Headers /\ Marks /\ WalkAt /\ SweepAt

(* Of what the sweep has passed: no two free blocks are neighbours, even   *)
(* where the run ends that is joined, and every chunk in use has an array. *)
FreeHeads == heads \ StartsOf(arrays)
Behind(h) == h + rsoh[h].size
RunsApart ==
  \A h \in FreeHeads : Passed(h) =>
    Behind(h) \notin FreeHeads /\ (pc = "sweep" /\ Behind(h) = gp /\ gp \in heads => IsMarked(gp))
HasArray(c) == \E h \in StartsOf(arrays) : InC(chunk, c, h)
Compact == pc \in Sweeping => RunsApart /\ \A c \in InUse : Done(c) => HasArray(c)

LEMMA GoodNext ==
  ASSUME Good(UsedIn(Mem(gcmt'), chunk'), chunk', rsoh', nae', heads', arrays') PROVE HeapGood'
BY DEF HeapGood, InUse

LEMMA StartsAre == StartsOf(arrays) = Starts
BY DEF StartsOf, Starts

(* An array is made: nothing else than the new array changes.              *)
LEMMA MadeInv ==
  ASSUME HeapInv, pc \notin Collecting, NEW h, NEW n, NEW w \in Words, Made(h, n, w),
         Good(UsedIn(Mem(gcmt'), chunk'), chunk', rsoh', nae', heads', arrays')
  PROVE  HeapInv'
<1>1. HeapGood'
  BY GoodNext
<1>2. /\ pc' = "run" /\ word' = [word EXCEPT ![w] = h] /\ live' = [live EXCEPT ![w] = TRUE]
      /\ arrays' = arrays \cup {<<h, n>>} /\ attr' = attr /\ req' = <<>>
      /\ rsoh'[h].flag = UNMARKED /\ KeepsArrays(arrays, rsoh, rsoh')
      /\ Blocks(rsoh') /\ Envs(nae')
  BY DEF Made
<1>3. /\ word = [v \in Words |-> word[v]] /\ live = [v \in Words |-> live[v]]
      /\ attr = [f \in Fields |-> attr[f]]
  BY DEF HeapInv, Shapes
<1>4. /\ word' = [v \in Words |-> word'[v]] /\ live' = [v \in Words |-> live'[v]]
      /\ word'[w] = h /\ \A v \in Words : v # w => word'[v] = word[v] /\ live'[v] = live[v]
  BY <1>2, <1>3
<1>5. Shapes'
  <2>1. h \in Addr
    <3>1. PICK sz : Heap(UsedIn(Mem(gcmt'), chunk'), chunk', rsoh', nae', heads', arrays', sz)
      BY DEF Good
    <3>2. <<h, n>> \in arrays' /\ <<h, n>>[1] = h
      BY <1>2
    <3> QED
      BY <3>1, <3>2 DEF Heap, Contents, Tiles
  <2>2. \A v \in Words : word'[v] \in Addr \cup {0}
    BY <1>4, <2>1 DEF HeapInv, Shapes
  <2> QED
    BY <1>2, <1>3, <1>4, <2>2 DEF Shapes, Blocks, Envs
<1>6. Headers'
  BY <1>2 DEF Headers, Collecting, Marking, Sweeping
<1>7. StartsOf(arrays') = StartsOf(arrays) \cup {h}
  BY <1>2, StartsAdded
<1>8. \A x \in StartsOf(arrays) : rsoh'[x] = rsoh[x]
  BY <1>2 DEF KeepsArrays, StartsOf
<1>9. Marks'
  <2>1. ASSUME NEW x \in Roots' PROVE x \in StartsOf(arrays')
    <3>1. CASE \E v \in Words : live'[v] /\ x = word'[v]
      <4>1. PICK v \in Words : live'[v] /\ x = word'[v]
        BY <3>1
      <4>2. CASE v = w
        BY <1>4, <1>7, <4>1, <4>2
      <4>3. CASE v # w
        <5>1. x \in Roots
          BY <1>4, <4>1, <4>3 DEF Roots
        <5> QED
          BY <1>7, <5>1 DEF HeapInv, Marks
      <4> QED
        BY <4>2, <4>3
    <3>2. CASE x \in {attr[f] : f \in Fields} \ {0}
      BY <1>7, <3>2 DEF HeapInv, Marks, Roots
    <3> QED
      BY <1>2, <2>1, <3>1, <3>2 DEF Roots
  <2>2. \A x \in StartsOf(arrays') : ~(rsoh'[x].flag = MARKED)
    BY <1>2, <1>7, <1>8 DEF HeapInv, Marks, IsMarked, MARKED, UNMARKED
  <2>3. StartsOf(arrays)' = StartsOf(arrays')
    BY DEF StartsOf
  <2> QED
    BY <1>2, <2>1, <2>2, <2>3 DEF Marks, IsMarked, Collecting, Marking, Sweeping
<1>10. WalkAt' /\ SweepAt'
  BY <1>2 DEF WalkAt, SweepAt
<1> QED
  BY <1>1, <1>5, <1>6, <1>9, <1>10 DEF HeapInv
-----------------------------------------------------------------------------
(* new_na takes the array from the store, or from a free block that        *)
(* becomes the store.                                                      *)
LEMMA InUseFacts ==
  ASSUME TableInv, HeapInv, NEW c \in InUse
  PROVE  /\ c \in Addr /\ c \in Mem(gcmt) /\ chunk[c].state = "used" /\ UsedApart(InUse, chunk)
         /\ Listed(chunk, nae, heads, arrays, c)
<1>1. c \in Mem(gcmt) /\ chunk[c].state = "used"
  BY DEF InUse, UsedIn
<1>2. Listed(chunk, nae, heads, arrays, c)
  BY ListedOf DEF HeapInv, HeapGood
<1>3. UsedApart(InUse, chunk)
  BY DEF HeapInv, HeapGood, Good, Heap, Tiles
<1> QED
  BY <1>1, <1>2, <1>3, MemAddr

LEMMA FromStoreInv ==
  ASSUME HeapInv, pc \notin Collecting, NEW t \in Types, NEW n \in Sizes[t], NEW w \in Words,
         NEW m \in Nat, NEW h, NEW c, NEW l, FromStore(t, Env(m, h, c, l), n, w), n <= m,
         NEW nv, nv = [nae EXCEPT ![t] = Env(m, h, c, l)],
         Good(UsedIn(Mem(gcmt'), chunk'), chunk', rsoh, nv, heads \cup {h}, arrays)
  PROVE  HeapInv'
<1>1. n \in Nat /\ n > 1
  BY SizeFacts
<1>2. Blocks(rsoh) /\ Envs(nae)
  BY DEF HeapInv, Shapes
<1> DEFINE U == UsedIn(Mem(gcmt'), chunk')
<1>3. Good(U, chunk', rsoh, nv, heads \cup {h}, arrays)
  OBVIOUS
<1> HIDE DEF U
<1>4. Good(U, chunk', rsoh', nae', heads', arrays') /\ Made(h, n, w)
  BY <1>1, <1>2, <1>3, FromStoreGood
<1> QED
  BY <1>4, MadeInv DEF U

LEMMA DirectInv ==
  ASSUME HeapInv, pc \notin Collecting, NEW t \in Types, NEW n \in Sizes[t], NEW w \in Words,
         n <= nae[t].store_left, FromStore(t, nae[t], n, w), UNCHANGED <<gcmt, chunk>>
  PROVE  HeapInv'
<1> DEFINE m == nae[t].store_left
           h == nae[t].store
           c == nae[t].store_chunk
           l == nae[t].chunk_list
           nv == [nae EXCEPT ![t] = Env(m, h, c, l)]
<1>1. nae[t] = Env(m, h, c, l) /\ nv = nae
  <2>1. IsEnv(nae[t]) /\ nae = [u \in Types |-> nae[u]]
    BY EnvsAt DEF HeapInv, Shapes
  <2> QED
    BY <2>1 DEF IsEnv
<1>2. n \in Nat /\ n > 1
  BY SizeFacts
<1>3. m \in Nat /\ h \in heads
  <2>1. PICK sz : Heap(InUse, chunk, rsoh, nae, heads, arrays, sz)
    BY DEF HeapInv, HeapGood, Good
  <2>2. m \in Nat
    BY <2>1 DEF Heap, Stores
  <2> QED
    BY <1>2, <2>1, <2>2 DEF Heap, Stores, StoreIn
<1>4. heads \cup {h} = heads
  BY <1>3
<1>5. UsedIn(Mem(gcmt'), chunk') = InUse /\ chunk' = chunk
  BY DEF InUse
<1>6. FromStore(t, Env(m, h, c, l), n, w)
  BY <1>1
<1>7. Good(UsedIn(Mem(gcmt'), chunk'), chunk', rsoh, nv, heads \cup {h}, arrays)
  BY <1>1, <1>4, <1>5 DEF HeapInv, HeapGood
<1>8. n <= m
  OBVIOUS
<1> HIDE DEF m, h, c, l, nv
<1>9. nv = [nae EXCEPT ![t] = Env(m, h, c, l)]
  BY DEF nv
<1> QED
  BY <1>3, <1>6, <1>7, <1>8, <1>9, FromStoreInv

(* The store of t is given up: what remains of it is a free block.         *)
LEMMA StoreLeft ==
  ASSUME NEW U, NEW ck, NEW rs, NEW nv, NEW hd, NEW ar, Good(U, ck, rs, nv, hd, ar), Envs(nv),
         NEW t \in Types, Valid(rs, nv, t), NEW k,
         NEW nv2, nv2 = [nv EXCEPT ![t] = Env(0, k, nv[t].store_chunk, nv[t].chunk_list)]
  PROVE  /\ Good(U, ck, rs, nv2, hd, ar) /\ OnlyEnv(nv, nv2, t) /\ Envs(nv2)
         /\ StoreOf(nv2, t, 0, k, nv[t].store_chunk, nv[t].chunk_list)
<1>1. PutEnv(nv, nv2, t, 0, k, nv[t].store_chunk, nv[t].chunk_list)
  BY EnvPut
<1>2. OnlyEnv(nv, nv2, t) /\ Envs(nv2) /\ StoreOf(nv2, t, 0, k, nv[t].store_chunk, nv[t].chunk_list)
  BY <1>1, EnvFields DEF PutEnv, StoreOf
<1>3. /\ nv2[t].store_left = 0 /\ nv2[t].store_chunk = nv[t].store_chunk
      /\ nv2[t].chunk_list = nv[t].chunk_list
  BY <1>2 DEF StoreOf
<1>4. Good(U, ck, rs, nv2, hd, ar)
  BY <1>2, <1>3, StoreDropped, Zenon
<1> QED
  BY <1>2, <1>4

LEMMA FitsFacts ==
  ASSUME TableInv, HeapInv, NEW c \in InUse, NEW n \in Nat, Fits(c, n) # {}
  PROVE  LET i == Min(Fits(c, n)) IN
         i \in 1 .. Len(chunk[c].flol) /\ rsoh[chunk[c].flol[i]].size >= n
<1>1. chunk[c].flol \in Seq(Addr)
  BY InUseFacts DEF Listed
<1>2. DOMAIN chunk[c].flol = 1 .. Len(chunk[c].flol)
  BY <1>1
<1>3. Fits(c, n) \in SUBSET Nat
  BY <1>2 DEF Fits
<1>4. Min(Fits(c, n)) \in Fits(c, n)
  BY <1>3, MinFacts
<1> QED
  BY <1>2, <1>4, Zenon DEF Fits

FlolSet(ck, ck2, c, f) == ck2 = [ck EXCEPT ![c].flol = f]
LEMMA FlolAssign ==
  ASSUME NEW ck, Shape(ck), NEW c \in Addr, NEW f, NEW ck2, FlolSet(ck, ck2, c, f)
  PROVE  /\ ck2[c] = Header(ck[c].state, ck[c].size, ck[c].isize, ck[c].nae, f)
         /\ \A a \in Addr : a # c => ck2[a] = ck[a]
BY FlolPut DEF FlolSet

LEMMA EnvStore ==
  ASSUME NEW e, IsEnv(e), NEW m, NEW h, NEW c
  PROVE  [e EXCEPT !.store_left = m, !.store = h, !.store_chunk = c] = Env(m, h, c, e.chunk_list)
<1>1. PICK x, y, z, l : e = Env(x, y, z, l)
  BY DEF IsEnv
<1>2. e.chunk_list = l
  BY <1>1, EnvFields
<1> DEFINE e1 == [e EXCEPT !.store_left = m]
           e2 == [e1 EXCEPT !.store = h]
           e3 == [e2 EXCEPT !.store_chunk = c]
<1>3. e1 = Env(m, y, z, l)
  BY <1>1 DEF Env
<1>4. e2 = Env(m, h, z, l)
  <2> HIDE DEF e1
  <2> QED
    BY <1>3 DEF Env
<1>5. e3 = Env(m, h, c, l)
  <2> HIDE DEF e2
  <2> QED
    BY <1>4 DEF Env
<1>6. [e EXCEPT !.store_left = m, !.store = h, !.store_chunk = c] = e3
  OBVIOUS
<1> HIDE DEF e3
<1> QED
  BY <1>2, <1>5, <1>6

LEMMA GetStoreInv ==
  ASSUME TableInv, HeapInv, pc \notin Collecting, NEW t \in Types, NEW n \in Sizes[t],
         NEW w \in Words, Valid(rsoh, nae, t), NEW c \in InUse, chunk[c].nae = t,
         Fits(c, n) # {}, GetStoreIn(c, t, n, w)
  PROVE  HeapInv'
<1> DEFINE i == Min(Fits(c, n))
           L == chunk[c].flol
           f == L[i]
           l == nae[t].chunk_list
           m == rsoh[f].size
           nv0 == [nae EXCEPT ![t] = Env(0, f, nae[t].store_chunk, l)]
           nv == [nae EXCEPT ![t] = Env(m, f, c, l)]
<1>1. n \in Nat /\ n > 1
  BY SizeFacts
<1>2. i \in 1 .. Len(L) /\ m >= n
  BY <1>1, FitsFacts
<1>3. /\ chunk' = [chunk EXCEPT ![c].flol = RemoveAt(L, i)] /\ gcmt' = gcmt
      /\ FromStore(t, [nae[t] EXCEPT !.store_left = m, !.store = f, !.store_chunk = c], n, w)
  BY DEF GetStoreIn
<1>4. c \in Addr /\ c \in Mem(gcmt) /\ chunk[c].state = "used" /\ UsedApart(InUse, chunk)
      /\ Listed(chunk, nae, heads, arrays, c)
  BY InUseFacts
<1>5. /\ chunk'[c] = Header(chunk[c].state, chunk[c].size, chunk[c].isize, t, RemoveAt(L, i))
      /\ \A a \in Addr : a # c => chunk'[a] = chunk[a]
  <2> HIDE DEF i, L
  <2>1. Shape(chunk)
    BY DEF TableInv
  <2>2. FlolSet(chunk, chunk', c, RemoveAt(L, i))
    BY <1>3 DEF FlolSet
  <2>3. /\ chunk'[c] = Header(chunk[c].state, chunk[c].size, chunk[c].isize, chunk[c].nae, RemoveAt(L, i))
        /\ \A a \in Addr : a # c => chunk'[a] = chunk[a]
    BY <1>4, <2>1, <2>2, FlolAssign
  <2> QED
    BY <2>3
<1>6. [nae[t] EXCEPT !.store_left = m, !.store = f, !.store_chunk = c] = Env(m, f, c, l)
  <2>1. IsEnv(nae[t])
    BY EnvsAt DEF HeapInv, Shapes
  <2> HIDE DEF m, f
  <2> QED
    BY <2>1, EnvStore, Zenon
<1>7. Good(InUse, chunk, rsoh, nae, heads, arrays) /\ Envs(nae)
  BY DEF HeapInv, HeapGood, Shapes
<1>8. Good(InUse, chunk, rsoh, nv0, heads, arrays) /\ OnlyEnv(nae, nv0, t) /\ Envs(nv0)
      /\ StoreOf(nv0, t, 0, f, nae[t].store_chunk, l)
  <2> HIDE DEF f, l
  <2>1. nv0 = [nae EXCEPT ![t] = Env(0, f, nae[t].store_chunk, nae[t].chunk_list)]
    BY DEF l
  <2> HIDE DEF nv0
  <2> QED
    BY <1>7, <2>1, StoreLeft, Zenon DEF l
<1>9. OnlyFlol(InUse, chunk, chunk', c) /\ chunk'[c].flol = RemoveAt(L, i)
  <2>1. InUse \subseteq Addr
    BY MemAddr DEF InUse, UsedIn
  <2> QED
    BY <1>5, <2>1 DEF OnlyFlol, Header
<1>10. Good(InUse, chunk', rsoh, nv0, heads, arrays) /\ Mem(chunk'[c].flol) = Mem(L) \ {f}
  <2> HIDE DEF nv0, i
  <2>1. Shortened(chunk, chunk', c, i)
    BY <1>2, <1>9 DEF Shortened
  <2>2. /\ Good(InUse, chunk', rsoh, nv0, heads, arrays)
        /\ Mem(chunk'[c].flol) = Mem(chunk[c].flol) \ {chunk[c].flol[i]}
    BY <1>8, <1>9, <2>1, Unfiled
  <2> QED
    BY <2>2
<1>11. FreeBlock(nv0, heads, arrays, f) /\ InC(chunk', c, f) /\ chunk[c].size <= RSOC_SIZE
  <2>1. Listed(chunk, nv0, heads, arrays, c)
    <3> HIDE DEF nv0
    <3> QED
      BY <1>8, ListedOf
  <2>2. f \in Mem(L) /\ L # <<>>
    BY <1>2, <2>1 DEF Mem, Listed
  <2> QED
    BY <1>9, <2>1, <2>2 DEF Listed, InC, ChunkEnd, OnlyFlol
<1>12. UsedIn(Mem(gcmt'), chunk') = InUse
  <2>1. \A a \in Mem(gcmt) : chunk'[a].state = chunk[a].state
    BY <1>5, MemAddr DEF Header
  <2> QED
    BY <1>3, <2>1 DEF InUse, UsedIn
<1>13. PutEnv(nae, nv, t, m, f, c, l)
  <2> HIDE DEF m, f, l
  <2>1. nv = [nae EXCEPT ![t] = Env(m, f, c, l)]
    OBVIOUS
  <2> HIDE DEF nv
  <2> QED
    BY <1>7, <2>1, EnvPut, Zenon
<1>14. OnlyEnv(nv0, nv, t) /\ StoreOf(nv, t, m, f, c, l)
  <2> HIDE DEF nv, nv0, m, f, l
  <2>1. OnlyEnv(nae, nv, t) /\ nv[t] = Env(m, f, c, l) /\ OnlyEnv(nae, nv0, t)
    BY <1>8, <1>13 DEF PutEnv
  <2>2. StoreOf(nv, t, m, f, c, l)
    BY <2>1, EnvFields DEF StoreOf
  <2> QED
    BY <2>1, <2>2 DEF OnlyEnv
<1>15. f \in heads /\ m \in Nat
  <2>1. PICK sz : Heap(InUse, chunk, rsoh, nv0, heads, arrays, sz)
    BY <1>8 DEF Good
  <2> HIDE DEF nv0, f
  <2>2. Contents(rsoh, nv0, heads, arrays, sz) /\ \A h \in heads : sz[h] \in Nat
    BY <2>1 DEF Heap, Tiles
  <2> QED
    BY <1>11, <2>2, Zenon DEF FreeBlock, Contents, f, m
<1>16. Good(InUse, chunk', rsoh, nv, heads, arrays)
  <2>1. /\ nv0[t].store_left = 0 /\ chunk'[c].nae = t /\ chunk'[c].size <= RSOC_SIZE
        /\ f \notin Mem(chunk'[c].flol)
    BY <1>5, <1>8, <1>10, <1>11 DEF Header, StoreOf
  <2>2. /\ nv[t].store_left = rsoh[f].size /\ nv[t].store = f /\ nv[t].store_chunk = c
        /\ nv[t].chunk_list = nv0[t].chunk_list
    BY <1>8, <1>14, Zenon DEF StoreOf
  <2> HIDE DEF nv0, nv, f
  <2> QED
    BY <1>10, <1>11, <1>14, <2>1, <2>2, StoreTaken
<1>17. heads \cup {f} = heads
  BY <1>15
<1> HIDE DEF nv, m, f, l
<1>18. Good(UsedIn(Mem(gcmt'), chunk'), chunk', rsoh, nv, heads \cup {f}, arrays)
  BY <1>12, <1>16, <1>17
<1>19. FromStore(t, Env(m, f, c, l), n, w) /\ n <= m
  BY <1>1, <1>2, <1>3, <1>6, <1>15
<1>20. nv = [nae EXCEPT ![t] = Env(m, f, c, l)]
  BY DEF nv
<1> QED
  BY <1>15, <1>18, <1>19, <1>20, FromStoreInv
-----------------------------------------------------------------------------
(* new_na takes a chunk into use.                                          *)
Fresh(d, m, t) ==
  /\ d \notin InUse /\ UsedIn(Mem(gcmt'), chunk') = InUse \cup {d}
  /\ SameChunks2(InUse, chunk, chunk')
  /\ chunk'[d].size = m /\ chunk'[d].nae = t /\ chunk'[d].flol = <<>>

LEMMA FreshApart ==
  ASSUME TableInv', HeapInv, NEW d, NEW m \in Nat, m > Overhead + 1, NEW t, Fresh(d, m, t)
  PROVE  UsedApart(InUse \cup {d}, chunk') /\ d \in Addr /\ ChunkEnd(chunk', d) = First(d) + (m - Overhead)
<1> DEFINE U2 == InUse \cup {d}
<1>1. Table(Mem(gcmt'), chunk', regions')
  <2>1. (Table(Mem(gcmt), chunk, regions))'
    BY DEF TableInv
  <2> QED
    BY <2>1
<1>2. U2 \subseteq Mem(gcmt')
  BY DEF Fresh, UsedIn
<1>3. UsedApart(InUse, chunk)
  BY DEF HeapInv, HeapGood, Good, Heap, Tiles
<1>4. ASSUME NEW c \in U2 PROVE c \in Addr /\ chunk'[c].size \in Nat /\ chunk'[c].size > Overhead + 1
  <2>1. c \in Addr /\ chunk'[c].size \in Nat
    BY <1>1, <1>2 DEF Table, Cells
  <2>2. c = d \/ chunk'[c].size > Overhead + 1
    BY <1>3 DEF UsedApart, Fresh, SameChunks2
  <2> QED
    BY <2>1, <2>2 DEF Fresh
<1>5. \A c \in U2 : ChunkEnd(chunk', c) <= Memory + 1
  BY <1>1, <1>2, TableBounds
<1>6. \A b, c \in U2 : b < c => ChunkEnd(chunk', b) <= c
  BY <1>1, <1>2 DEF Table, Cells
<1>7. d \in Addr /\ d \in Nat /\ Overhead \in Nat
  BY <1>4, AddrNat, RsoAssumption
<1>8. ChunkEnd(chunk', d) = First(d) + (m - Overhead)
  BY <1>7 DEF ChunkEnd, First, Fresh
<1> QED
  BY <1>4, <1>5, <1>6, <1>7, <1>8 DEF UsedApart

LEMMA ChunkListSeq ==
  ASSUME HeapInv, NEW t \in Types PROVE nae[t].chunk_list \in Seq(Addr)
BY DEF HeapInv, HeapGood, Good, Heap, Stores, ChunksOf

LEMMA FreshStoreInv ==
  ASSUME TableInv', HeapInv, pc \notin Collecting, NEW t \in Types, NEW n \in Sizes[t],
         NEW w \in Words, Valid(rsoh, nae, t),
         NEW d, NEW m \in Nat, m > Overhead + 1, m <= RSOC_SIZE, n <= m - Overhead, Fresh(d, m, t),
         NEW l \in Seq(Addr), Mem(l) \subseteq Mem(nae[t].chunk_list) \cup {d},
         FromStore(t, Env(m - Overhead, First(d), d, l), n, w)
  PROVE  HeapInv'
<1> DEFINE f == First(d)
           k == m - Overhead
           nv0 == [nae EXCEPT ![t] = Env(0, f, nae[t].store_chunk, nae[t].chunk_list)]
           nv == [nae EXCEPT ![t] = Env(k, f, d, l)]
<1>1. Good(InUse, chunk, rsoh, nae, heads, arrays) /\ Envs(nae)
  BY DEF HeapInv, HeapGood, Shapes
<1>2. /\ Good(InUse, chunk, rsoh, nv0, heads, arrays) /\ OnlyEnv(nae, nv0, t) /\ Envs(nv0)
      /\ StoreOf(nv0, t, 0, f, nae[t].store_chunk, nae[t].chunk_list)
  <2> HIDE DEF f
  <2>1. nv0 = [nae EXCEPT ![t] = Env(0, f, nae[t].store_chunk, nae[t].chunk_list)]
    OBVIOUS
  <2> HIDE DEF nv0
  <2> QED
    BY <1>1, <2>1, StoreLeft, Zenon
<1>3. PutEnv(nae, nv, t, k, f, d, l)
  <2> HIDE DEF f, k
  <2>1. nv = [nae EXCEPT ![t] = Env(k, f, d, l)]
    OBVIOUS
  <2> HIDE DEF nv
  <2> QED
    BY <1>1, <2>1, EnvPut
<1>4. OnlyEnv(nv0, nv, t) /\ StoreOf(nv, t, k, f, d, l)
  BY <1>2, <1>3, EnvFields DEF PutEnv, OnlyEnv, StoreOf
<1>5. UsedApart(InUse \cup {d}, chunk')
  BY FreshApart
<1>6. k \in Nat
  BY RsoAssumption
<1>7. Good(InUse \cup {d}, chunk', rsoh, nv, heads \cup {f}, arrays)
  <2>1. nv0[t].store_left = 0 /\ Mem(l) \subseteq Mem(nv0[t].chunk_list) \cup {d}
    BY <1>2 DEF StoreOf
  <2>2. /\ nv[t].store_left = chunk'[d].size - Overhead /\ nv[t].store = First(d)
        /\ nv[t].store_chunk = d /\ nv[t].chunk_list = l
    BY <1>4 DEF StoreOf, Fresh
  <2>3. /\ d \notin InUse /\ SameChunks2(InUse, chunk, chunk') /\ chunk'[d].size <= RSOC_SIZE
        /\ chunk'[d].nae = t /\ chunk'[d].flol = <<>> /\ chunk'[d].size > Overhead + 1
    BY DEF Fresh
  <2>4. nv[t].chunk_list \in Seq(Addr) /\ Mem(nv[t].chunk_list) \subseteq Mem(nv0[t].chunk_list) \cup {d}
    BY <2>1, <2>2
  <2> HIDE DEF nv0, nv
  <2>5. Good(InUse \cup {d}, chunk', rsoh, nv, heads \cup {First(d)}, arrays)
    BY <1>2, <1>4, <1>5, <2>1, <2>2, <2>3, <2>4, NewStoreChunk
  <2> QED
    BY <2>5
<1>8. Good(UsedIn(Mem(gcmt'), chunk'), chunk', rsoh, nv, heads \cup {f}, arrays)
  BY <1>7 DEF Fresh
<1>9. nv = [nae EXCEPT ![t] = Env(k, f, d, l)] /\ FromStore(t, Env(k, f, d, l), n, w) /\ n <= k
  OBVIOUS
<1> HIDE DEF nv, k, f
<1> QED
  BY <1>6, <1>8, <1>9, FromStoreInv

(* A chunk with one array.                                                 *)
LEMMA FreshArray ==
  ASSUME TableInv', HeapInv, NEW t \in Types, NEW n \in Sizes[t],
         NEW d, NEW m \in Nat, Fresh(d, m, t), n + Overhead <= m,
         m <= RSOC_SIZE => m = n + Overhead, rsoh' = Cleared(First(d), n),
         NEW nv, Good(InUse, chunk, rsoh, nv, heads, arrays)
  PROVE  /\ Good(UsedIn(Mem(gcmt'), chunk'), chunk', rsoh', nv, heads \cup {First(d)}, arrays \cup {<<First(d), n>>})
         /\ rsoh'[First(d)].flag = UNMARKED /\ KeepsArrays(arrays, rsoh, rsoh') /\ Blocks(rsoh')
         /\ UsedIn(Mem(gcmt'), chunk') = InUse \cup {d}
<1>1. n \in Nat /\ n > 1 /\ Overhead \in Nat
  BY SizeFacts
<1>2. m > Overhead + 1
  BY <1>1
<1>3. UsedApart(InUse \cup {d}, chunk') /\ d \in Addr /\ ChunkEnd(chunk', d) = First(d) + (m - Overhead)
  BY <1>2, FreshApart
<1>4. First(d) \in Nat /\ First(d) \in Addr
  <2>1. First(d) \in Nat /\ d \in Nat /\ d >= 1 /\ First(d) = d + Overhead
    BY <1>3, FirstNat, AddrNat
  <2>2. ChunkEnd(chunk', d) <= Memory + 1
    BY <1>3 DEF UsedApart
  <2>3. First(d) <= Memory
    BY <1>1, <1>2, <1>3, <2>1, <2>2, AddrNat
  <2> QED
    BY <1>1, <2>1, <2>3 DEF Addr
<1>5. TileFits(chunk', d, n)
  <2>1. chunk'[d].size = m
    BY DEF Fresh
  <2>2. First(d) + n <= ChunkEnd(chunk', d)
    BY <1>1, <1>3, <1>4
  <2>3. m <= RSOC_SIZE => First(d) + n = ChunkEnd(chunk', d)
    BY <1>1, <1>3, <1>4
  <2> QED
    BY <1>1, <2>1, <2>2, <2>3 DEF TileFits
<1>6. Blocks(rsoh') /\ Written(rsoh, rsoh', First(d), n)
  <2>1. Blocks(rsoh)
    BY DEF HeapInv, Shapes
  <2> QED
    BY <1>1, <1>4, <2>1, ClearedFacts
<1>7. d \notin InUse /\ SameChunks2(InUse, chunk, chunk') /\ chunk'[d].flol = <<>>
      /\ UsedIn(Mem(gcmt'), chunk') = InUse \cup {d}
  BY DEF Fresh
<1>8. Good(InUse \cup {d}, chunk', rsoh', nv, heads \cup {First(d)}, arrays \cup {<<First(d), n>>})
  BY <1>1, <1>3, <1>5, <1>6, <1>7, NewArrayChunk
<1>9. KeepsArrays(arrays, rsoh, rsoh')
  BY <1>1, <1>3, <1>5, <1>6, <1>7, NewArrayKeeps
<1>10. rsoh'[First(d)].flag = UNMARKED
  BY <1>6 DEF Written
<1> QED
  BY <1>6, <1>7, <1>8, <1>9, <1>10

(* The array takes the whole of what is left of the chunk, which becomes   *)
(* the store_chunk with nothing left.                                      *)
LEMMA FreshWholeInv ==
  ASSUME TableInv', HeapInv, pc \notin Collecting, NEW t \in Types, NEW n \in Sizes[t],
         NEW w \in Words, Valid(rsoh, nae, t), NEW d, Fresh(d, n + Overhead, t),
         FromStore(t, Env(n, First(d), d, nae[t].chunk_list), n, w)
  PROVE  HeapInv'
<1> DEFINE f == First(d)
           l == nae[t].chunk_list
           nv0 == [nae EXCEPT ![t] = Env(0, f, nae[t].store_chunk, l)]
<1>1. Good(InUse, chunk, rsoh, nae, heads, arrays) /\ Envs(nae)
  BY DEF HeapInv, HeapGood, Shapes
<1>2. /\ Good(InUse, chunk, rsoh, nv0, heads, arrays) /\ OnlyEnv(nae, nv0, t) /\ Envs(nv0)
      /\ StoreOf(nv0, t, 0, f, nae[t].store_chunk, l)
  <2> HIDE DEF f, l
  <2>1. nv0 = [nae EXCEPT ![t] = Env(0, f, nae[t].store_chunk, nae[t].chunk_list)]
    BY DEF l
  <2> HIDE DEF nv0
  <2> QED
    BY <1>1, <2>1, StoreLeft DEF l
<1>3. n \in Nat /\ n > 1 /\ Overhead \in Nat
  BY SizeFacts
<1>4. n + Overhead \in Nat /\ n + Overhead <= n + Overhead /\ TooSmall(n - n)
  BY <1>3 DEF TooSmall
<1>5. /\ pc' = "run" /\ word' = [word EXCEPT ![w] = f] /\ live' = [live EXCEPT ![w] = TRUE]
      /\ arrays' = arrays \cup {<<f, n>>} /\ attr' = attr /\ req' = <<>>
      /\ nae' = [nae EXCEPT ![t] = Env(0, f, d, l)]
      /\ rsoh' = Cleared(f, n) /\ heads' = heads \cup {f}
  BY <1>4, FromStoreAssigns
<1> HIDE DEF nv0
<1>6. /\ Good(UsedIn(Mem(gcmt'), chunk'), chunk', rsoh', nv0, heads', arrays')
      /\ rsoh'[f].flag = UNMARKED /\ KeepsArrays(arrays, rsoh, rsoh') /\ Blocks(rsoh')
      /\ UsedIn(Mem(gcmt'), chunk') = InUse \cup {d}
  BY <1>2, <1>4, <1>5, FreshArray
<1>7. PutEnv(nae, nae', t, 0, f, d, l)
  <2> HIDE DEF f, l
  <2> QED
    BY <1>1, <1>5, EnvPut
<1>8. OnlyEnv(nv0, nae', t) /\ StoreOf(nae', t, 0, f, d, l) /\ Envs(nae')
  BY <1>2, <1>7, EnvFields DEF PutEnv, OnlyEnv, StoreOf
<1> DEFINE U2 == UsedIn(Mem(gcmt'), chunk')
<1>9. d \in U2 /\ chunk'[d].nae = t
  BY <1>6 DEF Fresh
<1> HIDE DEF U2, f, l
<1>10. ChunksOf(U2, chunk', nv0, t)
  BY <1>6 DEF Good, Heap, Stores, U2
<1>11. ChunksOf(U2, chunk', nae', t)
  BY <1>2, <1>8, <1>9, <1>10 DEF ChunksOf, StoreOf
<1>12. Good(U2, chunk', rsoh', nae', heads', arrays')
  <2>1. nae'[t].store_left = nv0[t].store_left /\ nae'[t].store = nv0[t].store /\ nv0[t].store_left = 0
    BY <1>2, <1>8 DEF StoreOf
  <2>2. Good(U2, chunk', rsoh', nv0, heads', arrays')
    BY <1>6 DEF U2
  <2> QED
    BY <1>8, <1>11, <2>1, <2>2, ListsChanged
<1>13. Made(f, n, w)
  BY <1>5, <1>6, <1>8 DEF Made
<1> QED
  BY <1>12, <1>13, MadeInv DEF U2
-----------------------------------------------------------------------------
(* A chunk of rsocfl is taken: its end, its beginning, or the whole of it. *)
LEMMA EnvTaken ==
  ASSUME NEW e, IsEnv(e), NEW m, NEW h, NEW c
  PROVE  [e EXCEPT !.store = h, !.store_chunk = c, !.store_left = m] = Env(m, h, c, e.chunk_list)
<1>1. PICK x, y, z, l : e = Env(x, y, z, l)
  BY DEF IsEnv
<1>2. e.chunk_list = l
  BY <1>1, EnvFields
<1> DEFINE e1 == [e EXCEPT !.store = h]
           e2 == [e1 EXCEPT !.store_chunk = c]
           e3 == [e2 EXCEPT !.store_left = m]
<1>3. e1 = Env(x, h, z, l)
  BY <1>1 DEF Env
<1>4. e2 = Env(x, h, c, l)
  <2> HIDE DEF e1
  <2> QED
    BY <1>3 DEF Env
<1>5. e3 = Env(m, h, c, l)
  <2> HIDE DEF e2
  <2> QED
    BY <1>4 DEF Env
<1>6. [e EXCEPT !.store = h, !.store_chunk = c, !.store_left = m] = e3
  OBVIOUS
<1> HIDE DEF e3
<1> QED
  BY <1>2, <1>5, <1>6

TakesEnd(t, n, w, c, d) ==
  /\ IsSplitOff(Mem(gcmt), chunk, regions, c, n + Overhead, t, d, chunk')
  /\ Mem(gcmt') = Mem(gcmt) \cup {d}
  /\ FromStore(t, Env(n, First(d), d, nae[t].chunk_list), n, w)
TakesPart(t, n, w, c, m) ==
  /\ n + Overhead <= m /\ m <= chunk[c].size
  /\ chunk' = Used(chunk, c, m, t) /\ gcmt' = gcmt
  /\ FromStore(t, Env(m - Overhead, First(c), c, nae[t].chunk_list), n, w)

LEMMA BestTaken ==
  ASSUME TableInv, NEW t \in Types, NEW n \in Sizes[t], NEW w, NewInFreeChunk(t, n, w)
  PROVE  LET c == rsocfl[BestFit(n + Overhead)] IN
         /\ c \in FreeIn(Mem(gcmt), chunk) /\ chunk[c].size \in Nat /\ n + Overhead <= chunk[c].size
         /\ c \in Addr
<1> DEFINE m == n + Overhead
           i == BestFit(m)
           c == rsocfl[i]
           G == Mem(gcmt)
<1>0. m \in Nat \ {0}
  BY SizeFacts
<1>1. pc \in {"new", "resume"} /\ ChunkFits(m) # {}
  BY DEF NewInFreeChunk, Looking
<1>2. rsocfl \in Seq(Addr) /\ Table(G, chunk, regions) /\ Mem(rsocfl) = FreeIn(G, chunk)
  BY <1>1 DEF TableInv, FreeLists, Sweeping
<1>3. \A k \in DOMAIN rsocfl : rsocfl[k] \in FreeIn(G, chunk) /\ chunk[rsocfl[k]].size \in Nat
  <2>1. \A k \in DOMAIN rsocfl : rsocfl[k] \in FreeIn(G, chunk)
    BY <1>2 DEF Mem
  <2> QED
    BY <1>2, <2>1 DEF FreeIn, Table, Cells
<1>4. i \in ChunkFits(m)
  <2> HIDE DEF m
  <2> QED
    BY <1>0, <1>1, <1>2, <1>3, BestFitFacts
<1>5. i \in DOMAIN rsocfl /\ chunk[c].size >= m
  BY <1>4 DEF ChunkFits
<1> HIDE DEF i
<1> QED
  BY <1>0, <1>2, <1>3, <1>5 DEF i

LEMMA FreeTaken ==
  ASSUME TableInv, Envs(nae), NEW t \in Types, NEW n \in Sizes[t], NEW w, NewInFreeChunk(t, n, w)
  PROVE  \E c \in FreeIn(Mem(gcmt), chunk) :
           /\ c \in Addr /\ chunk[c].size \in Nat
           /\ \/ \E d : TakesEnd(t, n, w, c, d)
              \/ TakesPart(t, n, w, c, n + Overhead)
              \/ chunk[c].size <= RSOC_SIZE /\ TakesPart(t, n, w, c, chunk[c].size)
<1> DEFINE m == n + Overhead
           i == BestFit(m)
           c == rsocfl[i]
           G == Mem(gcmt)
           d == ChunkEnd(chunk, c) - m
           sp == Used([chunk EXCEPT ![c].size = @ - m, ![d].isize = 0], d, m, t)
           Taken(k, e) == [nae[t] EXCEPT !.store = First(k), !.store_chunk = k, !.store_left = e - Overhead]
<1>0. m \in Nat \ {0} /\ n \in Nat /\ Overhead \in Nat
  BY SizeFacts
<1>1. c \in FreeIn(G, chunk) /\ chunk[c].size \in Nat /\ m <= chunk[c].size /\ c \in Addr
  BY BestTaken
<1>2. \/ IsSplit(c, m) /\ chunk' = sp /\ gcmt' = Added(d) /\ FromStore(t, Taken(d, m), n, w)
      \/ chunk' = Used(chunk, c, m, t) /\ gcmt' = gcmt /\ FromStore(t, Taken(c, m), n, w)
      \/ /\ chunk[c].size <= RSOC_SIZE /\ gcmt' = gcmt
         /\ chunk' = Used(chunk, c, chunk[c].size, t) /\ FromStore(t, Taken(c, chunk[c].size), n, w)
  <2>1. RSOC_SIZE \in Nat
    BY RsoAssumption
  <2>2. End(c) = ChunkEnd(chunk, c)
    BY DEF End, ChunkEnd
  <2>3. \/ /\ chunk[c].size > RSOC_SIZE /\ IsSplit(c, m) /\ chunk' = sp /\ gcmt' = Added(d)
           /\ FromStore(t, Taken(d, m), n, w)
        \/ chunk' = Used(chunk, c, m, t) /\ gcmt' = gcmt /\ FromStore(t, Taken(c, m), n, w)
        \/ /\ ~(chunk[c].size > RSOC_SIZE) /\ gcmt' = gcmt
           /\ chunk' = Used(chunk, c, chunk[c].size, t) /\ FromStore(t, Taken(c, chunk[c].size), n, w)
    <3> USE <2>2
    <3> QED
      BY DEF NewInFreeChunk
  <2> HIDE DEF Taken, sp, d, c, m
  <2> QED
    BY <1>1, <2>1, <2>3
<1>3. \A k, e : Taken(k, e) = Env(e - Overhead, First(k), k, nae[t].chunk_list)
  <2>1. IsEnv(nae[t])
    BY EnvsAt
  <2> QED
    BY <2>1, EnvTaken, Zenon
<1>4. m - Overhead = n
  BY <1>0
<1>5. IsSplitAt(chunk, c, m, t, d, sp)
  BY DEF IsSplitAt
<1>6. gcmt \in Seq(Addr) /\ Increasing(gcmt) /\ Shape(chunk) /\ Table(G, chunk, regions)
  BY DEF TableInv
<1> HIDE DEF Taken, sp, d, m, c, G
<1>7. CASE IsSplit(c, m) /\ chunk' = sp /\ gcmt' = Added(d) /\ FromStore(t, Taken(d, m), n, w)
  <2>1. m < chunk[c].size
    <3>1. RSOC_MIN_STORE * 4 \in Nat /\ RSOC_MIN_STORE * 4 > 0
      BY RsoAssumption
    <3>2. chunk[c].size - m > RSOC_MIN_STORE * 4
      BY <1>7 DEF IsSplit
    <3> QED
      BY <1>0, <1>1, <3>1, <3>2
  <2>2. IsSplitOff(G, chunk, regions, c, m, t, d, sp)
    BY <1>0, <1>1, <1>5, <1>6, <2>1, SplitChunk
  <2>3. d \in Addr /\ d \notin G
    BY <2>2 DEF IsSplitOff
  <2>4. Mem(gcmt') = G \cup {d}
    BY <1>6, <1>7, <2>3, AddedFacts DEF G
  <2>5. FromStore(t, Env(n, First(d), d, nae[t].chunk_list), n, w)
    BY <1>3, <1>4, <1>7
  <2>6. TakesEnd(t, n, w, c, d)
    BY <1>7, <2>2, <2>4, <2>5 DEF TakesEnd, G, m
  <2> QED
    BY <1>1, <2>6 DEF G
<1>8. CASE chunk' = Used(chunk, c, m, t) /\ gcmt' = gcmt /\ FromStore(t, Taken(c, m), n, w)
  <2>1. TakesPart(t, n, w, c, m)
    BY <1>0, <1>1, <1>3, <1>8 DEF TakesPart, m
  <2> QED
    BY <1>1, <2>1 DEF G, m
<1>9. CASE /\ chunk[c].size <= RSOC_SIZE /\ gcmt' = gcmt
           /\ chunk' = Used(chunk, c, chunk[c].size, t) /\ FromStore(t, Taken(c, chunk[c].size), n, w)
  <2>1. TakesPart(t, n, w, c, chunk[c].size)
    BY <1>0, <1>1, <1>3, <1>9 DEF TakesPart, m
  <2> QED
    BY <1>1, <1>9, <2>1 DEF G
<1> QED
  BY <1>2, <1>7, <1>8, <1>9

(* A free chunk, or a part of it, comes into use.                          *)
LEMMA EndIsFresh ==
  ASSUME TableInv, NEW t, NEW n, NEW w, NEW c \in FreeIn(Mem(gcmt), chunk), NEW d, TakesEnd(t, n, w, c, d)
  PROVE  Fresh(d, n + Overhead, t)
<1> DEFINE G == Mem(gcmt)
<1>1. /\ d \in Addr /\ d \notin G /\ c # d
      /\ chunk'[c] = Header("free", d - c, chunk[c].isize, chunk[c].nae, chunk[c].flol)
      /\ chunk'[d] = Header("used", n + Overhead, 0, t, <<>>)
      /\ \A a \in Addr \ {c, d} : chunk'[a] = chunk[a]
      /\ Mem(gcmt') = G \cup {d}
  <2>1. d \in Addr /\ d \notin G /\ c # d
    BY AddrNat DEF TakesEnd, IsSplitOff, FreeIn
  <2> QED
    BY <2>1 DEF TakesEnd, IsSplitOff
<1>2. G \subseteq Addr /\ c \in G /\ chunk[c].state = "free"
  BY MemAddr DEF FreeIn
<1>3. chunk'[c].state = "free" /\ chunk'[d].state = "used" /\ chunk'[d].size = n + Overhead
      /\ chunk'[d].nae = t /\ chunk'[d].flol = <<>>
  BY <1>1 DEF Header
<1> HIDE DEF G
<1>4. UsedIn(Mem(gcmt'), chunk') = UsedIn(G, chunk) \cup {d}
  BY <1>1, <1>2, <1>3 DEF UsedIn
<1>5. SameChunks2(UsedIn(G, chunk), chunk, chunk')
  BY <1>1, <1>2 DEF SameChunks2, UsedIn
<1> QED
  BY <1>1, <1>3, <1>4, <1>5 DEF Fresh, InUse, UsedIn, G

LEMMA PartIsFresh ==
  ASSUME TableInv, NEW t, NEW n, NEW w, NEW c \in FreeIn(Mem(gcmt), chunk), NEW m, TakesPart(t, n, w, c, m)
  PROVE  Fresh(c, m, t)
<1> DEFINE G == Mem(gcmt)
<1>1. G \subseteq Addr /\ c \in G /\ chunk[c].state = "free" /\ Shape(chunk)
  BY MemAddr DEF FreeIn, TableInv
<1>2. /\ chunk'[c] = Header("used", m, chunk[c].isize, t, <<>>)
      /\ \A a \in Addr : a # c => chunk'[a] = chunk[a]
      /\ Mem(gcmt') = G
  <2>1. chunk' = Used(chunk, c, m, t) /\ gcmt' = gcmt
    BY DEF TakesPart
  <2> QED
    BY <1>1, <2>1, UsedFacts
<1>3. /\ chunk'[c].state = "used" /\ chunk'[c].size = m
      /\ chunk'[c].nae = t /\ chunk'[c].flol = <<>>
  BY <1>2 DEF Header
<1> HIDE DEF G
<1>4. UsedIn(Mem(gcmt'), chunk') = UsedIn(G, chunk) \cup {c}
  BY <1>1, <1>2, <1>3 DEF UsedIn
<1>5. SameChunks2(UsedIn(G, chunk), chunk, chunk')
  BY <1>1, <1>2 DEF SameChunks2, UsedIn
<1> QED
  BY <1>1, <1>3, <1>4, <1>5 DEF Fresh, InUse, UsedIn, G

(* What new_na knows of the store of the type it looks for.                *)
LEMMA AskedValid ==
  ASSUME HeapInv, NEW t \in Types, NEW n \in Sizes[t], NEW w \in Words, req = <<t, n, w>>,
         pc \in {"new", "resume"}
  PROVE  Valid(rsoh, nae, t)
<1>1. PICK u \in Types : /\ Asked(u) /\ (pc = "resume" => Valid(rsoh, nae, u))
                         /\ pc = "new" => nae[u].store_left = 0
  <2>1. req # <<>>
    OBVIOUS
  <2> QED
    BY <2>1 DEF HeapInv, Headers
<1>2. u = t
  <2>1. PICK k, v : req = <<u, k, v>>
    BY <1>1 DEF Asked
  <2>2. <<u, k, v>>[1] = <<t, n, w>>[1]
    BY <2>1
  <2> QED
    BY <2>2
<1> QED
  BY <1>1, <1>2 DEF Valid

LEMMA NewInFreeChunkInv ==
  ASSUME TableInv, HeapInv, NEW t \in Types, NEW n \in Sizes[t], NEW w \in Words, NewInFreeChunk(t, n, w)
  PROVE  HeapInv'
<1>1. TableInv'
  BY NewInFreeChunkTable
<1>2. pc \in {"new", "resume"} /\ req = <<t, n, w>>
  BY DEF NewInFreeChunk, Looking
<1>3. pc \notin Collecting /\ Valid(rsoh, nae, t)
  BY <1>2, AskedValid DEF Collecting, Marking, Sweeping
<1>4. Envs(nae)
  BY DEF HeapInv, Shapes
<1>5. PICK c \in FreeIn(Mem(gcmt), chunk) :
        /\ c \in Addr /\ chunk[c].size \in Nat
        /\ \/ \E d : TakesEnd(t, n, w, c, d)
           \/ TakesPart(t, n, w, c, n + Overhead)
           \/ chunk[c].size <= RSOC_SIZE /\ TakesPart(t, n, w, c, chunk[c].size)
  BY <1>4, FreeTaken
<1>6. n \in Nat /\ n > 1 /\ Overhead \in Nat /\ (n + Overhead) - Overhead = n
  BY SizeFacts
<1>7. CASE \E d : TakesEnd(t, n, w, c, d)
  <2>1. PICK d : TakesEnd(t, n, w, c, d)
    BY <1>7
  <2>2. Fresh(d, n + Overhead, t)
    BY <2>1, EndIsFresh
  <2> QED
    BY <1>1, <1>3, <2>1, <2>2, FreshWholeInv DEF TakesEnd
<1>8. CASE TakesPart(t, n, w, c, n + Overhead)
  <2>1. Fresh(c, n + Overhead, t)
    BY <1>8, PartIsFresh
  <2>2. FromStore(t, Env(n, First(c), c, nae[t].chunk_list), n, w)
    BY <1>6, <1>8 DEF TakesPart
  <2> QED
    BY <1>1, <1>3, <2>1, <2>2, FreshWholeInv
<1>9. CASE chunk[c].size <= RSOC_SIZE /\ TakesPart(t, n, w, c, chunk[c].size)
  <2> DEFINE m == chunk[c].size
             l == nae[t].chunk_list
  <2>1. Fresh(c, m, t)
    BY <1>9, PartIsFresh
  <2>2. n + Overhead <= m /\ FromStore(t, Env(m - Overhead, First(c), c, l), n, w)
    BY <1>9 DEF TakesPart
  <2>3. m \in Nat /\ m > Overhead + 1 /\ m <= RSOC_SIZE /\ n <= m - Overhead
    BY <1>5, <1>6, <1>9, <2>2
  <2>4. l \in Seq(Addr) /\ Mem(l) \subseteq Mem(nae[t].chunk_list) \cup {c}
    BY ChunkListSeq
  <2> HIDE DEF m, l
  <2> QED
    BY <1>1, <1>3, <2>1, <2>2, <2>3, <2>4, FreshStoreInv
<1> QED
  BY <1>5, <1>7, <1>8, <1>9
-----------------------------------------------------------------------------
(* malloc gives a chunk.                                                   *)
ForLarge(t, n, w, c) ==
  /\ rsoh' = Cleared(First(c), n) /\ heads' = heads \cup {First(c)} /\ nae' = nae
  /\ Return(First(c), n, w)
ForSmall(t, n, w, c) ==
  FromStore(t, Env(RSOC_SIZE - Overhead, First(c), c, Cons(c, nae[t].chunk_list)), n, w)

LEMMA MallocFresh ==
  ASSUME TableInv, pc \in {"new", "resume"}, NEW t \in Types, NEW n \in Sizes[t], NEW w, Malloc(t, n, w)
  PROVE  \E c \in Addr : \E m \in Nat :
           /\ Fresh(c, m, t) /\ n + Overhead <= m
           /\ \/ m > RSOC_SIZE /\ ForLarge(t, n, w, c)
              \/ m = RSOC_SIZE /\ ForSmall(t, n, w, c)
<1> DEFINE G == Mem(gcmt)
           big == n + Overhead > RSOC_SIZE
           m == IF big THEN Rounded(n + Overhead) ELSE RSOC_SIZE
<1>0. m \in Nat \ {0} /\ n + Overhead <= m /\ (big => m > RSOC_SIZE) /\ (~big => m = RSOC_SIZE)
  <2>1. RSOC_SIZE \in Nat \ {0}
    BY RsoAssumption
  <2>2. n + Overhead \in Nat \ {0}
    BY SizeFacts
  <2>3. Rounded(n + Overhead) \in Nat \ {0} /\ Rounded(n + Overhead) >= n + Overhead
    BY <2>2, RoundedFacts
  <2> QED
    BY <2>1, <2>2, <2>3
<1>1. PICK c \in Available(m) :
        /\ chunk' = Used([chunk EXCEPT ![c].isize = m], c, m, t) /\ gcmt' = Added(c)
        /\ big => ForLarge(t, n, w, c)
        /\ ~big => ForSmall(t, n, w, c)
  BY DEF Malloc, ForLarge, ForSmall, Env
<1> HIDE DEF m, big
<1>2. /\ gcmt \in Seq(Addr) /\ Increasing(gcmt) /\ Shape(chunk) /\ Table(G, chunk, regions)
  BY DEF TableInv
<1>3. c \in Addr /\ c + m <= Memory + 1 /\ \A r \in regions : c + m <= r[1] \/ r[1] + r[2] <= c
  <2>1. c \in Places /\ c + m - 1 <= Memory
    BY DEF Available
  <2>2. c \in Addr
    BY <2>1, RsoAssumption DEF Addr
  <2> QED
    BY <1>0, <2>1, <2>2, AddrNat DEF Available
<1> DEFINE k1 == [chunk EXCEPT ![c].isize = m]
<1>4. /\ Shape(k1) /\ k1[c] = Header(chunk[c].state, chunk[c].size, m, chunk[c].nae, chunk[c].flol)
      /\ \A a \in Addr : a # c => k1[a] = chunk[a]
  <2> DEFINE Is(k, x) ==
               /\ Shape(k) /\ k[c] = Header(chunk[c].state, chunk[c].size, x, chunk[c].nae, chunk[c].flol)
               /\ \A a \in Addr : a # c => k[a] = chunk[a]
  <2>1. \A x : Is([chunk EXCEPT ![c].isize = x], x)
    BY <1>2, <1>3, IsizeChanged
  <2>2. Is(k1, m)
    <3> HIDE DEF Is
    <3> QED
      BY <2>1
  <2> QED
    BY <2>2
<1>5. chunk' = Used(k1, c, m, t)
  BY <1>1
<1> HIDE DEF k1, G
<1>6. /\ Shape(chunk') /\ chunk'[c] = Header("used", m, k1[c].isize, t, <<>>)
      /\ \A a \in Addr : a # c => chunk'[a] = k1[a]
  BY <1>3, <1>4, <1>5, UsedFacts
<1>7. /\ chunk'[c].size = m /\ chunk'[c].isize = m /\ chunk'[c].state = "used"
      /\ chunk'[c].nae = t /\ chunk'[c].flol = <<>>
  BY <1>4, <1>6 DEF Header
<1>8. G \subseteq Addr /\ \A b \in G : b # c => chunk'[b] = chunk[b]
  BY <1>2, <1>4, <1>6 DEF Table, Cells
<1>9. c \notin G
  <2>1. m \in Nat \ {0}
    BY <1>0
  <2>2. chunk'[c].size = m /\ chunk'[c].isize = m /\ chunk'[c].state = "used"
    BY <1>7
  <2>3. \A b \in G : b # c => chunk'[b] = chunk[b]
    BY <1>8
  <2>4. /\ c \notin G /\ <<c, m>> \notin regions
        /\ Table(G \cup {c}, chunk', regions \cup {<<c, m>>})
    <3>1. Table(G, chunk, regions) /\ c \in Addr
      BY <1>2, <1>3
    <3>2. c + m <= Memory + 1 /\ \A r \in regions : c + m <= r[1] \/ r[1] + r[2] <= c
      BY <1>3
    <3> QED
      BY <3>1, <3>2, <2>1, <2>2, <2>3, TableGrows
  <2> QED
    BY <2>4
<1>10. Mem(gcmt') = G \cup {c}
  BY <1>1, <1>2, <1>3, <1>9, AddedFacts DEF G
<1>11. Fresh(c, m, t)
  <2>1. UsedIn(Mem(gcmt'), chunk') = UsedIn(G, chunk) \cup {c}
    BY <1>7, <1>8, <1>9, <1>10 DEF UsedIn
  <2>2. SameChunks2(UsedIn(G, chunk), chunk, chunk') /\ c \notin UsedIn(G, chunk)
    BY <1>8, <1>9 DEF SameChunks2, UsedIn
  <2> QED
    BY <1>7, <2>1, <2>2 DEF Fresh, InUse, G
<1> QED
  BY <1>0, <1>1, <1>3, <1>11

LEMMA MallocInv ==
  ASSUME TableInv, HeapInv, pc \in {"new", "resume"}, NEW t \in Types, NEW n \in Sizes[t],
         NEW w \in Words, req = <<t, n, w>>, Malloc(t, n, w)
  PROVE  HeapInv'
<1>1. TableInv'
  BY MallocTable
<1>2. pc \notin Collecting /\ Valid(rsoh, nae, t)
  BY AskedValid DEF Collecting, Marking, Sweeping
<1>3. PICK c \in Addr : \E m \in Nat :
        /\ Fresh(c, m, t) /\ n + Overhead <= m
        /\ \/ m > RSOC_SIZE /\ ForLarge(t, n, w, c)
           \/ m = RSOC_SIZE /\ ForSmall(t, n, w, c)
  BY MallocFresh
<1>4. PICK m \in Nat :
        /\ Fresh(c, m, t) /\ n + Overhead <= m
        /\ \/ m > RSOC_SIZE /\ ForLarge(t, n, w, c)
           \/ m = RSOC_SIZE /\ ForSmall(t, n, w, c)
  BY <1>3
<1>5. n \in Nat /\ n > 1 /\ Overhead \in Nat /\ RSOC_SIZE \in Nat
  BY SizeFacts, RsoAssumption
<1>6. CASE m > RSOC_SIZE /\ ForLarge(t, n, w, c)
  <2>1. /\ rsoh' = Cleared(First(c), n) /\ heads' = heads \cup {First(c)} /\ nae' = nae
        /\ pc' = "run" /\ word' = [word EXCEPT ![w] = First(c)] /\ live' = [live EXCEPT ![w] = TRUE]
        /\ arrays' = arrays \cup {<<First(c), n>>} /\ attr' = attr /\ req' = <<>>
    BY <1>6 DEF ForLarge, Return
  <2>2. Good(InUse, chunk, rsoh, nae, heads, arrays) /\ Envs(nae)
    BY DEF HeapInv, HeapGood, Shapes
  <2>3. m <= RSOC_SIZE => m = n + Overhead
    BY <1>4, <1>5, <1>6
  <2>4. /\ Good(UsedIn(Mem(gcmt'), chunk'), chunk', rsoh', nae, heads', arrays')
        /\ rsoh'[First(c)].flag = UNMARKED /\ KeepsArrays(arrays, rsoh, rsoh') /\ Blocks(rsoh')
    BY <1>1, <1>4, <2>1, <2>2, <2>3, FreshArray
  <2>5. Made(First(c), n, w)
    BY <2>1, <2>2, <2>4 DEF Made
  <2> QED
    BY <1>2, <2>1, <2>4, <2>5, MadeInv
<1>7. CASE m = RSOC_SIZE /\ ForSmall(t, n, w, c)
  <2> DEFINE l == Cons(c, nae[t].chunk_list)
  <2>1. l \in Seq(Addr) /\ Mem(l) = {c} \cup Mem(nae[t].chunk_list)
    <3> DEFINE s == nae[t].chunk_list
    <3>1. s \in Seq(Addr)
      BY ChunkListSeq
    <3> HIDE DEF s
    <3>2. Cons(c, s) \in Seq(Addr) /\ Mem(Cons(c, s)) = {c} \cup Mem(s)
      BY <3>1, ConsFacts, ConsMem
    <3> QED
      BY <3>2 DEF s
  <2>2. m > Overhead + 1 /\ m <= RSOC_SIZE /\ n <= m - Overhead
    BY <1>4, <1>5, <1>7
  <2>3. FromStore(t, Env(m - Overhead, First(c), c, l), n, w)
    BY <1>7 DEF ForSmall
  <2>4. Mem(l) \subseteq Mem(nae[t].chunk_list) \cup {c}
    BY <2>1
  <2> HIDE DEF l
  <2> QED
    BY <1>1, <1>2, <1>4, <2>1, <2>2, <2>3, <2>4, FreshStoreInv
<1> QED
  BY <1>4, <1>6, <1>7
-----------------------------------------------------------------------------
(* The steps between collections that make no array.                       *)
LEMMA RestInv ==
  ASSUME HeapInv, HeapGood', Shapes', Headers', pc \notin Collecting, pc' \notin Collecting,
         arrays' = arrays, \A h \in StartsOf(arrays) : rsoh'[h] = rsoh[h],
         Roots' \subseteq StartsOf(arrays)
  PROVE  HeapInv'
<1>1. StartsOf(arrays)' = StartsOf(arrays)
  BY DEF StartsOf
<1>2. Marks'
  BY <1>1 DEF HeapInv, Marks, IsMarked, Collecting
<1>3. WalkAt' /\ SweepAt'
  BY DEF WalkAt, SweepAt, Collecting, Marking, Sweeping
<1> QED
  BY <1>2, <1>3 DEF HeapInv

LEMMA SameRoots ==
  ASSUME HeapInv, UNCHANGED <<word, live, attr>>
  PROVE  Roots' = Roots /\ Held' = Held /\ Roots \subseteq StartsOf(arrays)
BY DEF Roots, Held, HeapInv, Marks

LEMMA SameGood ==
  ASSUME HeapInv, UNCHANGED <<gcmt, chunk, rsoh, nae, heads, arrays>>
  PROVE  HeapGood'
BY DEF HeapInv, HeapGood, InUse, UsedIn, Mem, GoodNext

LEMMA SameShapes ==
  ASSUME HeapInv, Blocks(rsoh'), Envs(nae'), UNCHANGED <<word, live, attr>>
  PROVE  Shapes'
BY DEF HeapInv, Shapes, Blocks, Envs

LEMMA NewInStoreChunkInv ==
  ASSUME TableInv, HeapInv, NEW t \in Types, NEW n \in Sizes[t], NEW w \in Words, NewInStoreChunk(t, n, w)
  PROVE  HeapInv'
<1> DEFINE c == nae[t].store_chunk
<1>1. pc = "new" /\ req = <<t, n, w>> /\ c # 0 /\ Fits(c, n) # {} /\ GetStoreIn(c, t, n, w)
  BY DEF NewInStoreChunk, StoreChunkFits
<1>2. pc \notin Collecting /\ Valid(rsoh, nae, t)
  BY <1>1, AskedValid DEF Collecting, Marking, Sweeping
<1>3. c \in InUse /\ chunk[c].nae = t
  BY <1>1 DEF HeapInv, HeapGood, Good, Heap, Stores, ChunksOf
<1> QED
  BY <1>1, <1>2, <1>3, GetStoreInv

LEMMA NewInChunkListInv ==
  ASSUME TableInv, HeapInv, NEW t \in Types, NEW n \in Sizes[t], NEW w \in Words, NewInChunkList(t, n, w)
  PROVE  HeapInv'
<1> DEFINE L == nae[t].chunk_list
           i == Min(ListFits(t, n))
           c == L[i]
<1>1. pc \in {"new", "resume"} /\ req = <<t, n, w>> /\ ListFits(t, n) # {} /\ GetStoreIn(c, t, n, w)
  BY DEF NewInChunkList, Looking
<1>2. pc \notin Collecting /\ Valid(rsoh, nae, t)
  BY <1>1, AskedValid DEF Collecting, Marking, Sweeping
<1>3. L \in Seq(Addr)
  BY ChunkListSeq
<1>4. i \in ListFits(t, n)
  <2>1. ListFits(t, n) \in SUBSET Nat
    BY <1>3 DEF ListFits
  <2> QED
    BY <1>1, <2>1, MinFacts
<1>5. c \in Mem(L) /\ Fits(c, n) # {}
  <2>1. DOMAIN L = 1 .. Len(L)
    BY <1>3
  <2>2. i \in DOMAIN L /\ Fits(L[i], n) # {}
    BY <1>4 DEF ListFits
  <2> HIDE DEF i, L
  <2> QED
    BY <2>1, <2>2 DEF Mem
<1>6. c \in InUse /\ chunk[c].nae = t
  BY <1>5 DEF HeapInv, HeapGood, Good, Heap, Stores, ChunksOf
<1> HIDE DEF c
<1> QED
  BY <1>1, <1>2, <1>5, <1>6, GetStoreInv

(* new_na begins: the rest of the store becomes a free block, in a list if *)
(* it is not too small.                                                    *)
LEMMA NewNaInv ==
  ASSUME TableInv, HeapInv, NEW t \in Types, NEW n \in Sizes[t], NEW w \in Words, NewNa(t, n, w)
  PROVE  HeapInv'
<1>1. /\ pc = "run" /\ pc' = "new" /\ req' = <<t, n, w>> /\ gcmt' = gcmt
      /\ UNCHANGED <<word, live, attr, heads, arrays>>
  BY DEF NewNa, progVars, histVars
<1>2. Good(InUse, chunk, rsoh, nae, heads, arrays) /\ Envs(nae) /\ Blocks(rsoh)
  BY DEF HeapInv, HeapGood, Shapes
<1> DEFINE e == nae[t]
           h == nae[t].store
           c == nae[t].store_chunk
           m == nae[t].store_left
<1>3. m \in Nat
  BY <1>2 DEF Good, Heap, Stores
<1>4. pc \notin Collecting /\ pc' \notin Collecting
  BY <1>1 DEF Collecting, Marking, Sweeping
<1>5. CASE m > 0
  <2>1. /\ rsoh' = [rsoh EXCEPT ![h] = Block(m, FREE)]
        /\ nae' = [nae EXCEPT ![t].store_left = 0]
        /\ \/ chunk' = [chunk EXCEPT ![c].flol = Cons(h, chunk[c].flol)]
           \/ chunk' = chunk
    BY <1>5 DEF NewNa, Block
  <2>2. PICK sz : Heap(InUse, chunk, rsoh, nae, heads, arrays, sz)
    BY <1>2 DEF Good
  <2>3. /\ h \in heads /\ h \in Addr /\ h \notin StartsOf(arrays) /\ IsStore(nae, h)
        /\ c \in InUse /\ chunk[c].size <= RSOC_SIZE /\ InC(chunk, c, h)
    BY <1>5, <2>2, StoreAt
  <2>4. PutBlock(rsoh, rsoh', h, m, FREE)
    <3> HIDE DEF h, m
    <3> QED
      BY <1>2, <2>1, <2>3, BlockPut
  <2>5. Blocks(rsoh') /\ OnlyBlock(rsoh, rsoh', h) /\ rsoh'[h].size = m /\ rsoh'[h].flag = FREE
    BY <2>4, BlockFields DEF PutBlock
  <2>6. Good(InUse, chunk, rsoh', nae, heads, arrays) /\ Valid(rsoh', nae, t)
    BY <1>2, <1>5, <2>5, StoreHeaderWritten DEF Valid
  <2>7. nae' = [nae EXCEPT ![t] = Env(0, h, c, nae[t].chunk_list)]
    <3>1. IsEnv(nae[t])
      BY <1>2, EnvsAt
    <3>2. [nae[t] EXCEPT !.store_left = 0] = Env(0, h, c, nae[t].chunk_list)
      BY <3>1, EnvUpdates
    <3>3. nae' = [nae EXCEPT ![t] = [nae[t] EXCEPT !.store_left = 0]]
      BY <2>1
    <3> HIDE DEF h, c
    <3> QED
      BY <3>2, <3>3
  <2>8. /\ Good(InUse, chunk, rsoh', nae', heads, arrays) /\ OnlyEnv(nae, nae', t) /\ Envs(nae')
        /\ StoreOf(nae', t, 0, h, c, nae[t].chunk_list)
    BY <1>2, <2>6, <2>7, StoreLeft, Zenon
  <2>9. FreeBlock(nae', heads, arrays, h)
    <3>1. ASSUME IsStore(nae', h) PROVE FALSE
      <4>1. PICK u \in Types : nae'[u].store_left > 0 /\ nae'[u].store = h
        BY <3>1 DEF IsStore
      <4>2. u # t
        BY <2>8, <4>1 DEF StoreOf
      <4>3. nae[u].store_left > 0 /\ nae[u].store = h
        BY <2>8, <4>1, <4>2 DEF OnlyEnv
      <4> QED
        BY <1>5, <2>2, <4>2, <4>3, OneStore
    <3> QED
      BY <2>3, <3>1 DEF FreeBlock
  <2>10. h \notin Mem(chunk[c].flol)
    <3>1. Listed(chunk, nae, heads, arrays, c)
      BY <2>3, InUseFacts
    <3> QED
      BY <2>3, <3>1 DEF Listed, FreeBlock
  <2>11. UsedIn(Mem(gcmt'), chunk') = InUse
    <3>1. Shape(chunk) /\ c \in Addr
      BY <2>3, InUseFacts DEF TableInv
    <3>2. \A a \in Addr : chunk'[a].state = chunk[a].state
      <4>1. CASE chunk' = [chunk EXCEPT ![c].flol = Cons(h, chunk[c].flol)]
        <5> DEFINE l == Cons(h, chunk[c].flol)
        <5>1. FlolSet(chunk, chunk', c, l)
          BY <4>1 DEF FlolSet
        <5> HIDE DEF l, c
        <5>2. /\ chunk'[c] = Header(chunk[c].state, chunk[c].size, chunk[c].isize, chunk[c].nae, l)
              /\ \A a \in Addr : a # c => chunk'[a] = chunk[a]
          BY <3>1, <5>1, FlolAssign
        <5>3. chunk'[c].state = chunk[c].state
          BY <5>2 DEF Header
        <5> QED
          BY <5>2, <5>3
      <4> QED
        BY <2>1, <4>1
    <3> QED
      BY <1>1, <3>2, MemAddr DEF InUse, UsedIn
  <2>12. Good(InUse, chunk', rsoh', nae', heads, arrays)
    <3>1. CASE chunk' = chunk
      BY <2>8, <3>1
    <3>2. CASE chunk' = [chunk EXCEPT ![c].flol = Cons(h, chunk[c].flol)]
      <4>1. Shape(chunk) /\ c \in Addr
        BY <2>3, InUseFacts DEF TableInv
      <4> DEFINE l == Cons(h, chunk[c].flol)
      <4>2. /\ chunk'[c] = Header(chunk[c].state, chunk[c].size, chunk[c].isize, chunk[c].nae, l)
            /\ \A a \in Addr : a # c => chunk'[a] = chunk[a]
        <5>1. FlolSet(chunk, chunk', c, l)
          BY <3>2 DEF FlolSet
        <5> HIDE DEF l, c
        <5> QED
          BY <4>1, <5>1, FlolAssign
      <4>3. InUse \subseteq Addr
        BY MemAddr DEF InUse, UsedIn
      <4>4. OnlyFlol(InUse, chunk, chunk', c) /\ chunk'[c].flol = Cons(h, chunk[c].flol)
        BY <4>2, <4>3 DEF OnlyFlol, Header
      <4> HIDE DEF l, h, c
      <4> QED
        BY <2>3, <2>8, <2>9, <2>10, <4>4, Filed
    <3> QED
      BY <2>1, <3>1, <3>2
  <2>13. HeapGood'
    BY <1>1, <2>11, <2>12, GoodNext
  <2>14. \A x \in StartsOf(arrays) : rsoh'[x] = rsoh[x]
    <3>1. \A x \in StartsOf(arrays) : x \in Addr
      BY <2>2 DEF Heap, Contents, Tiles, StartsOf
    <3> QED
      BY <2>3, <2>5, <3>1 DEF OnlyBlock
  <2>15. Shapes'
    BY <1>1, <2>5, <2>8, SameShapes
  <2>16. Headers'
    <3>1. Asked(t)' /\ nae'[t].store_left = 0
      BY <1>1, <2>8 DEF Asked, StoreOf
    <3> QED
      BY <1>1, <1>4, <3>1 DEF Headers
  <2> QED
    BY <1>1, <1>4, <2>13, <2>14, <2>15, <2>16, SameRoots, RestInv
<1>6. CASE ~(m > 0)
  <2>1. UNCHANGED <<rsoh, chunk, nae>>
    BY <1>6 DEF NewNa
  <2>2. nae[t].store_left = 0
    BY <1>3, <1>6
  <2>3. HeapGood' /\ Shapes'
    BY <1>1, <1>2, <2>1, SameGood, SameShapes
  <2>4. Headers'
    <3>1. Asked(t)' /\ nae'[t].store_left = 0
      BY <1>1, <2>1, <2>2 DEF Asked
    <3> QED
      BY <1>1, <1>4, <3>1 DEF Headers
  <2> QED
    BY <1>1, <1>4, <2>1, <2>3, <2>4, SameRoots, RestInv
<1> QED
  BY <1>5, <1>6
-----------------------------------------------------------------------------
(* The program, and the end of memory.                                     *)
LEMMA StillHeaders ==
  ASSUME HeapInv, pc' \in {"run", "halt"}, req' = req \/ req' = <<>> PROVE Headers'
<1>1. pc' \notin Collecting /\ pc' # "resume" /\ pc' # "new"
  BY DEF Collecting, Marking, Sweeping
<1>2. req' = <<>> \/ \E t \in Types : Asked(t)'
  BY DEF HeapInv, Headers, Asked
<1> QED
  BY <1>1, <1>2 DEF Headers

LEMMA OutOfMemoryInv ==
  ASSUME TableInv, HeapInv, NEW t, NEW n, NEW w, OutOfMemory(t, n, w) PROVE HeapInv'
<1>1. /\ pc \in {"new", "resume"} /\ pc' = "halt" /\ req' = <<>>
      /\ UNCHANGED <<gcmt, chunk, rsoh, nae, heads, arrays, word, live, attr>>
  BY DEF OutOfMemory, Nothing, Looking, memVars, progVars, histVars
<1>2. pc \notin Collecting /\ pc' \notin Collecting
  BY <1>1 DEF Collecting, Marking, Sweeping
<1>3. HeapGood' /\ Shapes' /\ Headers'
  <2>1. Blocks(rsoh) /\ Envs(nae)
    BY DEF HeapInv, Shapes
  <2> QED
    BY <1>1, <2>1, SameGood, SameShapes, StillHeaders
<1> QED
  BY <1>1, <1>2, <1>3, SameRoots, RestInv

LEMMA ProgramInv ==
  ASSUME HeapInv, Program PROVE HeapInv'
<1>1. /\ pc = "run" /\ pc' \in {"run", "halt"} /\ req' = req
      /\ UNCHANGED <<gcmt, chunk, rsoh, nae, heads, arrays>>
  BY DEF Program, LeaveScope, Assign, Switch, Exit, progRest, memVars, histVars
<1>2. pc \notin Collecting /\ pc' \notin Collecting
  BY <1>1 DEF Collecting, Marking, Sweeping
<1>3. Blocks(rsoh) /\ Envs(nae) /\ word = [v \in Words |-> word[v]] /\ live = [v \in Words |-> live[v]]
      /\ attr = [f \in Fields |-> attr[f]] /\ Roots \subseteq StartsOf(arrays)
  BY DEF HeapInv, Shapes, Marks
<1>4. /\ word' = [v \in Words |-> word'[v]] /\ live' = [v \in Words |-> live'[v]]
      /\ attr' = [f \in Fields |-> attr'[f]] /\ Roots' \subseteq Roots
      /\ \A v \in Words : word'[v] \in Addr \cup {0}
  <2>0. \A v \in Words : word[v] \in Addr \cup {0}
    BY DEF HeapInv, Shapes
  <2>1. CASE \E w \in Words : LeaveScope(w)
    <3>1. PICK w \in Words : LeaveScope(w)
      BY <2>1
    <3>2. PICK x \in Addr \cup {0} : word' = [word EXCEPT ![w] = x]
      <4>1. PICK x \in {word[w], 0} \cup Ints : word' = [word EXCEPT ![w] = x]
        BY <3>1 DEF LeaveScope
      <4>2. x \in Addr \cup {0}
        BY <2>0, RsoAssumption DEF Addr
      <4> QED
        BY <4>1, <4>2
    <3>3. live' = [live EXCEPT ![w] = FALSE] /\ attr' = attr
      BY <3>1 DEF LeaveScope
    <3>4. /\ word' = [v \in Words |-> word'[v]] /\ live' = [v \in Words |-> live'[v]]
          /\ \A v \in Words : live'[v] => live[v] /\ word'[v] = word[v]
          /\ \A v \in Words : word'[v] \in Addr \cup {0}
      BY <1>3, <2>0, <3>2, <3>3
    <3> QED
      BY <1>3, <3>3, <3>4 DEF Roots
  <2>2. CASE \E f \in Fields, h \in Addr \cup {0} : Assign(f, h)
    <3>1. PICK f \in Fields, h \in Addr \cup {0} : Assign(f, h)
      BY <2>2
    <3>2. attr' = [attr EXCEPT ![f] = h] /\ word' = word /\ live' = live
          /\ (h = 0 \/ \E w \in Words : live[w] /\ word[w] = h)
      BY <3>1 DEF Assign
    <3>3. attr' = [g \in Fields |-> attr'[g]] /\ \A g \in Fields : attr'[g] = attr[g] \/ attr'[g] = h
      BY <1>3, <3>2
    <3> QED
      BY <1>3, <2>0, <3>2, <3>3 DEF Roots
  <2>3. CASE Switch \/ Exit
    BY <1>3, <2>0, <2>3 DEF Switch, Exit, Roots
  <2> QED
    BY <2>1, <2>2, <2>3 DEF Program
<1>5. HeapGood' /\ Headers'
  BY <1>1, SameGood, StillHeaders
<1>6. Shapes'
  BY <1>1, <1>3, <1>4 DEF Shapes, Blocks, Envs
<1> QED
  BY <1>1, <1>2, <1>3, <1>4, <1>5, <1>6, RestInv
-----------------------------------------------------------------------------
(* gc_start: the stores become free blocks, the arrays in attributes are   *)
(* marked.                                                                 *)
LEMMA EnvForgotten ==
  ASSUME NEW e, IsEnv(e)
  PROVE  [e EXCEPT !.store_left = 0, !.chunk_list = <<>>, !.store_chunk = 0] = Env(0, e.store, 0, <<>>)
<1>1. PICK x, y, z, l : e = Env(x, y, z, l)
  BY DEF IsEnv
<1>2. e.store = y
  BY <1>1, EnvFields
<1> DEFINE e1 == [e EXCEPT !.store_left = 0]
           e2 == [e1 EXCEPT !.chunk_list = <<>>]
           e3 == [e2 EXCEPT !.store_chunk = 0]
<1>3. e1 = Env(0, y, z, l)
  BY <1>1 DEF Env
<1>4. e2 = Env(0, y, z, <<>>)
  <2> HIDE DEF e1
  <2> QED
    BY <1>3 DEF Env
<1>5. e3 = Env(0, y, 0, <<>>)
  <2> HIDE DEF e2
  <2> QED
    BY <1>4 DEF Env
<1>6. [e EXCEPT !.store_left = 0, !.chunk_list = <<>>, !.store_chunk = 0] = e3
  OBVIOUS
<1> HIDE DEF e3
<1> QED
  BY <1>2, <1>5, <1>6

LEMMA ForgottenFacts ==
  ASSUME Envs(nae), NEW nv, nv = StoresForgotten PROVE Envs(nv) /\ NoStores(nv)
<1>1. \A t \in Types : nv[t] = Env(0, nae[t].store, 0, <<>>)
  BY EnvsAt, EnvForgotten, Zenon DEF StoresForgotten
<1>2. nv = [t \in Types |-> nv[t]]
  BY Zenon DEF StoresForgotten
<1> HIDE DEF StoresForgotten
<1>3. \A t \in Types : IsEnv(nv[t]) /\ nv[t].store_left = 0 /\ nv[t].store_chunk = 0 /\ nv[t].chunk_list = <<>>
  BY <1>1, EnvFields
<1>4. Envs(nv)
  BY <1>2, <1>3, EnvsFrom
<1> QED
  BY <1>3, <1>4 DEF NoStores

LEMMA FreedFacts ==
  ASSUME HeapInv
  PROVE  /\ Blocks(StoresFreed) /\ StoresWritten(rsoh, StoresFreed, nae)
         /\ \A h \in StartsOf(arrays) : h \in Addr /\ StoresFreed[h] = rsoh[h]
<1> DEFINE rs == StoresFreed
           Of(a) == {t \in Types : nae[t].store_left > 0 /\ nae[t].store = a}
<1>1. PICK sz : Heap(InUse, chunk, rsoh, nae, heads, arrays, sz)
  BY DEF HeapInv, HeapGood, Good
<1>2. /\ rs = [a \in Addr |-> rs[a]]
      /\ \A a \in Addr : Of(a) = {} => rs[a] = rsoh[a]
      /\ \A a \in Addr : Of(a) # {} => rs[a] = Block(nae[CHOOSE t \in Of(a) : TRUE].store_left, FREE)
  BY DEF StoresFreed, Block
<1> HIDE DEF rs
<1>3. \A a \in Addr : IsBlock(rs[a])
  <2>1. \A a \in Addr : IsBlock(rsoh[a])
    BY BlocksAt DEF HeapInv, Shapes
  <2> QED
    BY <1>2, <2>1, BlockFields
<1>4. Blocks(rs)
  BY <1>2, <1>3, BlocksFrom
<1>5. ASSUME NEW t \in Types, nae[t].store_left > 0
      PROVE  rs[nae[t].store].size = nae[t].store_left /\ rs[nae[t].store].flag = FREE
  <2> DEFINE a == nae[t].store
             u == CHOOSE v \in Of(a) : TRUE
  <2>1. a \in Addr /\ t \in Of(a)
    BY <1>1, <1>5, StoreAt
  <2>2. u \in Of(a)
    BY <2>1
  <2>3. u = t
    <3>1. u \in Types /\ nae[u].store_left > 0 /\ nae[u].store = nae[t].store
      BY <2>2
    <3> HIDE DEF u
    <3> QED
      BY <1>1, <1>5, <3>1, OneStore
  <2>4. rs[a] = Block(nae[t].store_left, FREE)
    <3>1. Of(a) # {}
      BY <2>1
    <3>2. rs[a] = Block(nae[u].store_left, FREE)
      BY <1>2, <2>1, <3>1
    <3> QED
      BY <2>3, <3>2
  <2> HIDE DEF a
  <2>5. rs[a].size = nae[t].store_left /\ rs[a].flag = FREE
    BY <2>4, BlockFields
  <2> QED
    BY <2>5 DEF a
<1>6. \A a \in Addr : ~IsStore(nae, a) => rs[a] = rsoh[a]
  BY <1>2 DEF IsStore
<1>7. StoresWritten(rsoh, rs, nae)
  BY <1>5, <1>6 DEF StoresWritten, Valid
<1>8. \A h \in StartsOf(arrays) : h \in Addr /\ rs[h] = rsoh[h]
  <2>1. \A h \in StartsOf(arrays) : h \in Addr /\ ~IsStore(nae, h)
    BY <1>1 DEF Heap, Contents, Tiles, StartsOf
  <2> QED
    BY <1>6, <2>1
<1> QED
  BY <1>4, <1>7, <1>8 DEF rs

LEMMA MarkedFacts ==
  ASSUME NEW rs, Blocks(rs), NEW rs2, rs2 = MarkedExactly(rs)
  PROVE  /\ Blocks(rs2)
         /\ \A a \in Addr : rs2[a].size = rs[a].size /\ rs2[a].flag = IF a \in {attr[f] : f \in Fields} THEN MARKED ELSE rs[a].flag
         /\ \A a \in Addr : a \notin {attr[f] : f \in Fields} => rs2[a] = rs[a]
<1>1. \A a \in Addr : rs2[a] = IF a \in {attr[f] : f \in Fields} THEN [rs[a] EXCEPT !.flag = MARKED] ELSE rs[a]
  BY DEF MarkedExactly
<1>2. rs2 = [a \in Addr |-> rs2[a]]
  BY DEF MarkedExactly
<1>3. \A a \in Addr : IsBlock(rs[a])
  BY BlocksAt
<1>4. \A a \in Addr : IsBlock(rs[a]) => [rs[a] EXCEPT !.flag = MARKED] = Block(rs[a].size, MARKED)
  BY BlockUpdates
<1>5. \A a \in Addr : a \in {attr[f] : f \in Fields} => rs2[a] = Block(rs[a].size, MARKED)
  BY <1>1, <1>3, <1>4
<1>6. \A a \in Addr : a \notin {attr[f] : f \in Fields} => rs2[a] = rs[a]
  BY <1>1
<1>7. \A a \in Addr : a \in {attr[f] : f \in Fields} => IsBlock(rs2[a]) /\ rs2[a].size = rs[a].size /\ rs2[a].flag = MARKED
  BY <1>5, BlockFields
<1>8. Blocks(rs2)
  BY <1>2, <1>3, <1>6, <1>7, BlocksFrom
<1> QED
  BY <1>6, <1>7, <1>8
AskedBy(r) ==
  \/ r = <<>>
  \/ \E t \in Types : (\E n \in Sizes[t], w \in Words : r = <<t, n, w>>) /\ Valid(rsoh, nae, t)

(* A collection begins.                                                    *)
LEMMA CollectionBegins ==
  ASSUME TableInv, HeapInv, pc \notin Collecting, NEW r, AskedBy(r), req' = r,
         rsoh' = MarkedExactly(StoresFreed), nae' = StoresForgotten, pc' = "mark", wi' = 1,
         UNCHANGED <<gcmt, chunk, word, live, attr, heads, arrays>>
  PROVE  HeapInv'
<1> DEFINE rs == StoresFreed
           A == {attr[f] : f \in Fields}
<1>1. /\ Blocks(rs) /\ StoresWritten(rsoh, rs, nae)
      /\ \A h \in StartsOf(arrays) : h \in Addr /\ rs[h] = rsoh[h]
  BY FreedFacts
<1>2. Envs(nae') /\ NoStores(nae')
  BY ForgottenFacts DEF HeapInv, Shapes
<1>3. rsoh' = MarkedExactly(rs)
  OBVIOUS
<1> HIDE DEF rs
<1>4. /\ Blocks(rsoh')
      /\ \A a \in Addr : rsoh'[a].size = rs[a].size /\ rsoh'[a].flag = IF a \in A THEN MARKED ELSE rs[a].flag
      /\ \A a \in Addr : a \notin A => rsoh'[a] = rs[a]
  BY <1>1, <1>3, MarkedFacts
<1>5. Roots' = Roots /\ Held' = Held /\ Roots \subseteq StartsOf(arrays) /\ StartsOf(arrays)' = StartsOf(arrays)
  BY SameRoots DEF StartsOf
<1>6. \A a \in A : a # 0 => a \in StartsOf(arrays)
  BY <1>5 DEF Roots
<1>7. Good(InUse, chunk, rs, nae', heads, arrays)
  <2>1. Good(InUse, chunk, rsoh, nae, heads, arrays)
    BY DEF HeapInv, HeapGood
  <2> QED
    BY <1>1, <1>2, <2>1, StoresDropped
<1>8. MarksOnly(rs, rsoh', heads, arrays)
  <2>1. PICK sz : Heap(InUse, chunk, rs, nae', heads, arrays, sz)
    BY <1>7 DEF Good
  <2>2. ASSUME NEW h \in heads
        PROVE  /\ h \in Addr /\ h # 0
               /\ h \in StartsOf(arrays) => rs[h].flag \in {UNMARKED, MARKED}
    <3>1. h \in Addr /\ h # 0
      BY <2>1, AddrNat DEF Heap, Tiles
    <3>2. ~IsStore(nae', h)
      BY <1>2 DEF NoStores, IsStore
    <3> QED
      BY <2>1, <3>1, <3>2 DEF Heap, Contents
  <2>3. ASSUME NEW h \in heads
        PROVE  /\ rsoh'[h].size = rs[h].size
               /\ h \notin StartsOf(arrays) => rsoh'[h] = rs[h]
               /\ h \in StartsOf(arrays) => rsoh'[h].flag \in {UNMARKED, MARKED}
    <3> HIDE DEF A
    <3> QED
      BY <1>4, <1>6, <2>2
  <2> QED
    BY <2>3 DEF MarksOnly
<1>9. HeapGood'
  <2>1. Good(InUse, chunk, rsoh', nae', heads, arrays)
    BY <1>7, <1>8, HeapMarks
  <2>2. UsedIn(Mem(gcmt'), chunk') = InUse
    BY DEF InUse
  <2> QED
    BY <2>1, <2>2, GoodNext
<1>10. Shapes'
  BY <1>2, <1>4, SameShapes
<1>11. Headers'
  <2>1. \A t \in Types : Valid(rsoh', nae', t)
    BY <1>2 DEF NoStores, Valid
  <2>2. r = <<>> \/ \E t \in Types : Asked(t)'
    BY DEF AskedBy, Asked
  <2>3. (\A t \in Types : Valid(rsoh, nae, t))'
    BY <2>1 DEF Valid
  <2> QED
    BY <2>2, <2>3 DEF Headers
<1>12. Marks'
  <2>1. \A h \in StartsOf(arrays) : rsoh'[h].flag = MARKED => h \in Held
    <3>1. \A h \in StartsOf(arrays) : rsoh[h].flag # MARKED
      BY DEF HeapInv, Marks, IsMarked
    <3>2. A \subseteq Held
      BY DEF Held
    <3> HIDE DEF A
    <3> QED
      BY <1>1, <1>4, <3>1, <3>2
  <2>2. \A a \in A : a # 0 => rsoh'[a].flag = MARKED
    <3> HIDE DEF A
    <3> QED
      BY <1>1, <1>4, <1>6
  <2>3. MarkedSoFar'
    <3>1. 1 \in 1 .. NWords + 1 /\ \A w \in Words : ~(w < 1)
      BY RsoAssumption DEF Words
    <3>2. NoStores(nae)'
      BY <1>2 DEF NoStores
    <3>3. \A f \in Fields : attr[f] # 0 => rsoh'[attr[f]].flag = MARKED
      BY <2>2
    <3> QED
      BY <3>1, <3>2, <3>3 DEF MarkedSoFar, IsMarked
  <2>4. pc' \in Collecting /\ pc' \notin Sweeping
    BY DEF Collecting, Marking, Sweeping
  <2> QED
    BY <1>5, <2>1, <2>3, <2>4 DEF Marks, IsMarked
<1>13. WalkAt' /\ SweepAt'
  BY DEF WalkAt, SweepAt
<1> QED
  BY <1>9, <1>10, <1>11, <1>12, <1>13 DEF HeapInv

LEMMA GcStartInv ==
  ASSUME TableInv, HeapInv, pc \notin Collecting, NEW r, AskedBy(r), GcStart(r)
  PROVE  HeapInv'
<1>1. req' = r /\ UNCHANGED <<gcmt, chunk, word, live, attr, heads, arrays>>
  BY DEF GcStart, progVars, histVars
<1>2. \/ pc' = (IF r = <<>> THEN "run" ELSE "resume") /\ UNCHANGED <<rsoh, nae>>
      \/ rsoh' = MarkedExactly(StoresFreed) /\ nae' = StoresForgotten /\ pc' = "mark" /\ wi' = 1
  BY DEF GcStart
<1>3. CASE pc' = (IF r = <<>> THEN "run" ELSE "resume") /\ UNCHANGED <<rsoh, nae>>
  <2>1. pc' \notin Collecting /\ pc' # "new"
    BY <1>3 DEF Collecting, Marking, Sweeping
  <2>2. HeapGood' /\ Shapes'
    <3>1. Blocks(rsoh) /\ Envs(nae)
      BY DEF HeapInv, Shapes
    <3> QED
      BY <1>1, <1>3, <3>1, SameGood, SameShapes
  <2>3. Headers'
    <3>1. r = <<>> \/ \E t \in Types : Asked(t)' /\ Valid(rsoh, nae, t)'
      BY <1>1, <1>3 DEF AskedBy, Asked, Valid
    <3> QED
      BY <1>1, <2>1, <3>1 DEF Headers
  <2> QED
    BY <1>1, <1>3, <2>1, <2>2, <2>3, SameRoots, RestInv
<1>4. CASE rsoh' = MarkedExactly(StoresFreed) /\ nae' = StoresForgotten /\ pc' = "mark" /\ wi' = 1
  BY <1>1, <1>4, CollectionBegins
<1> QED
  BY <1>2, <1>3, <1>4

LEMMA NewCollectsInv ==
  ASSUME TableInv, HeapInv, NEW t \in Types, NEW n \in Sizes[t], NEW w \in Words, NewCollects(t, n, w)
  PROVE  HeapInv'
<1>1. pc = "new" /\ req = <<t, n, w>> /\ GcStart(<<t, n, w>>)
  BY DEF NewCollects, Nothing, Looking
<1>2. pc \notin Collecting /\ Valid(rsoh, nae, t)
  BY <1>1, AskedValid DEF Collecting, Marking, Sweeping
<1>3. AskedBy(<<t, n, w>>)
  BY <1>2 DEF AskedBy
<1> QED
  BY <1>1, <1>2, <1>3, GcStartInv

LEMMA FullCollectInv == ASSUME TableInv, HeapInv, FullCollect PROVE HeapInv'
<1>1. pc = "run" /\ GcStart(<<>>)
  BY DEF FullCollect
<1>2. pc \notin Collecting /\ AskedBy(<<>>)
  BY <1>1 DEF Collecting, Marking, Sweeping, AskedBy
<1> QED
  BY <1>1, <1>2, GcStartInv

LEMMA NewInv == ASSUME TableInv, HeapInv, New PROVE HeapInv'
<1> PICK t \in Types : \E n \in Sizes[t], w \in Words : NewFromStore(t, n, w) \/ NewNa(t, n, w)
  BY DEF New
<1> PICK n \in Sizes[t], w \in Words : NewFromStore(t, n, w) \/ NewNa(t, n, w)
  OBVIOUS
<1>1. CASE NewFromStore(t, n, w)
  <2>1. pc = "run" /\ n <= nae[t].store_left /\ FromStore(t, nae[t], n, w) /\ UNCHANGED <<gcmt, chunk>>
    BY <1>1 DEF NewFromStore
  <2>2. pc \notin Collecting
    BY <2>1 DEF Collecting, Marking, Sweeping
  <2> QED
    BY <2>1, <2>2, DirectInv
<1>2. CASE NewNa(t, n, w)
  BY <1>2, NewNaInv
<1> QED
  BY <1>1, <1>2

LEMMA NewGoesOnInv == ASSUME TableInv, HeapInv, NewGoesOn PROVE HeapInv'
<1> PICK t \in Types : \E n \in Sizes[t], w \in Words : GoesOn(t, n, w)
  BY DEF NewGoesOn, GoesOn
<1> PICK n \in Sizes[t], w \in Words : GoesOn(t, n, w)
  OBVIOUS
<1>1. CASE NewInStoreChunk(t, n, w) \/ NewInChunkList(t, n, w) \/ NewInFreeChunk(t, n, w)
  BY <1>1, NewInStoreChunkInv, NewInChunkListInv, NewInFreeChunkInv
<1>2. CASE NewMalloc(t, n, w) \/ ResumeMalloc(t, n, w)
  <2>1. pc \in {"new", "resume"} /\ req = <<t, n, w>> /\ Malloc(t, n, w)
    BY <1>2 DEF NewMalloc, ResumeMalloc, Nothing, Looking
  <2> QED
    BY <2>1, MallocInv
<1>3. CASE NewCollects(t, n, w)
  BY <1>3, NewCollectsInv
<1>4. CASE ResumeFromStore(t, n, w)
  <2>1. pc = "resume" /\ n <= nae[t].store_left /\ FromStore(t, nae[t], n, w) /\ UNCHANGED <<gcmt, chunk>>
    BY <1>4 DEF ResumeFromStore
  <2>2. pc \notin Collecting
    BY <2>1 DEF Collecting, Marking, Sweeping
  <2> QED
    BY <2>1, <2>2, DirectInv
<1>5. CASE OutOfMemory(t, n, w)
  BY <1>5, OutOfMemoryInv
<1> QED
  BY <1>1, <1>2, <1>3, <1>4, <1>5 DEF GoesOn
-----------------------------------------------------------------------------
(* Marking: what the headers say of a word that may be an array.           *)
Quiet == UNCHANGED <<gcmt, chunk, nae, req, word, live, attr, heads, arrays>>

LEMMA MarkStep ==
  ASSUME HeapInv, pc \in Marking, pc' \in Marking, Quiet, Blocks(rsoh'), HeapGood',
         \A h \in StartsOf(arrays) : rsoh'[h].flag = MARKED => h \in Held,
         MarkedSoFar', WalkAt'
  PROVE  HeapInv'
<1>1. NoStores(nae)
  BY DEF HeapInv, Marks, MarkedSoFar
<1>2. Shapes'
  BY SameShapes DEF Quiet, HeapInv, Shapes
<1>3. pc \in Collecting /\ pc' \in Collecting /\ pc' \notin Sweeping /\ pc' # "resume" /\ pc' # "new"
  BY DEF Collecting, Marking, Sweeping
<1>4. Headers'
  <2>1. (\A t \in Types : Valid(rsoh, nae, t))'
    BY <1>1 DEF Valid, NoStores, Quiet
  <2>2. req = <<>> \/ \E t \in Types : Asked(t)
    BY DEF HeapInv, Headers
  <2>3. req' = <<>> \/ \E t \in Types : Asked(t)'
    BY <2>2 DEF Asked, Quiet
  <2> QED
    BY <1>3, <2>1, <2>3 DEF Headers
<1>5. Marks'
  <2>1. Roots' = Roots /\ Held' = Held /\ Roots \subseteq StartsOf(arrays) /\ StartsOf(arrays)' = StartsOf(arrays)
    BY SameRoots DEF StartsOf, Quiet
  <2> QED
    BY <1>3, <2>1 DEF Marks, IsMarked
<1>6. SweepAt'
  BY <1>3 DEF SweepAt, Sweeping
<1> QED
  BY <1>2, <1>4, <1>5, <1>6 DEF HeapInv

LEMMA MarkingHeap ==
  ASSUME HeapInv, pc \in Marking
  PROVE  \E sz : /\ Heap(InUse, chunk, rsoh, nae, heads, arrays, sz)
                 /\ \A h \in heads : /\ h \in Addr /\ h # 0 /\ sz[h] = rsoh[h].size /\ ~IsStore(nae, h)
                                     /\ rsoh[h].flag # FREE => h \in StartsOf(arrays)
                                     /\ h \in StartsOf(arrays) => rsoh[h].flag \in {UNMARKED, MARKED}
                 /\ StartsOf(arrays) \subseteq heads
<1>1. PICK sz : Heap(InUse, chunk, rsoh, nae, heads, arrays, sz)
  BY DEF HeapInv, HeapGood, Good
<1>2. \A h : ~IsStore(nae, h)
  BY DEF HeapInv, Marks, MarkedSoFar, NoStores, IsStore
<1>3. \A h \in heads : h \in Addr /\ h # 0
  BY <1>1, AddrNat DEF Heap, Tiles
<1>4. StartsOf(arrays) \subseteq heads
  BY <1>1 DEF Heap, Contents, StartsOf
<1>5. \A h \in heads : /\ sz[h] = rsoh[h].size /\ (rsoh[h].flag # FREE => h \in StartsOf(arrays))
                       /\ h \in StartsOf(arrays) => rsoh[h].flag \in {UNMARKED, MARKED}
  BY <1>1, <1>2 DEF Heap, Contents
<1> QED
  BY <1>1, <1>2, <1>3, <1>4, <1>5

(* The word examined is marked, and then only if it is an array.           *)
LEMMA NextWordInv ==
  ASSUME HeapInv, pc \in Marking, wi \in Words, NEW mark \in BOOLEAN, NextWord(mark),
         mark => word[wi] \in StartsOf(arrays), ~mark /\ live[wi] => IsMarked(word[wi])
  PROVE  HeapInv'
<1> DEFINE h == word[wi]
<1>1. wi' = wi + 1 /\ pc' = "mark" /\ Quiet /\ rsoh' = (IF mark THEN [rsoh EXCEPT ![h].flag = MARKED] ELSE rsoh)
  BY DEF NextWord, MarkVarsRest, Quiet, progVars, histVars
<1>2. Good(InUse, chunk, rsoh, nae, heads, arrays) /\ Blocks(rsoh)
  BY DEF HeapInv, HeapGood, Shapes
<1>3. PICK sz : /\ Heap(InUse, chunk, rsoh, nae, heads, arrays, sz)
                /\ \A k \in heads : /\ k \in Addr /\ k # 0 /\ sz[k] = rsoh[k].size /\ ~IsStore(nae, k)
                                    /\ rsoh[k].flag # FREE => k \in StartsOf(arrays)
                                    /\ k \in StartsOf(arrays) => rsoh[k].flag \in {UNMARKED, MARKED}
                /\ StartsOf(arrays) \subseteq heads
  BY MarkingHeap
<1>4. /\ Blocks(rsoh')
      /\ \A a \in Addr : rsoh'[a].size = rsoh[a].size /\ (rsoh'[a].flag = MARKED <=> IsMarked(a) \/ (mark /\ a = h))
      /\ \A a \in Addr : ~(mark /\ a = h) => rsoh'[a] = rsoh[a]
  <2>1. CASE mark
    <3>1. h \in Addr
      BY <1>3, <2>1
    <3>2. rsoh' = [rsoh EXCEPT ![h] = Block(rsoh[h].size, MARKED)]
      <4>1. [rsoh[h] EXCEPT !.flag = MARKED] = Block(rsoh[h].size, MARKED)
        BY <1>2, <3>1, BlocksAt, BlockUpdates
      <4>2. rsoh' = [rsoh EXCEPT ![h] = [rsoh[h] EXCEPT !.flag = MARKED]]
        BY <1>1, <2>1
      <4> HIDE DEF h
      <4> QED
        BY <4>1, <4>2
    <3> HIDE DEF h
    <3>3. PutBlock(rsoh, rsoh', h, rsoh[h].size, MARKED)
      BY <1>2, <3>1, <3>2, BlockPut
    <3>4. rsoh'[h].size = rsoh[h].size /\ rsoh'[h].flag = MARKED
      BY <3>3, BlockFields DEF PutBlock
    <3> QED
      BY <2>1, <3>3, <3>4 DEF PutBlock, OnlyBlock, IsMarked
  <2>2. CASE ~mark
    BY <1>1, <1>2, <2>2 DEF IsMarked
  <2> QED
    BY <2>1, <2>2
<1>5. MarksOnly(rsoh, rsoh', heads, arrays)
  <2>1. ASSUME NEW k \in heads
        PROVE  /\ rsoh'[k].size = rsoh[k].size
               /\ k \notin StartsOf(arrays) => rsoh'[k] = rsoh[k]
               /\ k \in StartsOf(arrays) => rsoh'[k].flag \in {UNMARKED, MARKED}
    <3>1. k \in Addr
      BY <1>3
    <3>2. CASE mark /\ k = h
      <4>1. rsoh'[k].size = rsoh[k].size /\ rsoh'[k].flag = MARKED
        BY <1>4, <3>1, <3>2
      <4> QED
        BY <3>2, <4>1
    <3>3. CASE ~(mark /\ k = h)
      <4>1. rsoh'[k] = rsoh[k]
        BY <1>4, <3>1, <3>3
      <4> QED
        BY <1>3, <4>1
    <3> QED
      BY <3>2, <3>3
  <2> QED
    BY <2>1 DEF MarksOnly
<1>6. HeapGood'
  <2>1. Good(InUse, chunk, rsoh', nae, heads, arrays)
    BY <1>2, <1>5, HeapMarks
  <2>2. UsedIn(Mem(gcmt'), chunk') = InUse /\ chunk' = chunk /\ nae' = nae /\ heads' = heads /\ arrays' = arrays
    BY <1>1 DEF Quiet, InUse
  <2> QED
    BY <2>1, <2>2, GoodNext
<1>7. \A k \in StartsOf(arrays) : rsoh'[k].flag = MARKED => k \in Held
  <2>1. h \in Held
    BY DEF Held
  <2>2. \A k \in StartsOf(arrays) : k \in Addr /\ (IsMarked(k) => k \in Held)
    <3>1. pc \in Collecting
      BY DEF Collecting
    <3> QED
      BY <1>3, <3>1 DEF HeapInv, Marks
  <2> HIDE DEF h
  <2> QED
    BY <1>4, <2>1, <2>2
<1>8. MarkedSoFar'
  <2>1. /\ NoStores(nae) /\ \A f \in Fields : attr[f] # 0 => IsMarked(attr[f])
        /\ \A w \in Words : live[w] /\ w < wi => IsMarked(word[w])
    BY DEF HeapInv, Marks, MarkedSoFar
  <2>2. \A k \in Roots : k \in Addr
    BY <1>3 DEF HeapInv, Marks
  <2>3. (\A f \in Fields : attr[f] # 0 => attr[f] \in Addr) /\ \A w \in Words : live[w] => word[w] \in Addr
    BY <2>2 DEF Roots
  <2>4. \A f \in Fields : attr'[f] # 0 => rsoh'[attr'[f]].flag = MARKED
    BY <1>1, <1>4, <2>1, <2>3 DEF Quiet
  <2>5. wi \in Nat /\ wi + 1 \in 1 .. NWords + 1 /\ \A w \in Words : w \in Nat /\ (w < wi + 1 => w < wi \/ w = wi)
    BY RsoAssumption DEF Words
  <2>6. ASSUME NEW w \in Words, live[w], w < wi + 1 PROVE rsoh'[word[w]].flag = MARKED
    <3>1. CASE w < wi
      BY <1>4, <2>1, <2>3, <2>6, <3>1
    <3>2. CASE w = wi
      BY <1>4, <2>3, <2>6, <3>2
    <3> QED
      BY <2>5, <2>6, <3>1, <3>2
  <2>7. \A w \in Words : live'[w] /\ w < wi' => rsoh'[word'[w]].flag = MARKED
    BY <1>1, <2>6 DEF Quiet
  <2>8. NoStores(nae)' /\ wi' \in 1 .. NWords + 1
    BY <1>1, <2>1, <2>5 DEF NoStores, Quiet
  <2> QED
    BY <2>4, <2>7, <2>8 DEF MarkedSoFar, IsMarked
<1>9. WalkAt'
  BY <1>1 DEF WalkAt
<1> QED
  BY <1>1, <1>4, <1>6, <1>7, <1>8, <1>9, MarkStep DEF Marking
-----------------------------------------------------------------------------
(* gc_find_chunk and the tests of gcna_align_mark, for an array.           *)
LEMMA ChunkOfFacts ==
  ASSUME TableInv, NEW h PROVE ChunkOf(h) = {c \in InUse : c <= h /\ h + 1 < ChunkEnd(chunk, c)}
<1>1. ToSet(gcmt) = Mem(gcmt)
  BY DEF TableInv, ToSet, Mem
<1> QED
  BY <1>1 DEF ChunkOf, InUse, UsedIn, End, ChunkEnd

LEMMA ArrayFound ==
  ASSUME TableInv, HeapInv, pc \in Marking, NEW h \in StartsOf(arrays), ~IsMarked(h)
  PROVE  MayBeArray(h)
<1>1. PICK sz : /\ Heap(InUse, chunk, rsoh, nae, heads, arrays, sz)
                /\ \A k \in heads : /\ k \in Addr /\ k # 0 /\ sz[k] = rsoh[k].size /\ ~IsStore(nae, k)
                                    /\ rsoh[k].flag # FREE => k \in StartsOf(arrays)
                                    /\ k \in StartsOf(arrays) => rsoh[k].flag \in {UNMARKED, MARKED}
                /\ StartsOf(arrays) \subseteq heads
  BY MarkingHeap
<1>2. h \in heads /\ h \in Addr /\ h # 0 /\ rsoh[h].flag = UNMARKED
  BY <1>1 DEF IsMarked
<1>3. PICK c \in InUse : InC(chunk, c, h) /\ FitsIn(chunk, c, h, heads, sz)
  BY <1>1, <1>2 DEF Heap, Tiles
<1>4. c \in ChunkOf(h)
  <2>1. c \in Addr /\ UsedApart(InUse, chunk)
    BY InUseFacts
  <2>2. c \in Nat /\ First(c) = c + Overhead /\ Overhead \in Nat /\ h \in Nat
    BY <1>2, <2>1, FirstNat, AddrNat, RsoAssumption
  <2>3. sz[h] \in Nat /\ sz[h] > 1 /\ ChunkEnd(chunk, c) \in Nat
    BY <1>1, <1>2, <2>1, <2>2 DEF Heap, Tiles, UsedApart, ChunkEnd
  <2>4. c <= h /\ h + 1 < ChunkEnd(chunk, c)
    BY <1>3, <2>2, <2>3 DEF InC, FitsIn
  <2> QED
    BY <2>4, ChunkOfFacts
<1>5. ASSUME NEW d \in ChunkOf(h) PROVE h >= First(d)
  <2>1. d \in InUse /\ d <= h /\ h + 1 < ChunkEnd(chunk, d)
    BY ChunkOfFacts
  <2>2. d \in Addr /\ UsedApart(InUse, chunk)
    BY <2>1, InUseFacts
  <2>3. h \in Nat /\ ChunkEnd(chunk, d) \in Nat /\ d \in Nat
    BY <1>2, <2>1, <2>2, AddrNat DEF UsedApart, ChunkEnd
  <2>4. d <= h /\ h < ChunkEnd(chunk, d)
    BY <2>1, <2>3
  <2>5. Good(InUse, chunk, rsoh, nae, heads, arrays)
    BY DEF HeapInv, HeapGood
  <2>6. InC(chunk, d, h)
    BY <1>2, <2>1, <2>4, <2>5, HeadsBetween
  <2>7. First(d) \in Nat
    BY <2>2, FirstNat
  <2> QED
    BY <2>3, <2>6, <2>7 DEF InC
<1> QED
  BY <1>2, <1>4, <1>5 DEF MayBeArray

LEMMA SkipWordInv == ASSUME TableInv, HeapInv, SkipWord PROVE HeapInv'
<1>1. pc \in Marking /\ wi \in Words /\ ~MayBeArray(word[wi]) /\ NextWord(FALSE)
  BY DEF SkipWord, Marking
<1>2. live[wi] => word[wi] \in StartsOf(arrays)
  BY <1>1 DEF HeapInv, Marks, Roots
<1>3. live[wi] => IsMarked(word[wi])
  BY <1>1, <1>2, ArrayFound
<1> QED
  BY <1>1, <1>3, NextWordInv

LEMMA MarkLargeInv == ASSUME TableInv, HeapInv, MarkLarge PROVE HeapInv'
<1> DEFINE h == word[wi]
<1>1. PICK c \in ChunkOf(h) : chunk[c].size > RSOC_SIZE /\ NextWord(h = First(c))
  BY DEF MarkLarge
<1>2. pc \in Marking /\ wi \in Words /\ MayBeArray(h)
  BY DEF MarkLarge, Marking
<1>3. PICK sz : /\ Heap(InUse, chunk, rsoh, nae, heads, arrays, sz)
                /\ \A k \in heads : /\ k \in Addr /\ k # 0 /\ sz[k] = rsoh[k].size /\ ~IsStore(nae, k)
                                    /\ rsoh[k].flag # FREE => k \in StartsOf(arrays)
                                    /\ k \in StartsOf(arrays) => rsoh[k].flag \in {UNMARKED, MARKED}
                /\ StartsOf(arrays) \subseteq heads
  BY <1>2, MarkingHeap
<1>4. c \in InUse /\ c <= h /\ h + 1 < ChunkEnd(chunk, c) /\ First(c) <= h /\ rsoh[h].flag \in {UNMARKED, DATA}
  BY <1>1, <1>2, ChunkOfFacts DEF MayBeArray
<1>5. h = First(c) => h \in StartsOf(arrays)
  <2>1. First(c) \in heads
    BY <1>3, <1>4 DEF Heap, Tiles
  <2>2. rsoh[h].flag # FREE
    BY <1>4 DEF UNMARKED, DATA, FREE
  <2> QED
    BY <1>3, <2>1, <2>2
<1>6. live[wi] => h = First(c)
  <2> HAVE live[wi]
  <2>1. h \in StartsOf(arrays) /\ h \in heads /\ h \in Addr
    BY <1>2, <1>3 DEF HeapInv, Marks, Roots
  <2>2. Tiles(InUse, chunk, heads, sz)
    BY <1>3 DEF Heap
  <2>3. InC(chunk, c, h)
    <3>1. c \in Addr /\ UsedApart(InUse, chunk)
      BY <1>4, InUseFacts
    <3>2. h \in Nat /\ ChunkEnd(chunk, c) \in Nat
      BY <1>4, <2>1, <3>1, AddrNat DEF UsedApart, ChunkEnd
    <3>3. h < ChunkEnd(chunk, c)
      BY <1>4, <3>2
    <3> QED
      BY <1>4, <3>3 DEF InC
  <2> HIDE DEF h
  <2>4. FitsIn(chunk, c, h, heads, sz)
    BY <1>4, <2>1, <2>2, <2>3, FitsChunk
  <2> QED
    BY <1>1, <2>4 DEF FitsIn
<1> QED
  BY <1>1, <1>2, <1>5, <1>6, NextWordInv

LEMMA EndWalkInv == ASSUME TableInv, HeapInv, EndWalk PROVE HeapInv'
<1> DEFINE h == word[wi]
<1>1. pc = "walk" /\ pc \in Marking /\ pf >= h /\ NextWord(pf = h)
  BY DEF EndWalk, Reached, Marking
<1>2. /\ wi \in Words /\ rsoh[h].flag \in {UNMARKED, DATA}
      /\ \E c \in InUse : /\ chunk[c].size <= RSOC_SIZE /\ InC(chunk, c, h)
                          /\ (pf \in heads /\ InC(chunk, c, pf)) \/ pf = ChunkEnd(chunk, c)
      /\ h \in heads => pf <= h
  BY <1>1 DEF HeapInv, WalkAt
<1>3. PICK sz : /\ Heap(InUse, chunk, rsoh, nae, heads, arrays, sz)
                /\ \A k \in heads : /\ k \in Addr /\ k # 0 /\ sz[k] = rsoh[k].size /\ ~IsStore(nae, k)
                                    /\ rsoh[k].flag # FREE => k \in StartsOf(arrays)
                                    /\ k \in StartsOf(arrays) => rsoh[k].flag \in {UNMARKED, MARKED}
                /\ StartsOf(arrays) \subseteq heads
  BY <1>1, MarkingHeap
<1>4. PICK c \in InUse : InC(chunk, c, h) /\ ((pf \in heads /\ InC(chunk, c, pf)) \/ pf = ChunkEnd(chunk, c))
  BY <1>2
<1>5. c \in Addr /\ chunk[c].size \in Nat /\ c \in Nat /\ ChunkEnd(chunk, c) \in Nat
  BY InUseFacts, AddrNat DEF UsedApart, ChunkEnd
<1>6. pf = h => h \in StartsOf(arrays)
  <2> HAVE pf = h
  <2>1. pf # ChunkEnd(chunk, c)
    <3>1. h < ChunkEnd(chunk, c)
      BY <1>4 DEF InC
    <3>2. \A x \in Nat : ~(x < x)
      OBVIOUS
    <3> HIDE DEF h
    <3> QED
      BY <1>5, <3>1, <3>2
  <2>2. rsoh[h].flag # FREE
    BY <1>2 DEF UNMARKED, DATA, FREE
  <2> QED
    BY <1>3, <1>4, <2>1, <2>2
<1>7. live[wi] => pf = h
  <2> HAVE live[wi]
  <2>1. h \in heads /\ h \in Nat
    BY <1>2, <1>3, AddrNat DEF HeapInv, Marks, Roots
  <2>2. pf <= h /\ pf >= h
    BY <1>1, <1>2, <2>1
  <2>3. pf \in Nat
    BY <1>3, <1>4, <1>5, AddrNat
  <2> HIDE DEF h
  <2> QED
    BY <2>1, <2>2, <2>3
<1> QED
  BY <1>1, <1>2, <1>6, <1>7, NextWordInv
-----------------------------------------------------------------------------
(* The walk from block to block goes no further than an array ahead of it. *)
LEMMA WalkStartFacts ==
  ASSUME NEW c, NEW h, chunk[c].flol \in Seq(Addr)
  PROVE  \/ WalkStart(c, h) = First(c)
         \/ WalkStart(c, h) \in Mem(chunk[c].flol) /\ WalkStart(c, h) <= h
<1> DEFINE L == chunk[c].flol
           S == {i \in DOMAIN L : \A j \in 1..i : L[j] <= h}
           n == Cardinality(S)
<1>1. Len(L) \in Nat /\ DOMAIN L = 1 .. Len(L)
  OBVIOUS
<1>2. S \in SUBSET (1 .. Len(L)) /\ \A i \in S : 1 .. i \subseteq S
  BY <1>1
<1>3. n \in 0 .. Len(L) /\ (n # 0 => n \in S)
  <2> HIDE DEF S
  <2> QED
    BY <1>1, <1>2, DownClosed
<1>4. n # 0 => L[n] \in Mem(L) /\ L[n] <= h
  <2> HAVE n # 0
  <2>1. n \in DOMAIN L /\ n \in 1 .. n /\ \A j \in 1 .. n : L[j] <= h
    BY <1>3
  <2> HIDE DEF n
  <2> QED
    BY <1>1, <2>1 DEF Mem
<1>5. WalkStart(c, h) = IF n = 0 THEN First(c) ELSE L[n]
  BY DEF WalkStart
<1> HIDE DEF n, L
<1> QED
  BY <1>4, <1>5 DEF L

LEMMA WalkStep ==
  ASSUME TableInv, HeapInv, pc \in Marking, pc' = "walk", Quiet, UNCHANGED <<rsoh, wi>>, WalkAt'
  PROVE  HeapInv'
<1>1. HeapGood' /\ Blocks(rsoh')
  BY SameGood DEF Quiet, HeapInv, Shapes
<1>2. \A h \in StartsOf(arrays) : rsoh'[h].flag = MARKED => h \in Held
  BY DEF HeapInv, Marks, IsMarked, Collecting
<1>3. MarkedSoFar'
  BY DEF HeapInv, Marks, MarkedSoFar, IsMarked, NoStores, Quiet
<1> QED
  BY <1>1, <1>2, <1>3, MarkStep DEF Marking

LEMMA StartWalkInv == ASSUME TableInv, HeapInv, StartWalk PROVE HeapInv'
<1> DEFINE h == word[wi]
<1>1. PICK c \in ChunkOf(h) : chunk[c].size <= RSOC_SIZE /\ pf' = WalkStart(c, h)
  BY DEF StartWalk
<1>2. /\ pc = "mark" /\ wi \in Words /\ MayBeArray(h) /\ pc' = "walk" /\ Quiet /\ UNCHANGED <<rsoh, wi>>
  BY DEF StartWalk, MarkVarsRest, Quiet, progVars, histVars
<1>3. c \in InUse /\ c <= h /\ h + 1 < ChunkEnd(chunk, c) /\ First(c) <= h /\ rsoh[h].flag \in {UNMARKED, DATA}
  BY <1>1, <1>2, ChunkOfFacts DEF MayBeArray
<1>4. pc \in Marking
  BY <1>2 DEF Marking
<1>5. PICK sz : Heap(InUse, chunk, rsoh, nae, heads, arrays, sz)
  BY DEF HeapInv, HeapGood, Good
<1>6. Listed(chunk, nae, heads, arrays, c) /\ c \in Addr /\ UsedApart(InUse, chunk)
  BY <1>3, InUseFacts
<1>7. pf' \in heads /\ InC(chunk, c, pf') /\ pf' <= h
  <2>1. First(c) \in heads /\ InC(chunk, c, First(c))
    BY <1>3, <1>5, <1>6, FirstIn DEF Heap, Tiles
  <2>2. \A f \in Mem(chunk[c].flol) : f \in heads /\ InC(chunk, c, f)
    BY <1>6 DEF Listed, FreeBlock
  <2>3. pf' = First(c) \/ (pf' \in Mem(chunk[c].flol) /\ pf' <= h)
    BY <1>1, <1>6, WalkStartFacts DEF Listed
  <2> HIDE DEF h
  <2> QED
    BY <1>3, <2>1, <2>2, <2>3
<1>8. InC(chunk, c, h)
  <2>1. c \in Nat /\ ChunkEnd(chunk, c) \in Nat /\ Memory \in Nat
    BY <1>3, <1>6, AddrNat DEF UsedApart, ChunkEnd
  <2>2. h \in Nat
    BY <1>2, AddrNat DEF HeapInv, Shapes
  <2> QED
    BY <1>3, <2>1, <2>2 DEF InC
<1>9. WalkAt'
  <2>1. UsedIn(Mem(gcmt'), chunk') = InUse
    BY <1>2 DEF Quiet, InUse
  <2> QED
    BY <1>1, <1>2, <1>3, <1>7, <1>8 DEF WalkAt, InUse, Quiet, InC, ChunkEnd, Mem, UsedIn
<1> QED
  BY <1>2, <1>4, <1>9, WalkStep

LEMMA WalkInv == ASSUME TableInv, HeapInv, Walk PROVE HeapInv'
<1> DEFINE h == word[wi]
<1>1. /\ pc = "walk" /\ pf < h /\ pf' = pf + rsoh[pf].size /\ pc' = "walk" /\ Quiet /\ UNCHANGED <<rsoh, wi>>
  BY DEF Walk, MarkVarsRest, Quiet, progVars, histVars
<1>2. pc \in Marking
  BY <1>1 DEF Marking
<1>3. wi \in Words /\ rsoh[h].flag \in {UNMARKED, DATA}
  BY <1>1 DEF HeapInv, WalkAt
<1>4. PICK c \in InUse :
        /\ chunk[c].size <= RSOC_SIZE /\ InC(chunk, c, h)
        /\ (pf \in heads /\ InC(chunk, c, pf)) \/ pf = ChunkEnd(chunk, c)
  BY <1>1 DEF HeapInv, WalkAt
<1>5. h \in Nat /\ ChunkEnd(chunk, c) \in Nat
  <2>1. c \in Nat /\ chunk[c].size \in Nat
    BY InUseFacts, AddrNat DEF UsedApart
  <2> QED
    BY <1>3, <2>1, AddrNat DEF HeapInv, Shapes, ChunkEnd
<1>6. pf \in heads /\ InC(chunk, c, pf)
  <2>1. h < ChunkEnd(chunk, c)
    BY <1>4 DEF InC
  <2> HIDE DEF h
  <2> QED
    BY <1>1, <1>4, <1>5, <2>1
<1>7. /\ pf' \in heads \/ pf' = ChunkEnd(chunk, c)
      /\ pf' \in heads /\ pf' < ChunkEnd(chunk, c) => InC(chunk, c, pf')
      /\ \A g \in heads : pf < g => pf' <= g
      /\ pf' <= ChunkEnd(chunk, c) /\ pf' \in Nat
  <2>1. Good(InUse, chunk, rsoh, nae, heads, arrays)
    BY DEF HeapInv, HeapGood
  <2>2. ~IsStore(nae, pf)
    BY <1>2 DEF HeapInv, Marks, MarkedSoFar, NoStores, IsStore
  <2>3. /\ pf \in Addr /\ pf \in Nat /\ rsoh[pf].size \in Nat /\ rsoh[pf].size > 1
        /\ pf + rsoh[pf].size <= ChunkEnd(chunk, c)
        /\ pf + rsoh[pf].size \in heads \/ pf + rsoh[pf].size = ChunkEnd(chunk, c)
        /\ pf + rsoh[pf].size \in heads /\ pf + rsoh[pf].size < ChunkEnd(chunk, c) => InC(chunk, c, pf + rsoh[pf].size)
        /\ \A g \in heads : pf < g => pf + rsoh[pf].size <= g
    BY <1>4, <1>6, <2>1, <2>2, NextBlock
  <2> QED
    BY <1>1, <2>3
<1>8. (pf' \in heads /\ InC(chunk, c, pf')) \/ pf' = ChunkEnd(chunk, c)
  BY <1>5, <1>7
<1>9. WalkAt'
  <2>1. UsedIn(Mem(gcmt'), chunk') = InUse
    BY <1>1 DEF Quiet, InUse
  <2> QED
    BY <1>1, <1>3, <1>4, <1>7, <1>8 DEF WalkAt, InUse, Quiet, InC, ChunkEnd, Mem, UsedIn
<1> QED
  BY <1>1, <1>2, <1>9, WalkStep

LEMMA BeginSweepInv == ASSUME TableInv, HeapInv, BeginSweep PROVE HeapInv'
<1>1. /\ pc = "mark" /\ wi = NWords + 1 /\ pc' = "enter" /\ p1' = 1 /\ Quiet /\ rsoh' = rsoh
  BY DEF BeginSweep, Quiet, progVars, histVars
<1>2. pc \in Marking /\ pc \in Collecting /\ pc' \in Collecting /\ pc' \in Sweeping /\ pc' \notin Marking
  BY <1>1 DEF Marking, Collecting, Sweeping
<1>3. HeapGood' /\ Shapes'
  BY <1>1, SameGood, SameShapes DEF Quiet, HeapInv, Shapes
<1>4. Headers'
  <2>1. (\A t \in Types : Valid(rsoh, nae, t))'
    BY <1>1, <1>2 DEF HeapInv, Headers, Valid, Quiet
  <2>2. req' = <<>> \/ \E t \in Types : Asked(t)'
    BY <1>1 DEF HeapInv, Headers, Asked, Quiet
  <2> QED
    BY <1>1, <2>1, <2>2 DEF Headers
<1>5. Roots' = Roots /\ Held' = Held /\ Roots \subseteq StartsOf(arrays) /\ StartsOf(arrays)' = StartsOf(arrays)
  BY <1>1, SameRoots DEF StartsOf, Quiet
<1>6. \A h \in StartsOf(arrays) : ~(Passed(h)')
  <2> SUFFICES ASSUME NEW h \in StartsOf(arrays) PROVE 1 <= Len(gcmt) /\ ~(h < gcmt[1])
    BY <1>1 DEF Passed, Quiet, cur
  <2>1. PICK sz : Heap(InUse, chunk, rsoh, nae, heads, arrays, sz)
    BY DEF HeapInv, HeapGood, Good
  <2>2. h \in heads /\ h \in Addr
    BY <2>1 DEF Heap, Contents, Tiles, StartsOf
  <2>3. PICK c \in InUse : InC(chunk, c, h)
    BY <2>1, <2>2 DEF Heap, Tiles
  <2>4. c \in Addr /\ c \in Mem(gcmt)
    BY InUseFacts
  <2>5. gcmt \in Seq(Addr) /\ Increasing(gcmt)
    BY DEF TableInv
  <2>6. PICK i \in 1 .. Len(gcmt) : gcmt[i] = c
    BY <2>4 DEF Mem
  <2>7. 1 \in 1 .. Len(gcmt) /\ 1 <= Len(gcmt) /\ gcmt[1] \in Nat
    BY <2>5, <2>6, AddrNat
  <2>8. gcmt[1] <= c
    BY <2>4, <2>5, <2>6, <2>7, AddrNat DEF Increasing
  <2>9. c < First(c) /\ First(c) \in Nat /\ First(c) <= h /\ h \in Nat /\ c \in Nat
    BY <2>2, <2>3, <2>4, FirstNat, AddrNat DEF InC
  <2> QED
    BY <2>7, <2>8, <2>9
<1>7. \A h \in Roots : IsMarked(h)
  <2>1. \A w \in Words : w < NWords + 1
    BY RsoAssumption DEF Words
  <2>2. /\ \A f \in Fields : attr[f] # 0 => IsMarked(attr[f])
        /\ \A w \in Words : live[w] /\ w < wi => IsMarked(word[w])
    BY <1>2 DEF HeapInv, Marks, MarkedSoFar
  <2> QED
    BY <1>1, <2>1, <2>2 DEF Roots
<1>8. SweptSoFar'
  <2>1. \A h \in Roots : IsMarked(h)'
    BY <1>1, <1>7 DEF IsMarked
  <2>2. \A t \in Types : nae'[t].store_left = 0 /\ nae'[t].store_chunk = 0 /\ nae'[t].chunk_list = <<>>
    BY <1>1, <1>2 DEF HeapInv, Marks, MarkedSoFar, NoStores, Quiet
  <2>3. \A t \in Types : ~(nae'[t].store_left > 0) /\ nae'[t].store_chunk = 0 /\ Mem(nae'[t].chunk_list) = {}
    BY <2>2 DEF Mem
  <2>4. StoresPassed'
    BY <2>3 DEF StoresPassed
  <2> QED
    BY <1>5, <1>6, <2>1, <2>4 DEF SweptSoFar
<1>9. Marks'
  <2>1. \A h \in StartsOf(arrays) : IsMarked(h)' => h \in Held
    BY <1>1, <1>2 DEF HeapInv, Marks, IsMarked
  <2> QED
    BY <1>2, <1>5, <1>8, <2>1 DEF Marks
<1>10. WalkAt' /\ SweepAt'
  BY <1>1 DEF WalkAt, SweepAt
<1> QED
  BY <1>3, <1>4, <1>9, <1>10 DEF HeapInv
-----------------------------------------------------------------------------
(* gc_sweep.  Where the blocks are, seen from the chunk that is swept.     *)
LEMMA SweepStep ==
  ASSUME HeapInv, pc \in Sweeping, pc' \in Sweeping, UNCHANGED <<word, live, attr, req>>,
         HeapGood', Blocks(rsoh'), Envs(nae'), \A t \in Types : Valid(rsoh', nae', t),
         Roots \subseteq StartsOf(arrays'),
         \A h \in StartsOf(arrays') : IsMarked(h)' => h \in Held,
         \A h \in Roots : IsMarked(h)' \/ Passed(h)',
         \A h \in StartsOf(arrays') : Passed(h)' => ~IsMarked(h)' /\ h \in Held,
         StoresPassed', SweepAt'
  PROVE  HeapInv'
<1>1. Shapes'
  BY SameShapes
<1>2. pc' \in Collecting /\ pc' \notin Marking /\ pc' # "resume" /\ pc' # "new" /\ pc' # "walk"
  BY DEF Collecting, Marking, Sweeping
<1>3. Headers'
  <2>1. (\A t \in Types : Valid(rsoh, nae, t))'
    BY DEF Valid
  <2>2. req' = <<>> \/ \E t \in Types : Asked(t)'
    BY DEF HeapInv, Headers, Asked
  <2> QED
    BY <1>2, <2>1, <2>2 DEF Headers
<1>4. Roots' = Roots /\ Held' = Held /\ StartsOf(arrays)' = StartsOf(arrays')
  BY SameRoots DEF StartsOf
<1>5. SweptSoFar'
  BY <1>4 DEF SweptSoFar
<1>6. Marks'
  BY <1>2, <1>4, <1>5 DEF Marks
<1>7. WalkAt'
  BY <1>2 DEF WalkAt
<1> QED
  BY <1>1, <1>3, <1>6, <1>7 DEF HeapInv

(* What holds before every step of the sweep.                              *)
LEMMA SweepFacts ==
  ASSUME HeapInv, pc \in Sweeping
  PROVE  /\ Good(InUse, chunk, rsoh, nae, heads, arrays) /\ Blocks(rsoh) /\ Envs(nae)
         /\ \A t \in Types : Valid(rsoh, nae, t)
         /\ Roots \subseteq StartsOf(arrays)
         /\ \A h \in StartsOf(arrays) : IsMarked(h) => h \in Held
         /\ \A h \in Roots : IsMarked(h) \/ Passed(h)
         /\ \A h \in StartsOf(arrays) : Passed(h) => ~IsMarked(h) /\ h \in Held
         /\ StoresPassed
<1>1. pc \in Collecting
  BY DEF Collecting
<1> QED
  BY <1>1 DEF HeapInv, HeapGood, Shapes, Headers, Marks, SweptSoFar

LEMMA HeadPlace ==
  ASSUME TableInv, HeapInv, p1 \in 1 .. Len(gcmt), NEW h \in heads
  PROVE  /\ h \in Addr /\ h \in Nat
         /\ \/ cur \in InUse /\ InC(chunk, cur, h)
            \/ h < cur
            \/ ChunkEnd(chunk, cur) < h /\ p1 + 1 \in 1 .. Len(gcmt) /\ gcmt[p1 + 1] < h
<1>1. PICK sz : Heap(InUse, chunk, rsoh, nae, heads, arrays, sz)
  BY DEF HeapInv, HeapGood, Good
<1>2. h \in Addr /\ h \in Nat
  BY <1>1, AddrNat DEF Heap, Tiles
<1>3. PICK d \in InUse : InC(chunk, d, h)
  BY <1>1 DEF Heap, Tiles
<1>4. d \in Addr /\ d \in Mem(gcmt) /\ d \in Nat /\ First(d) \in Nat /\ d < First(d) /\ First(d) <= h
      /\ h < ChunkEnd(chunk, d)
  BY <1>3, InUseFacts, FirstNat, AddrNat DEF InC
<1>5. gcmt \in Seq(Addr) /\ Increasing(gcmt) /\ Len(gcmt) \in Nat
  BY DEF TableInv
<1>6. PICK i \in 1 .. Len(gcmt) : gcmt[i] = d
  BY <1>4 DEF Mem
<1>7. Table(Mem(gcmt), chunk, regions) /\ cur \in Mem(gcmt) /\ cur \in Nat /\ chunk[cur].size \in Nat
  BY <1>5, AddrNat DEF TableInv, cur, Mem, Table, Cells
<1>8. CASE i = p1
  BY <1>2, <1>3, <1>6, <1>8 DEF cur
<1>9. CASE i < p1
  <2>1. d < cur
    BY <1>5, <1>6, <1>9 DEF Increasing, cur
  <2>2. ChunkEnd(chunk, d) <= cur
    BY <1>4, <1>7, <2>1 DEF Table, Cells
  <2>3. ChunkEnd(chunk, d) \in Nat
    BY <1>4, <1>7 DEF Table, Cells, ChunkEnd
  <2>4. h < cur
    BY <1>2, <1>4, <1>7, <2>2, <2>3
  <2> QED
    BY <1>2, <2>4
<1>10. CASE p1 < i
  <2>1. cur < d
    BY <1>5, <1>6, <1>10 DEF Increasing, cur
  <2>2. ChunkEnd(chunk, cur) <= d
    BY <1>4, <1>7, <2>1 DEF Table, Cells
  <2>3. ChunkEnd(chunk, cur) \in Nat
    BY <1>7 DEF ChunkEnd
  <2>4. p1 + 1 \in 1 .. Len(gcmt) /\ (p1 + 1 = i \/ p1 + 1 < i)
    BY <1>5, <1>6, <1>10
  <2>5. gcmt[p1 + 1] \in Nat /\ gcmt[p1 + 1] <= d
    <3>1. PICK k \in 1 .. Len(gcmt) : k = p1 + 1
      BY <2>4
    <3>2. gcmt[k] \in Nat
      BY <1>5, AddrNat
    <3>3. CASE k = i
      BY <1>4, <1>6, <3>1, <3>2, <3>3
    <3>4. CASE k < i
      <4>1. gcmt[k] < gcmt[i]
        BY <1>5, <3>4 DEF Increasing
      <4> QED
        BY <1>4, <1>6, <3>1, <3>2, <4>1
    <3> QED
      BY <2>4, <3>1, <3>3, <3>4
  <2>6. ChunkEnd(chunk, cur) < h /\ gcmt[p1 + 1] < h
    BY <1>2, <1>4, <2>2, <2>3, <2>5
  <2> QED
    BY <1>2, <2>4, <2>6
<1> QED
  BY <1>6, <1>8, <1>9, <1>10

(* A step of the sweep that changes no block.                              *)
SamePlaces ==
  /\ \A h \in heads : Passed(h)' <=> Passed(h)
  /\ \A c \in InUse : Done(c) <=> Done(c)'
SameChunksInUse == UsedIn(Mem(gcmt'), chunk') = InUse /\ \A c \in InUse : chunk'[c].size = chunk[c].size
BeforeGp == pc' = "sweep" => \A h \in heads : Passed(h) => Behind(h) # gp'

LEMMA SweepQuiet ==
  ASSUME HeapInv, pc \in Sweeping, pc' \in Sweeping,
         UNCHANGED <<word, live, attr, req, rsoh, nae, heads, arrays>>,
         HeapGood', SamePlaces, SweepAt', SameChunksInUse, BeforeGp
  PROVE  HeapInv' /\ (Compact => Compact')
<1>1. /\ Good(InUse, chunk, rsoh, nae, heads, arrays) /\ Blocks(rsoh) /\ Envs(nae)
      /\ \A t \in Types : Valid(rsoh, nae, t)
      /\ Roots \subseteq StartsOf(arrays)
      /\ \A h \in StartsOf(arrays) : IsMarked(h) => h \in Held
      /\ \A h \in Roots : IsMarked(h) \/ Passed(h)
      /\ \A h \in StartsOf(arrays) : Passed(h) => ~IsMarked(h) /\ h \in Held
      /\ StoresPassed
  BY SweepFacts
<1>2. PICK sz : Heap(InUse, chunk, rsoh, nae, heads, arrays, sz)
  BY <1>1 DEF Good
<1>3. StartsOf(arrays) \subseteq heads
  BY <1>2 DEF Heap, Contents, StartsOf
<1>4. /\ \A t \in Types : nae[t].store_left > 0 => nae[t].store \in heads
      /\ \A t \in Types : \A c \in Mem(nae[t].chunk_list) : c \in InUse
  BY <1>2 DEF Heap, Stores, StoreIn, ChunksOf
<1>5. rsoh' = rsoh /\ nae' = nae /\ arrays' = arrays
  OBVIOUS
<1>6. \A h : IsMarked(h)' <=> IsMarked(h)
  BY <1>5 DEF IsMarked
<1>7. /\ Blocks(rsoh') /\ Envs(nae') /\ \A t \in Types : Valid(rsoh', nae', t)
  BY <1>1, <1>5
<1>8. Roots \subseteq StartsOf(arrays')
  BY <1>1, <1>5
<1>9. \A h \in StartsOf(arrays') : IsMarked(h)' => h \in Held
  BY <1>1, <1>5, <1>6
<1>10. \A h \in Roots : IsMarked(h)' \/ Passed(h)'
  BY <1>1, <1>3, <1>6 DEF SamePlaces
<1>11. \A h \in StartsOf(arrays') : Passed(h)' => ~IsMarked(h)' /\ h \in Held
  BY <1>1, <1>3, <1>5, <1>6 DEF SamePlaces
<1>12. StoresPassed'
  <2>1. \A t \in Types : /\ nae[t].store_left > 0 => Passed(nae[t].store)'
                         /\ nae[t].store_chunk # 0 => nae[t].store_left > 0
                         /\ \A c \in Mem(nae[t].chunk_list) : Done(c)'
    BY <1>1, <1>4 DEF StoresPassed, SamePlaces
  <2>2. (\A t \in Types : /\ nae[t].store_left > 0 => Passed(nae[t].store)
                          /\ nae[t].store_chunk # 0 => nae[t].store_left > 0
                          /\ \A c \in Mem(nae[t].chunk_list) : Done(c))'
    BY <1>5, <2>1 DEF Passed, Done, Mem
  <2> QED
    BY <2>2 DEF StoresPassed
<1>13. UNCHANGED <<word, live, attr, req>>
  OBVIOUS
<1>14. ASSUME Compact PROVE Compact'
  <2>1. FreeHeads' = FreeHeads /\ (StartsOf(arrays))' = StartsOf(arrays) /\ InUse' = InUse
    BY <1>5 DEF FreeHeads, StartsOf, InUse, UsedIn, Mem, SameChunksInUse
  <2>2. \A h \in FreeHeads : Passed(h)' => Behind(h) \notin FreeHeads /\ ~(pc' = "sweep" /\ Behind(h) = gp')
    BY <1>14 DEF Compact, RunsApart, SamePlaces, BeforeGp, FreeHeads
  <2>3. RunsApart'
    BY <2>1, <2>2 DEF RunsApart, Behind
  <2>4. \A c \in InUse : Done(c)' => \E h \in StartsOf(arrays) : InC(chunk', c, h)
    BY <1>14 DEF Compact, HasArray, SamePlaces, SameChunksInUse, InC, ChunkEnd
  <2> QED
    BY <2>1, <2>3, <2>4 DEF Compact, HasArray
<1> QED
  BY <1>7, <1>8, <1>9, <1>10, <1>11, <1>12, <1>13, <1>14, SweepStep

(* The headers say the sizes while the sweep is under way.                 *)
LEMMA SizesWritten ==
  ASSUME HeapInv, pc \in Sweeping, NEW sz, Heap(InUse, chunk, rsoh, nae, heads, arrays, sz), NEW h \in heads
  PROVE  sz[h] = rsoh[h].size
<1>1. CASE IsStore(nae, h)
  <2>1. PICK t \in Types : nae[t].store_left > 0 /\ nae[t].store = h
    BY <1>1 DEF IsStore
  <2>2. sz[nae[t].store] = nae[t].store_left /\ Valid(rsoh, nae, t)
    BY <2>1, StoreAt, SweepFacts
  <2> QED
    BY <2>1, <2>2 DEF Valid
<1>2. CASE ~IsStore(nae, h)
  BY <1>2 DEF Heap, Contents
<1> QED
  BY <1>1, <1>2

LEMMA BlockEnds ==
  ASSUME TableInv, HeapInv, pc \in Sweeping, NEW h \in heads
  PROVE  /\ h \in Nat /\ Behind(h) \in Nat /\ h < Behind(h)
         /\ \A g \in heads : h < g => Behind(h) <= g
         /\ \A c \in InUse : /\ c \in Nat /\ (h < c => Behind(h) <= c)
                             /\ InC(chunk, c, h) => FitsIn(chunk, c, h, heads, [g \in heads |-> rsoh[g].size])
<1>1. PICK sz : Heap(InUse, chunk, rsoh, nae, heads, arrays, sz)
  BY DEF HeapInv, HeapGood, Good
<1>2. sz[h] = rsoh[h].size
  BY <1>1, SizesWritten
<1>3. h \in Addr /\ h \in Nat /\ rsoh[h].size \in Nat /\ rsoh[h].size > 1 /\ \A g \in heads : h < g => Behind(h) <= g
  BY <1>1, <1>2, AddrNat DEF Heap, Tiles, Behind
<1>4. ASSUME NEW c \in InUse
      PROVE  /\ c \in Nat /\ (h < c => Behind(h) <= c)
             /\ InC(chunk, c, h) => FitsIn(chunk, c, h, heads, [g \in heads |-> rsoh[g].size])
  <2>1. InC(chunk, c, h) => FitsIn(chunk, c, h, heads, sz)
    BY <1>1, FitsChunk DEF Heap
  <2>2. PICK d \in InUse : InC(chunk, d, h) /\ FitsIn(chunk, d, h, heads, sz)
    BY <1>1 DEF Heap, Tiles
  <2>3. /\ c \in Nat /\ d \in Nat /\ First(d) \in Nat /\ d < First(d) /\ ChunkEnd(chunk, d) \in Nat
        /\ d < c => ChunkEnd(chunk, d) <= c
    BY <1>1, FirstNat, AddrNat DEF Heap, Tiles, UsedApart, ChunkEnd
  <2>4. h < c => Behind(h) <= c
    BY <1>2, <1>3, <2>2, <2>3 DEF InC, FitsIn, Behind
  <2> QED
    BY <1>2, <2>1, <2>3, <2>4 DEF FitsIn
<1> QED
  BY <1>3, <1>4 DEF Behind

(* What is known of the chunk that is swept.                               *)
LEMMA SweptChunk ==
  ASSUME TableInv, HeapInv, pc = "sweep"
  PROVE  /\ cur \in InUse /\ cur \in Addr /\ cur \in Nat /\ First(cur) \in Nat /\ cur < First(cur)
         /\ chunk[cur].size \in Nat /\ chunk[cur].size > Overhead + 1
         /\ ChunkEnd(chunk, cur) = End(cur) /\ ChunkEnd(chunk, cur) \in Nat
         /\ First(cur) \in heads /\ InC(chunk, cur, First(cur))
         /\ p1 \in 1 .. Len(gcmt)
<1>1. p1 \in 1 .. Len(gcmt) /\ cur \in Mem(gcmt) /\ cur \in Addr
  BY CurFacts
<1>2. chunk[cur].state = "used"
  BY DEF TableInv, FreeLists
<1>3. cur \in InUse
  BY <1>1, <1>2 DEF InUse, UsedIn
<1>4. PICK sz : Heap(InUse, chunk, rsoh, nae, heads, arrays, sz)
  BY DEF HeapInv, HeapGood, Good
<1>5. UsedApart(InUse, chunk) /\ First(cur) \in heads
  BY <1>3, <1>4 DEF Heap, Tiles
<1>6. InC(chunk, cur, First(cur))
  BY <1>3, <1>5, FirstIn
<1> QED
  BY <1>1, <1>3, <1>5, <1>6, FirstNat, AddrNat DEF UsedApart, ChunkEnd, End

LEMMA EnterChunkInv == ASSUME TableInv, HeapInv, EnterChunk PROVE HeapInv' /\ (Compact => Compact')
<1>1. /\ pc = "enter" /\ p1 <= Len(gcmt) /\ pc' \in {"sweep", "link"} /\ p1' = p1 /\ gcmt' = gcmt
      /\ UNCHANGED <<word, live, attr, req, rsoh, nae, heads, arrays>>
  BY DEF EnterChunk, progVars, histVars
<1>2. cur' = cur /\ pc \in Sweeping /\ pc' \in Sweeping /\ p1 \in 1 .. Len(gcmt)
  BY <1>1 DEF cur, Sweeping, TableInv, FreeLists, Rebuilding
<1>3. cur \in Mem(gcmt) /\ cur \in Addr /\ cur \in Nat /\ First(cur) \in Nat /\ cur < First(cur)
  BY <1>2, MemAddr, AddrNat, FirstNat DEF cur, Mem
<1>4. CASE chunk[cur].state = "used"
  <2>1. /\ chunk' = [chunk EXCEPT ![cur].flol = <<>>] /\ gp' = First(cur) /\ pp' = 0 /\ pc' = "sweep"
    BY <1>4 DEF EnterChunk
  <2>2. FlolSet(chunk, chunk', cur, <<>>)
    BY <2>1 DEF FlolSet
  <2>3. /\ chunk'[cur] = Header(chunk[cur].state, chunk[cur].size, chunk[cur].isize, chunk[cur].nae, <<>>)
        /\ \A a \in Addr : a # cur => chunk'[a] = chunk[a]
    BY <1>3, <2>2, FlolAssign DEF TableInv
  <2>4. /\ chunk'[cur].state = chunk[cur].state /\ chunk'[cur].size = chunk[cur].size
        /\ chunk'[cur].nae = chunk[cur].nae /\ chunk'[cur].flol = <<>>
    BY <2>3 DEF Header
  <2>5. UsedIn(Mem(gcmt'), chunk') = InUse /\ InUse \subseteq Addr /\ cur \in InUse
    BY <1>1, <1>3, <1>4, <2>3, <2>4, MemAddr DEF InUse, UsedIn
  <2>6. OnlyFlol(InUse, chunk, chunk', cur)
    BY <2>3, <2>4, <2>5 DEF OnlyFlol
  <2>7. Good(InUse, chunk, rsoh, nae, heads, arrays)
    BY DEF HeapInv, HeapGood
  <2>8. Good(InUse, chunk', rsoh, nae, heads, arrays)
    BY <2>4, <2>5, <2>6, <2>7, EmptyFlol
  <2>9. HeapGood'
    BY <1>1, <2>5, <2>8, GoodNext
  <2>10. PICK sz : Heap(InUse, chunk, rsoh, nae, heads, arrays, sz)
    BY <2>7 DEF Good
  <2>11. UsedApart(InUse, chunk) /\ First(cur) \in heads /\ heads \subseteq Addr
    BY <2>5, <2>10 DEF Heap, Tiles
  <2>12. InC(chunk, cur, First(cur))
    BY <2>5, <2>11, FirstIn
  <2>13. SweepAt'
    <3>1. Mem(chunk'[cur].flol) = {}
      BY <2>4 DEF Mem
    <3>2. InC(chunk', cur, First(cur)) /\ ChunkEnd(chunk', cur) = ChunkEnd(chunk, cur)
      BY <2>4, <2>12 DEF InC, ChunkEnd
    <3>3. First(cur)' = First(cur)
      BY <1>2 DEF First
    <3>4. gp' \in heads' /\ InC(chunk', cur, gp')
      BY <1>1, <2>1, <2>11, <3>2
    <3> QED
      BY <1>2, <2>1, <3>1, <3>3, <3>4 DEF SweepAt
  <2>14. SamePlaces
    <3>1. ASSUME NEW h \in heads PROVE Passed(h)' <=> Passed(h)
      <4>1. Passed(h)' <=> h < First(cur)
        BY <2>1 DEF Passed
      <4>2. Passed(h) <=> h < cur
        BY <1>1 DEF Passed
      <4>3. h \in Nat /\ ChunkEnd(chunk, cur) > First(cur) /\ ChunkEnd(chunk, cur) \in Nat
        BY <1>3, <2>5, <2>11, <2>12, AddrNat DEF InC, UsedApart, ChunkEnd
      <4>4. CASE cur <= h /\ h < First(cur)
        <5>1. h < ChunkEnd(chunk, cur)
          BY <1>3, <4>3, <4>4
        <5>2. InC(chunk, cur, h)
          BY <2>5, <2>7, <4>4, <5>1, HeadsBetween
        <5> QED
          BY <1>3, <4>3, <4>4, <5>2 DEF InC
      <4> QED
        BY <1>3, <4>1, <4>2, <4>3, <4>4
    <3>2. \A c \in InUse : Done(c) <=> Done(c)'
      BY <1>1, <1>2, <2>1 DEF Done
    <3> QED
      BY <3>1, <3>2 DEF SamePlaces
  <2>15. BeforeGp
    <3>1. \A h \in heads : Passed(h) => h < cur
      BY <1>1 DEF Passed
    <3>2. \A h \in heads : Behind(h) \in Nat /\ (h < cur => Behind(h) <= cur)
      BY <1>2, <2>5, BlockEnds
    <3> QED
      BY <1>3, <2>1, <3>1, <3>2 DEF BeforeGp
  <2>16. SameChunksInUse
    BY <2>4, <2>5, <2>6 DEF SameChunksInUse, OnlyFlol
  <2> QED
    BY <1>1, <1>2, <2>9, <2>13, <2>14, <2>15, <2>16, SweepQuiet
<1>5. CASE chunk[cur].state # "used"
  <2>1. pc' = "link" /\ chunk' = chunk
    BY <1>5 DEF EnterChunk
  <2>2. HeapGood'
    BY <1>1, <2>1, SameGood
  <2>3. SweepAt'
    BY <2>1 DEF SweepAt
  <2>4. SamePlaces
    <3>1. ASSUME NEW h \in heads PROVE Passed(h)' <=> Passed(h)
      <4>1. Passed(h)' <=> h < ChunkEnd(chunk, cur)
        BY <1>2, <2>1 DEF Passed
      <4>2. Passed(h) <=> h < cur
        BY <1>1 DEF Passed
      <4>3. /\ h \in Addr /\ h \in Nat
            /\ \/ cur \in InUse /\ InC(chunk, cur, h)
               \/ h < cur
               \/ ChunkEnd(chunk, cur) < h /\ p1 + 1 \in 1 .. Len(gcmt) /\ gcmt[p1 + 1] < h
        BY <1>2, HeadPlace
      <4>4. cur \notin InUse
        BY <1>5 DEF InUse, UsedIn
      <4>5. chunk[cur].size \in Nat /\ ChunkEnd(chunk, cur) \in Nat /\ cur <= ChunkEnd(chunk, cur)
        BY <1>3 DEF ChunkEnd, TableInv, Table, Cells
      <4> QED
        BY <1>3, <4>1, <4>2, <4>3, <4>4, <4>5
    <3>2. \A c \in InUse : Done(c) <=> Done(c)'
      <4>1. \A c \in InUse : c \in Nat /\ c # cur
        BY <1>5, MemAddr, AddrNat DEF InUse, UsedIn
      <4> QED
        BY <1>1, <1>2, <1>3, <2>1, <4>1 DEF Done
    <3> QED
      BY <3>1, <3>2 DEF SamePlaces
  <2>5. SameChunksInUse /\ BeforeGp
    BY <1>1, <2>1 DEF SameChunksInUse, BeforeGp, InUse
  <2> QED
    BY <1>1, <1>2, <2>2, <2>3, <2>4, <2>5, SweepQuiet
<1> QED
  BY <1>4, <1>5

(* The header of a block is written.                                       *)
LEMMA FlagPut ==
  ASSUME NEW rs, Blocks(rs), NEW h \in Addr, NEW f, NEW rs2, rs2 = [rs EXCEPT ![h].flag = f]
  PROVE  PutBlock(rs, rs2, h, rs[h].size, f)
<1>1. IsBlock(rs[h])
  BY BlocksAt
<1>2. [rs[h] EXCEPT !.flag = f] = Block(rs[h].size, f)
  BY <1>1, BlockUpdates
<1>3. rs2 = [rs EXCEPT ![h] = Block(rs[h].size, f)]
  BY <1>2
<1> QED
  BY <1>3, BlockPut

LEMMA SizePut ==
  ASSUME NEW rs, Blocks(rs), NEW h \in Addr, NEW n, NEW rs2, rs2 = [rs EXCEPT ![h].size = n]
  PROVE  PutBlock(rs, rs2, h, n, rs[h].flag)
<1>1. IsBlock(rs[h])
  BY BlocksAt
<1>2. [rs[h] EXCEPT !.size = n] = Block(n, rs[h].flag)
  BY <1>1, BlockUpdates
<1>3. rs2 = [rs EXCEPT ![h] = Block(n, rs[h].flag)]
  BY <1>2
<1> QED
  BY <1>3, BlockPut

(* Where the sweep of chunk cur is, while it lasts and when it ends.       *)
LEMMA SweepPlace ==
  ASSUME TableInv, HeapInv, pc = "sweep", UNCHANGED <<gcmt, p1>>,
         chunk'[cur].size = chunk[cur].size
  PROVE  /\ cur' = cur /\ p1' = p1
         /\ \A h : Passed(h) <=> h < gp
         /\ \A h : pc' = "link" => (Passed(h)' <=> h < ChunkEnd(chunk, cur))
         /\ \A h : pc' = "sweep" => (Passed(h)' <=> h < gp')
         /\ \A c : Done(c) <=> c < cur
         /\ \A c \in Nat : pc' \in {"sweep", "link"} => (Done(c) => Done(c)')
<1>1. cur' = cur /\ p1' = p1 /\ cur \in Nat
  BY SweptChunk DEF cur
<1>2. ChunkEnd(chunk', cur) = ChunkEnd(chunk, cur)
  BY DEF ChunkEnd
<1>3. \A h : Passed(h) <=> h < gp
  BY DEF Passed
<1>4. \A h : pc' = "sweep" => (Passed(h)' <=> h < gp')
  BY DEF Passed
<1>5. ASSUME NEW h, pc' = "link" PROVE Passed(h)' <=> h < ChunkEnd(chunk, cur)
  BY <1>1, <1>2, <1>5 DEF Passed
<1>6. \A c : Done(c) <=> c < cur
  BY DEF Done
<1>7. \A c \in Nat : pc' \in {"sweep", "link"} => (Done(c) => Done(c)')
  BY <1>1, <1>6 DEF Done
<1> QED
  BY <1>1, <1>3, <1>4, <1>5, <1>6, <1>7

(* The blocks, from the chunk that is swept.                               *)
LEMMA HeadsAround ==
  ASSUME TableInv, HeapInv, pc = "sweep", NEW h \in heads
  PROVE  /\ h \in Addr /\ h \in Nat
         /\ InC(chunk, cur, h) \/ h < cur \/ ChunkEnd(chunk, cur) < h
         /\ InC(chunk, cur, h) => First(cur) <= h /\ h < ChunkEnd(chunk, cur) /\ cur < h
BY SweptChunk, HeadPlace, AddrNat DEF InC

(* Compact, when the sweep is at block gp of chunk cur.                    *)
LEMMA RunsOn ==
  ASSUME TableInv, HeapInv, pc = "sweep", RunsApart, gp \in Nat,
         FreeHeads' \subseteq FreeHeads \cup {gp}, gp \in FreeHeads' => gp \in heads /\ ~IsMarked(gp),
         \A h \in FreeHeads' : Passed(h)' => h < gp,
         \A h \in heads : h < gp => rsoh'[h].size = rsoh[h].size,
         pc' = "sweep" => gp \in heads /\ ((gp' = gp /\ ~IsMarked(gp)) \/ gp < gp')
  PROVE  RunsApart'
<1>1. \A h : Passed(h) <=> h < gp
  BY DEF Passed
<1>2. ASSUME NEW h \in FreeHeads', Passed(h)'
      PROVE  Behind(h)' \notin FreeHeads' /\ ~(pc' = "sweep" /\ Behind(h)' = gp')
  <2>1. h < gp /\ h \in FreeHeads /\ h \in heads
    BY <1>2 DEF FreeHeads
  <2>2. Behind(h)' = Behind(h)
    BY <2>1 DEF Behind
  <2>3. Behind(h) \notin FreeHeads /\ (Behind(h) = gp /\ gp \in heads => IsMarked(gp))
    BY <1>1, <2>1 DEF RunsApart
  <2>4. Behind(h) \in Nat /\ (gp \in heads => Behind(h) <= gp)
    BY <2>1, BlockEnds DEF Sweeping
  <2> QED
    BY <2>2, <2>3, <2>4
<1> QED
  BY <1>2 DEF RunsApart

ChunksKept ==
  /\ InUse' \subseteq InUse /\ \A c \in InUse : chunk'[c].size = chunk[c].size
  /\ \A h \in StartsOf(arrays) : InC(chunk, cur, h) \/ h \in StartsOf(arrays')
  /\ (pc' = "link" /\ cur \in InUse') => \E h \in StartsOf(arrays') : InC(chunk, cur, h)
LEMMA CompactOn ==
  ASSUME TableInv, HeapInv, pc = "sweep", pc' \in {"sweep", "link"}, UNCHANGED <<gcmt, p1>>,
         ChunksKept, Compact, RunsApart'
  PROVE  Compact'
<1>1. cur \in InUse /\ cur \in Nat /\ pc \in Sweeping /\ (StartsOf(arrays))' = StartsOf(arrays')
  BY SweptChunk DEF Sweeping, StartsOf
<1>2. PICK sz : Heap(InUse, chunk, rsoh, nae, heads, arrays, sz)
  BY DEF HeapInv, HeapGood, Good
<1>3. UsedApart(InUse, chunk) /\ StartsOf(arrays) \subseteq Addr /\ \A c \in InUse : c \in Nat
  BY <1>2, AddrNat DEF Heap, Tiles, UsedApart, Contents, StartsOf
<1>4. ASSUME NEW c \in InUse', Done(c)' PROVE \E h \in StartsOf(arrays') : InC(chunk, c, h)
  <2>1. c \in InUse /\ cur' = cur /\ ((c = cur /\ pc' = "link") \/ c < cur)
    BY <1>1, <1>3, <1>4 DEF ChunksKept, Done, cur
  <2>2. CASE c < cur
    <3>1. PICK h \in StartsOf(arrays) : InC(chunk, c, h)
      BY <1>1, <2>1, <2>2 DEF Compact, Done, HasArray
    <3>2. ~InC(chunk, cur, h)
      BY <1>1, <1>3, <2>1, <2>2, <3>1, OneChunk
    <3> QED
      BY <3>1, <3>2 DEF ChunksKept
  <2> QED
    BY <1>4, <2>1, <2>2 DEF ChunksKept
<1>5. \A c \in InUse' : Done(c)' => HasArray(c)'
  BY <1>1, <1>4 DEF ChunksKept, HasArray, InC, ChunkEnd
<1> QED
  BY <1>5 DEF Compact

(* The block at gp, when a large chunk is swept, and the blocks around.    *)
LEMMA LargeAlone ==
  ASSUME TableInv, HeapInv, pc = "sweep", chunk[cur].size > RSOC_SIZE
  PROVE  /\ gp = First(cur) /\ pp = 0 /\ gp \in heads /\ gp \in Addr /\ gp \in Nat /\ ~IsStore(nae, gp)
         /\ \A h \in heads : InC(chunk, cur, h) <=> h = gp
<1>1. /\ cur \in InUse /\ First(cur) \in heads /\ InC(chunk, cur, First(cur))
      /\ chunk[cur].size \in Nat
  BY SweptChunk
<1>2. gp = First(cur) /\ pp = 0
  BY DEF HeapInv, SweepAt
<1>3. PICK sz : Heap(InUse, chunk, rsoh, nae, heads, arrays, sz)
  BY DEF HeapInv, HeapGood, Good
<1>4. Tiles(InUse, chunk, heads, sz) /\ UsedApart(InUse, chunk) /\ heads \subseteq Addr
  BY <1>3 DEF Heap, Tiles
<1>5. ASSUME NEW h \in heads, InC(chunk, cur, h) PROVE h = gp
  BY <1>1, <1>2, <1>4, <1>5, FitsChunk DEF FitsIn
<1>6. ~IsStore(nae, gp)
  <2> SUFFICES ASSUME NEW t \in Types, nae[t].store_left > 0, nae[t].store = gp PROVE FALSE
    BY DEF IsStore
  <2>1. /\ nae[t].store_chunk \in InUse /\ chunk[nae[t].store_chunk].size <= RSOC_SIZE
        /\ InC(chunk, nae[t].store_chunk, nae[t].store)
    BY <1>3, StoreAt
  <2>2. nae[t].store_chunk = cur
    BY <1>1, <1>2, <1>4, <2>1, OneChunk
  <2> QED
    BY <1>1, <2>1, <2>2, RsoAssumption
<1> QED
  BY <1>1, <1>2, <1>4, <1>5, <1>6, AddrNat

(* The stores stay behind the sweep, and the arrays with their marks.      *)
PassedStays == \A h \in heads : Passed(h) => Passed(h)'

LEMMA StoresStay ==
  ASSUME TableInv, HeapInv, pc = "sweep", pc' \in {"sweep", "link"}, UNCHANGED <<gcmt, p1, nae>>,
         chunk'[cur].size = chunk[cur].size, PassedStays
  PROVE  StoresPassed'
<1>1. pc \in Sweeping
  BY DEF Sweeping
<1>2. StoresPassed /\ Good(InUse, chunk, rsoh, nae, heads, arrays)
  BY <1>1, SweepFacts
<1>3. PICK sz : Heap(InUse, chunk, rsoh, nae, heads, arrays, sz)
  BY <1>2 DEF Good
<1>4. \A c \in InUse : Done(c) => Done(c)'
  <2>1. \A c \in InUse : c \in Nat
    BY MemAddr, AddrNat DEF InUse, UsedIn
  <2> QED
    BY <2>1, SweepPlace
<1>5. /\ \A t \in Types : nae[t].store_left > 0 => nae[t].store \in heads
      /\ \A t \in Types : \A c \in Mem(nae[t].chunk_list) : c \in InUse
  BY <1>3 DEF Heap, Stores, StoreIn, ChunksOf
<1>6. \A t \in Types : /\ nae[t].store_left > 0 => (\A h : h = nae[t].store => Passed(h)')
                       /\ nae[t].store_chunk # 0 => nae[t].store_left > 0
                       /\ \A c \in Mem(nae[t].chunk_list) : Done(c)'
  BY <1>2, <1>4, <1>5 DEF StoresPassed, PassedStays
<1>7. (\A t \in Types : /\ nae[t].store_left > 0 => Passed(nae[t].store)
                        /\ nae[t].store_chunk # 0 => nae[t].store_left > 0
                        /\ \A c \in Mem(nae[t].chunk_list) : Done(c))'
  BY <1>6 DEF Passed, Done, Mem
<1> QED
  BY <1>7 DEF StoresPassed

ArraysStay ==
  /\ StartsOf(arrays') \subseteq StartsOf(arrays) /\ Roots \subseteq StartsOf(arrays')
  /\ \A h \in StartsOf(arrays') : rsoh'[h] = rsoh[h] /\ (Passed(h)' <=> Passed(h))
LEMMA SweepOn ==
  ASSUME HeapInv, pc = "sweep", pc' \in {"sweep", "link"}, UNCHANGED <<word, live, attr, req>>,
         HeapGood', Blocks(rsoh'), Envs(nae'), \A t \in Types : Valid(rsoh', nae', t),
         ArraysStay, StoresPassed', SweepAt'
  PROVE  HeapInv'
<1>1. pc \in Sweeping /\ pc' \in Sweeping
  BY DEF Sweeping
<1>2. /\ \A h \in StartsOf(arrays) : IsMarked(h) => h \in Held
      /\ \A h \in Roots : IsMarked(h) \/ Passed(h)
      /\ \A h \in StartsOf(arrays) : Passed(h) => ~IsMarked(h) /\ h \in Held
  BY <1>1, SweepFacts
<1>3. \A h \in StartsOf(arrays') : IsMarked(h)' <=> IsMarked(h)
  BY DEF ArraysStay, IsMarked
<1>4. Roots \subseteq StartsOf(arrays')
  BY DEF ArraysStay
<1>5. \A h \in StartsOf(arrays') : IsMarked(h)' => h \in Held
  BY <1>2, <1>3 DEF ArraysStay
<1>6. \A h \in Roots : IsMarked(h)' \/ Passed(h)'
  BY <1>2, <1>3, <1>4 DEF ArraysStay
<1>7. \A h \in StartsOf(arrays') : Passed(h)' => ~IsMarked(h)' /\ h \in Held
  BY <1>2, <1>3 DEF ArraysStay
<1>8. /\ UNCHANGED <<word, live, attr, req>>
      /\ \A t \in Types : Valid(rsoh', nae', t)
  OBVIOUS
<1> QED
  BY <1>1, <1>4, <1>5, <1>6, <1>7, <1>8, SweepStep

(* A marked array is met: its mark is reset, and it is kept.               *)
GpPassed == \A h \in heads : Passed(h)' <=> Passed(h) \/ h = gp

LEMMA Unmarking ==
  ASSUME TableInv, HeapInv, pc = "sweep", pc' \in {"sweep", "link"}, gp \in heads, ~IsStore(nae, gp),
         IsMarked(gp), rsoh' = Unmarked(gp), GpPassed, SweepAt', InC(chunk, cur, gp), pc' = "sweep" => gp < gp',
         UNCHANGED <<gcmt, p1, chunk, nae, word, live, attr, req, heads, arrays>>
  PROVE  HeapInv' /\ (Compact => Compact')
<1>1. pc \in Sweeping /\ pc' \in Sweeping
  BY DEF Sweeping
<1>2. /\ Good(InUse, chunk, rsoh, nae, heads, arrays) /\ Blocks(rsoh) /\ Envs(nae)
      /\ \A t \in Types : Valid(rsoh, nae, t)
      /\ Roots \subseteq StartsOf(arrays)
      /\ \A h \in StartsOf(arrays) : IsMarked(h) => h \in Held
      /\ \A h \in Roots : IsMarked(h) \/ Passed(h)
      /\ \A h \in StartsOf(arrays) : Passed(h) => ~IsMarked(h) /\ h \in Held
      /\ StoresPassed
  BY <1>1, SweepFacts
<1>3. PICK sz : Heap(InUse, chunk, rsoh, nae, heads, arrays, sz)
  BY <1>2 DEF Good
<1>4. heads \subseteq Addr /\ StartsOf(arrays) \subseteq heads /\ InUse \subseteq Addr
  BY <1>3, MemAddr DEF Heap, Tiles, Contents, StartsOf, InUse, UsedIn
<1>5. gp \in StartsOf(arrays)
  BY <1>3 DEF Heap, Contents, IsMarked, MARKED, FREE
<1>6. PutBlock(rsoh, rsoh', gp, rsoh[gp].size, UNMARKED)
  <2>1. rsoh' = [rsoh EXCEPT ![gp].flag = UNMARKED]
    BY DEF Unmarked
  <2> QED
    BY <1>2, <1>4, <2>1, FlagPut
<1>7. Blocks(rsoh') /\ OnlyBlock(rsoh, rsoh', gp) /\ rsoh'[gp] = Block(rsoh[gp].size, UNMARKED)
  BY <1>6 DEF PutBlock
<1>8. rsoh'[gp].size = rsoh[gp].size /\ rsoh'[gp].flag = UNMARKED
  BY <1>7, BlockFields
<1>9. \A h \in heads : h # gp => rsoh'[h] = rsoh[h]
  BY <1>4, <1>7 DEF OnlyBlock
<1>10. HeapGood'
  <2>0. \A h \in StartsOf(arrays) : rsoh[h].flag \in {UNMARKED, MARKED}
    BY <1>3 DEF Heap, Contents, StartsOf
  <2>1. MarksOnly(rsoh, rsoh', heads, arrays)
    BY <1>5, <1>8, <1>9, <2>0 DEF MarksOnly
  <2>2. Good(InUse, chunk, rsoh', nae, heads, arrays)
    BY <1>2, <2>1, HeapMarks
  <2> QED
    BY <2>2, GoodNext DEF InUse
<1>11. \A h \in heads : IsMarked(h)' <=> IsMarked(h) /\ h # gp
  BY <1>8, <1>9 DEF IsMarked, MARKED, UNMARKED
<1>12. \A t \in Types : Valid(rsoh', nae', t)
  <2>1. ASSUME NEW t \in Types, nae[t].store_left > 0 PROVE nae[t].store \in heads /\ nae[t].store # gp
    BY <1>3, <2>1, StoreAt DEF IsStore
  <2> QED
    BY <1>2, <1>9, <2>1 DEF Valid
<1>13. Envs(nae') /\ Roots \subseteq StartsOf(arrays')
  BY <1>2
<1>14. \A h \in StartsOf(arrays') : IsMarked(h)' => h \in Held
  BY <1>2, <1>4, <1>11
<1>15. \A h \in Roots : IsMarked(h)' \/ Passed(h)'
  BY <1>2, <1>4, <1>11 DEF GpPassed
<1>16. \A h \in StartsOf(arrays') : Passed(h)' => ~IsMarked(h)' /\ h \in Held
  BY <1>2, <1>4, <1>5, <1>11 DEF GpPassed
<1>17. StoresPassed'
  <2>1. PassedStays
    BY DEF PassedStays, GpPassed
  <2> QED
    BY <2>1, StoresStay
<1>18. UNCHANGED <<word, live, attr, req>>
  OBVIOUS
<1>19. ASSUME Compact PROVE Compact'
  <2>1. FreeHeads' = FreeHeads /\ gp \notin FreeHeads /\ gp \in Nat /\ InUse' = InUse
    BY <1>4, <1>5, AddrNat DEF FreeHeads, StartsOf, InUse
  <2>2. \A h \in FreeHeads' : Passed(h)' => h < gp
    <3>1. \A h : Passed(h) <=> h < gp
      BY DEF Passed
    <3> QED
      BY <2>1, <3>1 DEF GpPassed, FreeHeads
  <2>3. \A h \in heads : rsoh'[h].size = rsoh[h].size
    BY <1>8, <1>9
  <2>4. RunsApart /\ RunsApart'
    BY <1>1, <1>19, <2>1, <2>2, <2>3, RunsOn DEF Compact
  <2>5. ChunksKept
    BY <1>5, <2>1 DEF ChunksKept
  <2> QED
    BY <1>19, <2>4, <2>5, CompactOn
<1> QED
  BY <1>1, <1>7, <1>10, <1>12, <1>13, <1>14, <1>15, <1>16, <1>17, <1>18, <1>19, SweepStep

StateSet(ck, ck2, c, s) == ck2 = [ck EXCEPT ![c].state = s]
LEMMA StateAssign ==
  ASSUME NEW ck, Shape(ck), NEW c \in Addr, NEW s, NEW ck2, StateSet(ck, ck2, c, s)
  PROVE  /\ ck2[c] = Header(s, ck[c].size, ck[c].isize, ck[c].nae, ck[c].flol)
         /\ \A a \in Addr : a # c => ck2[a] = ck[a]
BY StateChanged DEF StateSet

(* A large chunk whose array is not marked is free.                        *)
LEMMA SweepLargeInv == ASSUME TableInv, HeapInv, SweepLarge PROVE HeapInv' /\ (Compact => Compact')
<1>1. /\ pc = "sweep" /\ chunk[cur].size > RSOC_SIZE /\ pc' = "link"
      /\ UNCHANGED <<gcmt, p1, nae, word, live, attr, req>>
  BY DEF SweepLarge, sweepRest, progVars
<1>2. /\ cur \in InUse /\ cur \in Addr /\ cur \in Nat /\ First(cur) \in Nat /\ cur < First(cur)
      /\ ChunkEnd(chunk, cur) = End(cur) /\ ChunkEnd(chunk, cur) \in Nat
      /\ First(cur) \in heads /\ InC(chunk, cur, First(cur))
  BY <1>1, SweptChunk
<1>3. /\ gp = First(cur) /\ pp = 0 /\ gp \in heads /\ gp \in Addr /\ gp \in Nat /\ ~IsStore(nae, gp)
      /\ \A h \in heads : InC(chunk, cur, h) <=> h = gp
  BY <1>1, LargeAlone
<1>4. SweepAt'
  BY <1>1 DEF SweepAt
<1>5. CASE rsoh[gp].flag = MARKED
  <2>1. rsoh' = Unmarked(gp) /\ UNCHANGED <<chunk, arrays, heads>>
    BY <1>5 DEF SweepLarge
  <2>2. GpPassed
    <3>1. \A h \in heads : (Passed(h) <=> h < gp) /\ (Passed(h)' <=> h < ChunkEnd(chunk, cur))
      BY <1>1, <2>1, SweepPlace
    <3>2. \A h \in heads : /\ h \in Nat
                           /\ InC(chunk, cur, h) \/ h < cur \/ ChunkEnd(chunk, cur) < h
                           /\ InC(chunk, cur, h) => First(cur) <= h /\ h < ChunkEnd(chunk, cur) /\ cur < h
      BY <1>1, HeadsAround
    <3> QED
      BY <1>2, <1>3, <3>1, <3>2 DEF GpPassed, InC
  <2>3. IsMarked(gp)
    BY <1>5 DEF IsMarked
  <2> QED
    BY <1>1, <1>2, <1>3, <1>4, <2>1, <2>2, <2>3, Unmarking
<1>6. CASE rsoh[gp].flag # MARKED
  <2>1. /\ chunk' = [chunk EXCEPT ![cur].state = "free"] /\ arrays' = Without(gp)
        /\ heads' = heads \ InChunk(cur) /\ rsoh' = rsoh
    BY <1>6 DEF SweepLarge
  <2>2. /\ Good(InUse, chunk, rsoh, nae, heads, arrays) /\ Blocks(rsoh) /\ Envs(nae)
        /\ \A t \in Types : Valid(rsoh, nae, t)
        /\ Roots \subseteq StartsOf(arrays)
        /\ \A h \in Roots : IsMarked(h) \/ Passed(h)
        /\ StoresPassed
    BY <1>1, SweepFacts DEF Sweeping
  <2>3. PICK sz : Heap(InUse, chunk, rsoh, nae, heads, arrays, sz)
    BY <2>2 DEF Good
  <2>4. /\ chunk'[cur] = Header("free", chunk[cur].size, chunk[cur].isize, chunk[cur].nae, chunk[cur].flol)
        /\ \A a \in Addr : a # cur => chunk'[a] = chunk[a]
    <3>1. Shape(chunk) /\ StateSet(chunk, chunk', cur, "free")
      BY <2>1 DEF TableInv, StateSet
    <3> QED
      BY <1>2, <3>1, StateAssign
  <2>5. chunk'[cur].state = "free" /\ chunk'[cur].size = chunk[cur].size
    BY <2>4 DEF Header
  <2>6. UsedIn(Mem(gcmt'), chunk') = InUse \ {cur} /\ SameChunks2(InUse \ {cur}, chunk, chunk')
    BY <1>1, <2>4, <2>5, MemAddr DEF InUse, UsedIn, SameChunks2
  <2>7. Unknown(nae, cur)
    <3> SUFFICES ASSUME NEW t \in Types
                 PROVE  nae[t].store_chunk # cur /\ cur \notin Mem(nae[t].chunk_list)
      BY DEF Unknown
    <3>1. ASSUME nae[t].store_chunk = cur PROVE FALSE
      <4>1. nae[t].store_chunk # 0
        BY <1>2, <3>1, AddrNat
      <4>2. nae[t].store_left > 0
        BY <2>2, <4>1 DEF StoresPassed
      <4>3. chunk[nae[t].store_chunk].size <= RSOC_SIZE
        BY <2>3, <4>2, StoreAt
      <4> QED
        BY <1>1, <3>1, <4>3, SweptChunk, RsoAssumption
    <3>2. ASSUME cur \in Mem(nae[t].chunk_list) PROVE FALSE
      <4>1. Done(cur)
        BY <2>2, <3>2 DEF StoresPassed
      <4> QED
        BY <1>1, <1>2, <4>1 DEF Done
    <3> QED
      BY <3>1, <3>2
  <2>8. Good(InUse \ {cur}, chunk', rsoh, nae, HeadsOut(chunk, cur, heads), ArraysOut(chunk, cur, arrays))
    BY <1>2, <2>2, <2>6, <2>7, ChunkGone
  <2>9. heads' = HeadsOut(chunk, cur, heads)
    <3>1. \A h \in heads : /\ h \in Nat
                           /\ InC(chunk, cur, h) \/ h < cur \/ ChunkEnd(chunk, cur) < h
                           /\ InC(chunk, cur, h) => First(cur) <= h /\ h < ChunkEnd(chunk, cur) /\ cur < h
      BY <1>1, HeadsAround
    <3> QED
      BY <1>2, <2>1, <3>1 DEF HeadsOut, InChunk
  <2>10. arrays' = ArraysOut(chunk, cur, arrays)
    <3>1. \A a \in arrays : a[1] \in heads
      BY <2>3 DEF Heap, Contents
    <3> QED
      BY <1>3, <2>1, <3>1 DEF ArraysOut, Without
  <2>11. HeapGood'
    BY <2>1, <2>6, <2>8, <2>9, <2>10, <1>1, GoodNext
  <2>12. \A h \in heads : h # gp => (Passed(h)' <=> Passed(h))
    <3>1. \A h \in heads : (Passed(h) <=> h < gp) /\ (Passed(h)' <=> h < ChunkEnd(chunk, cur))
      BY <1>1, <2>5, SweepPlace
    <3>2. \A h \in heads : /\ h \in Nat
                           /\ InC(chunk, cur, h) \/ h < cur \/ ChunkEnd(chunk, cur) < h
                           /\ InC(chunk, cur, h) => First(cur) <= h /\ h < ChunkEnd(chunk, cur) /\ cur < h
      BY <1>1, HeadsAround
    <3> QED
      BY <1>2, <1>3, <3>1, <3>2 DEF InC
  <2>13. StoresPassed'
    <3>1. \A h \in heads : (Passed(h) <=> h < gp) /\ (Passed(h)' <=> h < ChunkEnd(chunk, cur))
      BY <1>1, <2>5, SweepPlace
    <3>2. PassedStays
      BY <1>3, <2>12, <3>1 DEF PassedStays
    <3> QED
      BY <1>1, <2>5, <3>2, StoresStay
  <2>14. ArraysStay
    <3>1. StartsOf(arrays') = StartsOf(arrays) \ {gp}
      <4>1. arrays' = ArraysBut(arrays, gp)
        BY <2>1 DEF Without, ArraysBut
      <4> QED
        BY <4>1, StartsBut
    <3>2. StartsOf(arrays) \subseteq heads
      BY <2>3 DEF Heap, Contents, StartsOf
    <3>3. gp \notin Roots
      BY <1>1, <1>3, <1>6, <2>2 DEF IsMarked, Passed
    <3> QED
      BY <2>1, <2>2, <2>12, <3>1, <3>2, <3>3 DEF ArraysStay
  <2>15. Blocks(rsoh') /\ Envs(nae') /\ \A t \in Types : Valid(rsoh', nae', t)
    BY <1>1, <2>1, <2>2
  <2>16. ASSUME Compact PROVE Compact'
    <3>1. StartsOf(arrays') = StartsOf(arrays) \ {gp} /\ gp \notin heads' /\ heads' \subseteq heads
      <4>1. arrays' = ArraysBut(arrays, gp)
        BY <2>1 DEF Without, ArraysBut
      <4> QED
        BY <1>3, <2>1, <2>9, <4>1, StartsBut DEF HeadsOut
    <3>2. FreeHeads' \subseteq FreeHeads /\ gp \notin FreeHeads' /\ (\A h \in FreeHeads' : Passed(h)' => h < gp)
      <4>1. \A h : Passed(h) <=> h < gp
        BY <1>1 DEF Passed
      <4> QED
        BY <2>12, <3>1, <4>1 DEF FreeHeads, StartsOf
    <3>3. RunsApart /\ RunsApart'
      BY <1>1, <1>3, <2>1, <2>16, <3>2, RunsOn DEF Compact, Sweeping
    <3>4. ChunksKept
      BY <1>1, <1>2, <1>3, <2>4, <2>5, <2>6, <3>1, InUseFacts DEF ChunksKept, InUse
    <3> QED
      BY <1>1, <2>16, <3>3, <3>4, CompactOn
  <2> QED
    BY <1>1, <1>4, <2>11, <2>13, <2>14, <2>15, <2>16, SweepOn
<1> QED
  BY <1>5, <1>6
-----------------------------------------------------------------------------
(* rsoc_sweep goes through the blocks of a chunk.                          *)
BlockAt(h) ==
  /\ h \in heads /\ InC(chunk, cur, h) /\ h \in Addr /\ h \in Nat /\ ~IsStore(nae, h)
  /\ rsoh[h].size \in Nat /\ rsoh[h].size > 1
  /\ h + rsoh[h].size <= ChunkEnd(chunk, cur)
  /\ h + rsoh[h].size < ChunkEnd(chunk, cur) => h + rsoh[h].size \in heads /\ InC(chunk, cur, h + rsoh[h].size)
  /\ \A g \in heads : h < g => h + rsoh[h].size <= g

(* The blocks from gp on are no store.                                     *)
LEMMA BlockFrom ==
  ASSUME TableInv, HeapInv, pc = "sweep", chunk[cur].size <= RSOC_SIZE, gp \in Nat,
         NEW h \in heads, InC(chunk, cur, h), gp <= h
  PROVE  BlockAt(h)
<1>1. cur \in InUse /\ ChunkEnd(chunk, cur) \in Nat
  BY SweptChunk
<1>2. StoresPassed /\ Good(InUse, chunk, rsoh, nae, heads, arrays)
  BY SweepFacts DEF Sweeping
<1>3. PICK sz : Heap(InUse, chunk, rsoh, nae, heads, arrays, sz)
  BY <1>2 DEF Good
<1>4. h \in Addr /\ h \in Nat
  BY <1>3, AddrNat DEF Heap, Tiles
<1>5. ~IsStore(nae, h)
  <2> SUFFICES ASSUME NEW t \in Types, nae[t].store_left > 0, nae[t].store = h PROVE FALSE
    BY DEF IsStore
  <2>1. Passed(h)
    BY <1>2 DEF StoresPassed
  <2> QED
    BY <1>4, <2>1 DEF Passed
<1>6. /\ h \in Addr /\ h \in Nat /\ rsoh[h].size \in Nat /\ rsoh[h].size > 1
      /\ h + rsoh[h].size <= ChunkEnd(chunk, cur)
      /\ h + rsoh[h].size \in heads \/ h + rsoh[h].size = ChunkEnd(chunk, cur)
      /\ h + rsoh[h].size \in heads /\ h + rsoh[h].size < ChunkEnd(chunk, cur) => InC(chunk, cur, h + rsoh[h].size)
      /\ \A g \in heads : h < g => h + rsoh[h].size <= g
  BY <1>1, <1>2, <1>5, NextBlock
<1> QED
  BY <1>1, <1>5, <1>6 DEF BlockAt

LEMMA GpBlock ==
  ASSUME TableInv, HeapInv, InBlocks, pp = 0, gp < End(cur)
  PROVE  BlockAt(gp) /\ \A f \in Mem(chunk[cur].flol) : f < gp
<1>1. pc = "sweep" /\ chunk[cur].size <= RSOC_SIZE
  BY DEF InBlocks
<1>2. End(cur) = ChunkEnd(chunk, cur) /\ ChunkEnd(chunk, cur) \in Nat
  BY <1>1, SweptChunk
<1>3. gp \in heads /\ InC(chunk, cur, gp) /\ \A f \in Mem(chunk[cur].flol) : f < gp
  BY <1>1, <1>2 DEF HeapInv, SweepAt
<1>4. gp \in Nat
  BY <1>1, <1>3, HeadsAround
<1> QED
  BY <1>1, <1>3, <1>4, BlockFrom

(* A step within the chunk leaves the stores behind.                       *)
LEMMA StoresBehind ==
  ASSUME TableInv, HeapInv, pc = "sweep", NEW t \in Types, nae[t].store_left > 0
  PROVE  nae[t].store \in heads /\ nae[t].store \in Addr /\ nae[t].store < gp
<1>1. StoresPassed /\ Good(InUse, chunk, rsoh, nae, heads, arrays)
  BY SweepFacts DEF Sweeping
<1>2. PICK sz : Heap(InUse, chunk, rsoh, nae, heads, arrays, sz)
  BY <1>1 DEF Good
<1>3. nae[t].store \in heads /\ nae[t].store \in Addr
  BY <1>2, StoreAt
<1>4. Passed(nae[t].store)
  BY <1>1 DEF StoresPassed
<1> QED
  BY <1>3, <1>4 DEF Passed

LEMMA SweepMarkedInv == ASSUME TableInv, HeapInv, SweepMarked PROVE HeapInv' /\ (Compact => Compact')
<1> DEFINE q == gp + rsoh[gp].size
<1>1. /\ InBlocks /\ pp = 0 /\ gp < End(cur) /\ rsoh[gp].flag = MARKED /\ rsoh' = Unmarked(gp)
      /\ gp' = q /\ pp' = 0 /\ pc' = IF gp' >= End(cur) THEN "link" ELSE "sweep"
      /\ UNCHANGED <<gcmt, p1, chunk, nae, word, live, attr, req, heads, arrays>>
  BY DEF SweepMarked, sweepRest, progVars
<1>2. BlockAt(gp) /\ \A f \in Mem(chunk[cur].flol) : f < gp
  BY <1>1, GpBlock
<1>3. pc = "sweep" /\ chunk[cur].size <= RSOC_SIZE /\ pc' \in {"sweep", "link"}
  BY <1>1 DEF InBlocks
<1>4. End(cur) = ChunkEnd(chunk, cur) /\ ChunkEnd(chunk, cur) \in Nat /\ cur' = cur
  BY <1>1, <1>3, SweptChunk, SweepPlace
<1>5. /\ q \in Nat /\ gp < q /\ q <= ChunkEnd(chunk, cur) /\ gp \in Nat /\ gp \in heads /\ ~IsStore(nae, gp) /\ InC(chunk, cur, gp)
      /\ q < ChunkEnd(chunk, cur) => q \in heads /\ InC(chunk, cur, q)
      /\ \A g \in heads : gp < g => q <= g
  BY <1>2 DEF BlockAt
<1>6. \A h \in heads : h \in Nat
  BY <1>3, HeadsAround
<1> HIDE DEF q
<1>7. GpPassed
  <2>1. \A h \in heads : /\ Passed(h) <=> h < gp
                         /\ pc' = "link" => (Passed(h)' <=> h < ChunkEnd(chunk, cur))
                         /\ pc' = "sweep" => (Passed(h)' <=> h < gp')
    BY <1>1, <1>3, SweepPlace
  <2>2. \A h \in heads : Passed(h)' <=> h < q
    BY <1>1, <1>3, <1>4, <1>5, <2>1
  <2> QED
    BY <1>5, <1>6, <2>1, <2>2 DEF GpPassed
<1>8. SweepAt'
  <2>1. CASE pc' = "link"
    BY <2>1 DEF SweepAt
  <2>2. CASE pc' = "sweep"
    <3>1. q < ChunkEnd(chunk, cur)
      BY <1>1, <1>4, <1>5, <2>2
    <3>2. gp' \in heads' /\ InC(chunk', cur', gp')
      BY <1>1, <1>4, <1>5, <3>1
    <3>3. \A f \in Mem(chunk[cur].flol) : f < q
      <4>1. \A f \in Mem(chunk[cur].flol) : f \in Nat
        <5>1. PICK sz : Heap(InUse, chunk, rsoh, nae, heads, arrays, sz)
          BY DEF HeapInv, HeapGood, Good
        <5>2. cur \in InUse
          BY <1>3, SweptChunk
        <5> QED
          BY <1>6, <5>1, <5>2 DEF Heap, Lists, Listed, FreeBlock
      <4> QED
        BY <1>2, <1>5, <4>1
    <3>4. \A f \in Mem(chunk'[cur'].flol) : f < gp'
      BY <1>1, <1>4, <3>3
    <3> QED
      BY <1>1, <1>3, <1>4, <3>2, <3>4, RsoAssumption, SweptChunk DEF SweepAt
  <2> QED
    BY <1>3, <2>1, <2>2
<1>9. IsMarked(gp)
  BY <1>1 DEF IsMarked
<1> QED
  BY <1>1, <1>3, <1>5, <1>7, <1>8, <1>9, Unmarking

(* An array that is not marked becomes the beginning of a free run.        *)
LEMMA SweepFreeInv == ASSUME TableInv, HeapInv, SweepFree PROVE HeapInv' /\ (Compact => Compact')
<1>1. /\ InBlocks /\ pp = 0 /\ gp < End(cur) /\ rsoh[gp].flag # MARKED
      /\ rsoh' = [rsoh EXCEPT ![gp].flag = FREE] /\ pp' = gp + rsoh[gp].size /\ gp' = gp /\ pc' = pc
      /\ arrays' = Without(gp)
      /\ UNCHANGED <<gcmt, p1, chunk, nae, word, live, attr, req, heads>>
  BY DEF SweepFree, sweepRest, progVars
<1>2. BlockAt(gp) /\ \A f \in Mem(chunk[cur].flol) : f < gp
  BY <1>1, GpBlock
<1>3. pc = "sweep" /\ chunk[cur].size <= RSOC_SIZE /\ pc' = "sweep"
  BY <1>1 DEF InBlocks
<1>4. cur' = cur /\ cur \in InUse /\ chunk[cur].size \in Nat
  BY <1>1, <1>3, SweptChunk, SweepPlace
<1>5. /\ Good(InUse, chunk, rsoh, nae, heads, arrays) /\ Blocks(rsoh) /\ Envs(nae)
      /\ \A t \in Types : Valid(rsoh, nae, t)
      /\ Roots \subseteq StartsOf(arrays)
      /\ \A h \in Roots : IsMarked(h) \/ Passed(h)
  BY <1>3, SweepFacts DEF Sweeping
<1>6. gp \in heads /\ gp \in Addr /\ gp \in Nat /\ InC(chunk, cur, gp) /\ rsoh[gp].size \in Nat
      /\ rsoh[gp].size > 1
  BY <1>2 DEF BlockAt
<1>7. PutBlock(rsoh, rsoh', gp, rsoh[gp].size, FREE)
  BY <1>1, <1>5, <1>6, FlagPut
<1>8. Blocks(rsoh') /\ OnlyBlock(rsoh, rsoh', gp) /\ rsoh'[gp] = Block(rsoh[gp].size, FREE)
  BY <1>7 DEF PutBlock
<1>9. rsoh'[gp].size = rsoh[gp].size /\ rsoh'[gp].flag = FREE
  BY <1>8, BlockFields
<1>10. HeapGood'
  <2>1. Good(InUse, chunk, rsoh', nae, heads, ArraysBut(arrays, gp))
    BY <1>5, <1>6, <1>8, <1>9, ArrayFreed
  <2>2. arrays' = ArraysBut(arrays, gp)
    BY <1>1 DEF Without, ArraysBut
  <2> QED
    BY <1>1, <2>1, <2>2, GoodNext DEF InUse
<1>11. \A t \in Types : Valid(rsoh', nae', t)
  <2>1. \A t \in Types : nae[t].store_left > 0 => rsoh'[nae[t].store] = rsoh[nae[t].store]
    <3> SUFFICES ASSUME NEW t \in Types, nae[t].store_left > 0
                 PROVE  rsoh'[nae[t].store] = rsoh[nae[t].store]
      OBVIOUS
    <3>1. nae[t].store \in Addr /\ nae[t].store < gp
      BY <1>3, StoresBehind
    <3>2. nae[t].store # gp
      BY <1>6, <3>1, AddrNat
    <3> QED
      BY <1>8, <3>1, <3>2 DEF OnlyBlock
  <2> QED
    BY <1>1, <1>5, <2>1 DEF Valid
<1>12. \A h : Passed(h)' <=> Passed(h)
  BY <1>1, <1>3 DEF Passed
<1>13. StoresPassed'
  <2>1. PassedStays
    BY <1>12 DEF PassedStays
  <2> QED
    BY <1>1, <1>3, <2>1, StoresStay
<1>14. StartsOf(arrays') = StartsOf(arrays) \ {gp}
  <2>1. arrays' = ArraysBut(arrays, gp)
    BY <1>1 DEF Without, ArraysBut
  <2> QED
    BY <2>1, StartsBut
<1>15. ArraysStay
  <2>1. StartsOf(arrays) \subseteq Addr
    <3>1. PICK sz : Heap(InUse, chunk, rsoh, nae, heads, arrays, sz)
      BY <1>5 DEF Good
    <3> QED
      BY <3>1 DEF Heap, Tiles, Contents, StartsOf
  <2>2. gp \notin Roots
    BY <1>1, <1>3, <1>5, <1>6 DEF IsMarked, Passed
  <2> QED
    BY <1>5, <1>8, <1>12, <1>14, <2>1, <2>2 DEF ArraysStay, OnlyBlock
<1>16. SweepAt'
  <2>1. gp' \in heads' /\ InC(chunk', cur', gp') /\ gp' \notin StartsOf(arrays') /\ pp' = gp' + rsoh'[gp'].size
    BY <1>1, <1>4, <1>6, <1>9, <1>14
  <2>2. pp' # 0 /\ chunk'[cur'].size <= RSOC_SIZE /\ \A f \in Mem(chunk'[cur'].flol) : f < gp'
    BY <1>1, <1>2, <1>3, <1>4, <1>6
  <2>3. (StartsOf(arrays))' = StartsOf(arrays')
    BY DEF StartsOf
  <2> QED
    BY <1>4, <1>1, <2>1, <2>2, <2>3, RsoAssumption DEF SweepAt
<1>17. ASSUME Compact PROVE Compact'
  <2>1. /\ FreeHeads' \subseteq FreeHeads \cup {gp} /\ InUse' = InUse /\ ~IsMarked(gp)
        /\ \A h : Passed(h) <=> h < gp
    BY <1>1, <1>3, <1>14 DEF FreeHeads, StartsOf, InUse, IsMarked, Passed
  <2>2. \A h \in heads : h < gp => rsoh'[h].size = rsoh[h].size
    <3>1. heads \subseteq Addr
      BY <1>3, HeadsAround
    <3> QED
      BY <1>6, <1>8, <3>1, AddrNat DEF OnlyBlock
  <2>3. RunsApart /\ RunsApart'
    BY <1>1, <1>3, <1>6, <1>12, <1>17, <2>1, <2>2, RunsOn DEF Compact, Sweeping
  <2>4. ChunksKept
    BY <1>1, <1>3, <1>6, <1>14, <2>1 DEF ChunksKept
  <2> QED
    BY <1>1, <1>3, <1>17, <2>3, <2>4, CompactOn
<1> QED
  BY <1>1, <1>3, <1>5, <1>8, <1>10, <1>11, <1>13, <1>15, <1>16, <1>17, SweepOn

(* The free run, and the block behind it.                                  *)
LEMMA RunBlock ==
  ASSUME TableInv, HeapInv, InBlocks, pp # 0
  PROVE  /\ BlockAt(gp) /\ pp = gp + rsoh[gp].size /\ \A f \in Mem(chunk[cur].flol) : f < gp
         /\ gp \notin StartsOf(arrays) /\ rsoh[gp].flag = FREE
         /\ pp < ChunkEnd(chunk, cur) => BlockAt(pp)
<1>1. pc = "sweep" /\ chunk[cur].size <= RSOC_SIZE
  BY DEF InBlocks
<1>2. /\ gp \in heads /\ InC(chunk, cur, gp) /\ gp \notin StartsOf(arrays) /\ pp = gp + rsoh[gp].size
      /\ \A f \in Mem(chunk[cur].flol) : f < gp
  BY <1>1 DEF HeapInv, SweepAt
<1>3. gp \in Nat
  BY <1>1, <1>2, HeadsAround
<1>4. BlockAt(gp)
  BY <1>1, <1>2, <1>3, BlockFrom
<1>5. rsoh[gp].flag = FREE
  <2>1. PICK sz : Heap(InUse, chunk, rsoh, nae, heads, arrays, sz)
    BY DEF HeapInv, HeapGood, Good
  <2> QED
    BY <1>2, <1>4, <2>1 DEF Heap, Contents, BlockAt
<1>6. pp < ChunkEnd(chunk, cur) => BlockAt(pp)
  <2> SUFFICES ASSUME pp < ChunkEnd(chunk, cur) PROVE BlockAt(pp)
    OBVIOUS
  <2>1. pp \in heads /\ InC(chunk, cur, pp) /\ gp <= pp
    BY <1>2, <1>3, <1>4 DEF BlockAt
  <2> QED
    BY <1>1, <1>3, <2>1, BlockFrom
<1> QED
  BY <1>2, <1>4, <1>5, <1>6

(* The free run grows by the block behind it.                              *)
LEMMA CoalesceInv == ASSUME TableInv, HeapInv, Coalesce PROVE HeapInv' /\ (Compact => Compact')
<1>1. /\ InBlocks /\ pp # 0 /\ pp < End(cur) /\ rsoh[pp].flag # MARKED
      /\ rsoh' = [rsoh EXCEPT ![gp].size = rsoh[gp].size + rsoh[pp].size]
      /\ pp' = pp + rsoh[pp].size /\ gp' = gp /\ pc' = pc
      /\ arrays' = Without(pp) /\ heads' = heads \ {pp}
      /\ UNCHANGED <<gcmt, p1, chunk, nae, word, live, attr, req>>
  BY DEF Coalesce, Coalesces, sweepRest, progVars
<1>2. pc = "sweep" /\ chunk[cur].size <= RSOC_SIZE /\ pc' = "sweep"
  BY <1>1 DEF InBlocks
<1>3. cur' = cur /\ cur \in InUse /\ chunk[cur].size \in Nat /\ End(cur) = ChunkEnd(chunk, cur)
  BY <1>1, <1>2, SweptChunk, SweepPlace
<1>4. /\ BlockAt(gp) /\ pp = gp + rsoh[gp].size /\ \A f \in Mem(chunk[cur].flol) : f < gp
      /\ gp \notin StartsOf(arrays) /\ rsoh[gp].flag = FREE /\ BlockAt(pp)
  BY <1>1, <1>3, RunBlock
<1>5. /\ Good(InUse, chunk, rsoh, nae, heads, arrays) /\ Blocks(rsoh) /\ Envs(nae)
      /\ \A t \in Types : Valid(rsoh, nae, t)
      /\ Roots \subseteq StartsOf(arrays)
      /\ \A h \in Roots : IsMarked(h) \/ Passed(h)
  BY <1>2, SweepFacts DEF Sweeping
<1>6. /\ gp \in heads /\ gp \in Addr /\ gp \in Nat /\ InC(chunk, cur, gp) /\ rsoh[gp].size \in Nat
      /\ rsoh[gp].size > 1 /\ ~IsStore(nae, gp)
  BY <1>4 DEF BlockAt
<1>7. /\ pp \in heads /\ pp \in Addr /\ pp \in Nat /\ rsoh[pp].size \in Nat /\ ~IsStore(nae, pp)
      /\ pp # gp /\ gp < pp
  BY <1>4, <1>6 DEF BlockAt
<1> DEFINE n == rsoh[gp].size + rsoh[pp].size
<1>8. PutBlock(rsoh, rsoh', gp, n, rsoh[gp].flag)
  <2> HIDE DEF n
  <2>1. rsoh' = [rsoh EXCEPT ![gp].size = n]
    BY <1>1 DEF n
  <2> QED
    BY <1>5, <1>6, <2>1, SizePut
<1>9. Blocks(rsoh') /\ OnlyBlock(rsoh, rsoh', gp) /\ rsoh'[gp] = Block(n, rsoh[gp].flag)
  BY <1>8 DEF PutBlock
<1>10. rsoh'[gp].size = rsoh[gp].size + rsoh[pp].size /\ rsoh'[gp].flag = rsoh[gp].flag
  BY <1>9, BlockFields
<1>11. arrays' = ArraysBut(arrays, pp)
  BY <1>1 DEF Without, ArraysBut
<1>12. HeapGood'
  <2>1. FreeBlock(nae, heads, arrays, gp)
    BY <1>4, <1>6 DEF FreeBlock
  <2>2. pp \notin Mem(chunk[cur].flol)
    BY <1>4, <1>6, <1>7
  <2>3. pp = gp + rsoh[gp].size /\ pp < ChunkEnd(chunk, cur)
    BY <1>1, <1>3, <1>4
  <2>4. Good(InUse, chunk, rsoh', nae, heads \ {pp}, ArraysBut(arrays, pp))
    BY <1>2, <1>3, <1>5, <1>6, <1>7, <1>9, <1>10, <2>1, <2>2, <2>3, Joined
  <2> QED
    BY <1>1, <1>11, <2>4, GoodNext DEF InUse
<1>13. \A t \in Types : Valid(rsoh', nae', t)
  <2>1. \A t \in Types : nae[t].store_left > 0 => rsoh'[nae[t].store] = rsoh[nae[t].store]
    <3> SUFFICES ASSUME NEW t \in Types, nae[t].store_left > 0
                 PROVE  rsoh'[nae[t].store] = rsoh[nae[t].store]
      OBVIOUS
    <3>1. nae[t].store \in Addr /\ nae[t].store < gp
      BY <1>2, StoresBehind
    <3>2. nae[t].store # gp
      BY <1>6, <3>1, AddrNat
    <3> QED
      BY <1>9, <3>1, <3>2 DEF OnlyBlock
  <2> QED
    BY <1>1, <1>5, <2>1 DEF Valid
<1>14. \A h : Passed(h)' <=> Passed(h)
  BY <1>1, <1>2 DEF Passed
<1>15. StoresPassed'
  <2>1. PassedStays
    BY <1>14 DEF PassedStays
  <2> QED
    BY <1>1, <1>2, <2>1, StoresStay
<1>16. StartsOf(arrays') = StartsOf(arrays) \ {pp}
  BY <1>11, StartsBut
<1>17. ArraysStay
  <2>1. StartsOf(arrays) \subseteq Addr
    <3>1. PICK sz : Heap(InUse, chunk, rsoh, nae, heads, arrays, sz)
      BY <1>5 DEF Good
    <3> QED
      BY <3>1 DEF Heap, Tiles, Contents, StartsOf
  <2>2. pp \notin Roots
    BY <1>1, <1>2, <1>5, <1>6, <1>7 DEF IsMarked, Passed
  <2> QED
    BY <1>4, <1>5, <1>9, <1>14, <1>16, <2>1, <2>2 DEF ArraysStay, OnlyBlock
<1>18. SweepAt'
  <2>1. gp' \in heads' /\ InC(chunk', cur', gp') /\ gp' \notin StartsOf(arrays') /\ pp' = gp' + rsoh'[gp'].size
    BY <1>1, <1>3, <1>4, <1>6, <1>7, <1>10, <1>16
  <2>2. pp' # 0 /\ chunk'[cur'].size <= RSOC_SIZE /\ \A f \in Mem(chunk'[cur'].flol) : f < gp'
    BY <1>1, <1>2, <1>3, <1>4, <1>6, <1>7
  <2>3. (StartsOf(arrays))' = StartsOf(arrays')
    BY DEF StartsOf
  <2> QED
    BY <1>3, <1>1, <2>1, <2>2, <2>3, RsoAssumption DEF SweepAt
<1>19. ASSUME Compact PROVE Compact'
  <2>1. /\ FreeHeads' \subseteq FreeHeads /\ InUse' = InUse /\ ~IsMarked(gp)
        /\ \A h : Passed(h) <=> h < gp
    BY <1>1, <1>2, <1>4, <1>16 DEF FreeHeads, StartsOf, InUse, IsMarked, Passed, FREE, MARKED
  <2>2. \A h \in heads : h < gp => rsoh'[h].size = rsoh[h].size
    <3>1. heads \subseteq Addr
      BY <1>2, HeadsAround
    <3> QED
      BY <1>6, <1>9, <3>1, AddrNat DEF OnlyBlock
  <2>3. RunsApart /\ RunsApart'
    BY <1>1, <1>2, <1>6, <1>14, <1>19, <2>1, <2>2, RunsOn DEF Compact, Sweeping
  <2>4. ChunksKept
    BY <1>1, <1>2, <1>4, <1>16, <2>1 DEF ChunksKept, BlockAt
  <2> QED
    BY <1>1, <1>2, <1>19, <2>3, <2>4, CompactOn
<1> QED
  BY <1>1, <1>2, <1>5, <1>9, <1>12, <1>13, <1>15, <1>17, <1>18, <1>19, SweepOn

(* The free run ends: it is the store, it is filed or it is forgotten.     *)
FlolBefore(ck, h) == \A f \in Mem(ck[cur].flol) : f < h
StoresBefore(nv, h) ==
  \A t \in Types : /\ nv[t].store_left > 0 => nv[t].store < h
                   /\ nv[t].store_chunk # 0 => nv[t].store_left > 0
                   /\ nv[t].chunk_list = nae[t].chunk_list

LEMMA RunClosed ==
  ASSUME TableInv, HeapInv, InBlocks, pp # 0, gp' = pp, pp' = 0, pc' = pc, ~Coalesces(pp), SameChunksInUse,
         UNCHANGED <<gcmt, p1, rsoh, word, live, attr, req, heads, arrays>>,
         HeapGood', chunk'[cur].size = chunk[cur].size, FlolBefore(chunk', pp),
         Envs(nae'), \A t \in Types : Valid(rsoh', nae', t), StoresBefore(nae', pp)
  PROVE  HeapInv' /\ (Compact => Compact')
<1>1. pc = "sweep" /\ chunk[cur].size <= RSOC_SIZE /\ pc' = "sweep" /\ pc \in Sweeping
  BY DEF InBlocks, Sweeping
<1>2. cur' = cur /\ cur \in InUse /\ chunk[cur].size \in Nat /\ ChunkEnd(chunk, cur) \in Nat
      /\ ChunkEnd(chunk', cur) = ChunkEnd(chunk, cur)
  BY <1>1, SweptChunk, SweepPlace DEF ChunkEnd
<1>3. /\ BlockAt(gp) /\ pp = gp + rsoh[gp].size
      /\ gp \notin StartsOf(arrays)
      /\ pp < ChunkEnd(chunk, cur) => BlockAt(pp)
  BY <1>1, RunBlock
<1>4. /\ gp \in heads /\ gp \in Nat /\ pp \in Nat /\ gp < pp /\ pp <= ChunkEnd(chunk, cur)
      /\ \A g \in heads : gp < g => pp <= g
  <2>1. BlockAt(gp) /\ pp = gp + rsoh[gp].size
    BY <1>3
  <2> QED
    BY <2>1 DEF BlockAt
<1>5. /\ Good(InUse, chunk, rsoh, nae, heads, arrays) /\ Blocks(rsoh)
      /\ Roots \subseteq StartsOf(arrays) /\ StoresPassed
  BY <1>1, SweepFacts
<1>6. PICK sz : Heap(InUse, chunk, rsoh, nae, heads, arrays, sz)
  BY <1>5 DEF Good
<1>7. \A h \in heads : h \in Nat /\ sz[h] \in Nat /\ sz[h] > 1
  BY <1>6, AddrNat DEF Heap, Tiles
<1>8. \A h \in heads : h # gp => (Passed(h)' <=> Passed(h))
  BY <1>1, <1>4, <1>7 DEF Passed
<1>9. \A h \in StartsOf(arrays) : h \in heads /\ h # gp
  <2>1. StartsOf(arrays) \subseteq heads
    BY <1>6 DEF Heap, Contents, StartsOf
  <2> QED
    BY <1>3, <2>1
<1>10. ArraysStay
  BY <1>5, <1>8, <1>9 DEF ArraysStay
<1>11. StoresPassed'
  <2>1. (\A t \in Types : /\ nae[t].store_left > 0 => nae[t].store < gp
                          /\ nae[t].store_chunk # 0 => nae[t].store_left > 0)'
    BY DEF StoresBefore
  <2>2. \A t \in Types : \A c \in Mem(nae[t].chunk_list) : Done(c)'
    <3>1. \A t \in Types : \A c \in Mem(nae[t].chunk_list) : c \in Nat /\ Done(c)
      <4>1. \A t \in Types : \A c \in Mem(nae[t].chunk_list) : c \in InUse
        BY <1>6 DEF Heap, Stores, ChunksOf
      <4>2. \A c \in InUse : c \in Nat
        BY MemAddr, AddrNat DEF InUse, UsedIn
      <4> QED
        BY <1>5, <4>1, <4>2 DEF StoresPassed
    <3> QED
      BY <1>1, <3>1, SweepPlace
  <2>3. \A t \in Types : \A c \in Mem(nae'[t].chunk_list) : Done(c)'
    <3>1. \A t \in Types : nae'[t].chunk_list = nae[t].chunk_list
      BY DEF StoresBefore
    <3> QED
      BY <2>2, <3>1
  <2> QED
    BY <1>1, <2>1, <2>3 DEF StoresPassed, Passed, Done, Mem
<1>12. SweepAt'
  <2>1. FlolBefore(chunk, gp)'
    BY <1>2 DEF FlolBefore
  <2>2. CASE pp < ChunkEnd(chunk, cur)
    <3>1. gp' \in heads' /\ InC(chunk, cur, pp)
      BY <1>3, <2>2 DEF BlockAt
    <3>2. InC(chunk', cur', gp')
      BY <1>2, <3>1 DEF InC
    <3> QED
      BY <1>1, <1>2, <2>1, <3>1, <3>2, RsoAssumption DEF SweepAt, FlolBefore
  <2>3. CASE pp = ChunkEnd(chunk, cur)
    <3>1. ASSUME NEW h \in StartsOf(arrays) PROVE h + rsoh[h].size # ChunkEnd(chunk, cur)
      <4>1. h \in heads /\ h # gp /\ sz[h] = rsoh[h].size
        BY <1>6, <1>9 DEF Heap, Contents, StartsOf
      <4>2. h < gp => h + sz[h] <= gp
        BY <1>4, <1>6, <4>1 DEF Heap, Tiles
      <4> QED
        BY <1>2, <1>4, <1>7, <2>3, <4>1, <4>2
    <3>2. (\A h \in StartsOf(arrays) : h + rsoh[h].size # ChunkEnd(chunk, cur))'
      BY <1>2, <3>1 DEF StartsOf
    <3> QED
      BY <1>1, <1>2, <2>1, <2>3, <3>2, RsoAssumption DEF SweepAt, FlolBefore
  <2> QED
    BY <1>2, <1>4, <2>2, <2>3
<1>13. Blocks(rsoh') /\ pc' \in {"sweep", "link"} /\ UNCHANGED <<word, live, attr, req>>
       /\ \A t \in Types : Valid(rsoh', nae', t)
  BY <1>1, <1>5
<1>14. ASSUME Compact PROVE Compact'
  <2>1. RunsApart /\ FreeHeads' = FreeHeads /\ InUse' = InUse /\ \A h : Passed(h)' <=> h < pp
    BY <1>1, <1>14 DEF Compact, FreeHeads, StartsOf, InUse, Passed, SameChunksInUse
  <2>2. pp \notin FreeHeads /\ (pp \in heads => IsMarked(pp))
    <3>1. CASE pp < ChunkEnd(chunk, cur)
      <4>1. pp \in heads /\ IsMarked(pp) /\ ~IsStore(nae, pp)
        BY <1>1, <1>3, <3>1, SweptChunk DEF Coalesces, IsMarked, BlockAt
      <4> QED
        BY <1>6, <4>1 DEF Heap, Contents, FreeHeads, IsMarked, FREE, MARKED
    <3>2. CASE pp = ChunkEnd(chunk, cur)
      BY <1>1, <1>2, <3>2, HeadsAround, SweptChunk DEF FreeHeads, InC, ChunkEnd
    <3> QED
      BY <1>2, <1>4, <3>1, <3>2
  <2>3. ASSUME NEW h \in FreeHeads, h < pp
        PROVE  Behind(h) \notin FreeHeads /\ (Behind(h) = pp /\ pp \in heads => IsMarked(pp))
    <3>1. CASE h = gp
      BY <1>3, <2>2, <3>1 DEF Behind
    <3>2. CASE h # gp
      <4>1. h \in heads /\ h < gp
        BY <1>4, <1>7, <2>3, <3>2 DEF FreeHeads
      <4>2. Passed(h)
        BY <1>1, <4>1 DEF Passed
      <4> QED
        BY <2>1, <2>2, <2>3, <4>2 DEF RunsApart
    <3> QED
      BY <3>1, <3>2
  <2>4. RunsApart'
    BY <1>1, <2>1, <2>3 DEF RunsApart, Behind, IsMarked
  <2>5. ChunksKept
    BY <1>1, <2>1 DEF ChunksKept, SameChunksInUse
  <2> QED
    BY <1>1, <1>14, <2>4, <2>5, CompactOn
<1> QED
  BY <1>1, <1>10, <1>11, <1>12, <1>13, <1>14, SweepOn

Typed == \A a \in Addr : chunk[a].nae \in Types

(* The chunk of the store, which is filed there, is not the only one that  *)
(* changes: the free run of cur becomes the store.                         *)
FiledIn(ck, ck2, c, h) == ck2 = [ck EXCEPT ![c].flol = Cons(h, ck[c].flol)]
LEMMA FiledFacts ==
  ASSUME NEW ck, Shape(ck), NEW U \in SUBSET Addr, NEW c \in U, NEW h, NEW ck2, FiledIn(ck, ck2, c, h)
  PROVE  /\ OnlyFlol(U, ck, ck2, c) /\ ck2[c].flol = Cons(h, ck[c].flol)
         /\ \A a \in Addr : a # c => ck2[a] = ck[a]
         /\ \A a \in Addr : /\ ck2[a].size = ck[a].size /\ ck2[a].state = ck[a].state
                            /\ ck2[a].nae = ck[a].nae
<1>1. FlolSet(ck, ck2, c, Cons(h, ck[c].flol)) /\ c \in Addr
  BY DEF FiledIn, FlolSet
<1>2. /\ ck2[c] = Header(ck[c].state, ck[c].size, ck[c].isize, ck[c].nae, Cons(h, ck[c].flol))
      /\ \A a \in Addr : a # c => ck2[a] = ck[a]
  <2> DEFINE f == Cons(h, ck[c].flol)
  <2>1. FlolSet(ck, ck2, c, f)
    BY <1>1
  <2> HIDE DEF f
  <2>2. /\ ck2[c] = Header(ck[c].state, ck[c].size, ck[c].isize, ck[c].nae, f)
        /\ \A a \in Addr : a # c => ck2[a] = ck[a]
    BY <1>1, <2>1, FlolAssign
  <2> QED
    BY <2>2 DEF f
<1>3. /\ ck2[c].state = ck[c].state /\ ck2[c].size = ck[c].size /\ ck2[c].nae = ck[c].nae
      /\ ck2[c].flol = Cons(h, ck[c].flol)
  BY <1>2 DEF Header
<1> QED
  BY <1>2, <1>3 DEF OnlyFlol

LEMMA SameInUse ==
  ASSUME TableInv, gcmt' = gcmt, \A a \in Addr : chunk'[a].state = chunk[a].state
  PROVE  UsedIn(Mem(gcmt'), chunk') = InUse /\ InUse \in SUBSET Addr
BY MemAddr DEF InUse, UsedIn

(* The run at gp becomes the store of t, which has none.                   *)
LEMMA RunTaken ==
  ASSUME TableInv, HeapInv, InBlocks, pp # 0, NEW t \in Types, chunk[cur].nae = t,
         NEW ck, NEW nv, Good(InUse, ck, rsoh, nv, heads, arrays), nv[t].store_left = 0,
         ck[cur].size = chunk[cur].size, ck[cur].nae = t, FlolBefore(ck, gp),
         OnlyEnv(nae, nv, t), Envs(nae), nv[t].chunk_list = nae[t].chunk_list,
         NEW nv2, nv2 = [nae EXCEPT ![t] = Env(rsoh[gp].size, gp, cur, nae[t].chunk_list)]
  PROVE  /\ Good(InUse, ck, rsoh, nv2, heads, arrays) /\ Envs(nv2)
         /\ \A u \in Types : Valid(rsoh, nv2, u)
         /\ StoresBefore(nv2, pp)
<1>1. pc = "sweep" /\ chunk[cur].size <= RSOC_SIZE /\ pc \in Sweeping
  BY DEF InBlocks, Sweeping
<1>2. cur \in InUse /\ cur \in Addr
  BY <1>1, SweptChunk
<1>3. BlockAt(gp) /\ pp = gp + rsoh[gp].size /\ gp \notin StartsOf(arrays) /\ rsoh[gp].flag = FREE
  BY RunBlock
<1>4. /\ gp \in heads /\ gp \in Nat /\ gp \in Addr /\ pp \in Nat /\ gp < pp /\ InC(chunk, cur, gp)
      /\ rsoh[gp].size > 1 /\ ~IsStore(nae, gp)
  BY <1>3 DEF BlockAt
<1> DEFINE n == rsoh[gp].size
           l == nae[t].chunk_list
<1>5. PutEnv(nae, nv2, t, n, gp, cur, l)
  <2> HIDE DEF n, l
  <2>1. nv2 = [nae EXCEPT ![t] = Env(n, gp, cur, l)]
    BY DEF n, l
  <2> QED
    BY <2>1, EnvPut
<1>6. Envs(nv2) /\ OnlyEnv(nae, nv2, t) /\ nv2[t] = Env(n, gp, cur, l)
  BY <1>5 DEF PutEnv
<1>7. /\ nv2[t].store_left = n /\ nv2[t].store = gp /\ nv2[t].store_chunk = cur /\ nv2[t].chunk_list = l
  BY <1>6, EnvFields
<1>8. OnlyEnv(nv, nv2, t)
  BY <1>6 DEF OnlyEnv
<1>9. FreeBlock(nv, heads, arrays, gp)
  BY <1>3, <1>4 DEF FreeBlock, IsStore, OnlyEnv
<1>10. InC(ck, cur, gp) /\ ck[cur].size <= RSOC_SIZE /\ gp \notin Mem(ck[cur].flol)
  BY <1>1, <1>4 DEF InC, ChunkEnd, FlolBefore
<1>11. nv2[t].chunk_list = nv[t].chunk_list /\ nv2[t].store_left = rsoh[gp].size
  BY <1>7
<1>12. Good(InUse, ck, rsoh, nv2, heads, arrays)
  BY <1>2, <1>7, <1>8, <1>9, <1>10, <1>11, StoreTaken
<1>13. \A u \in Types : Valid(rsoh, nv2, u)
  <2>1. \A u \in Types : Valid(rsoh, nae, u)
    BY <1>1, SweepFacts
  <2> QED
    BY <1>3, <1>6, <1>7, <2>1 DEF Valid, OnlyEnv
<1>14. StoresBefore(nv2, pp)
  <2>1. StoresPassed
    BY <1>1, SweepFacts
  <2>2. ASSUME NEW u \in Types
        PROVE  /\ nv2[u].store_left > 0 => nv2[u].store < pp
               /\ nv2[u].store_chunk # 0 => nv2[u].store_left > 0
               /\ nv2[u].chunk_list = nae[u].chunk_list
    <3>1. CASE u = t
      <4>1. gp < pp /\ n > 0 /\ nv2[t].store = gp /\ nv2[t].store_left = n /\ nv2[t].chunk_list = nae[t].chunk_list
        BY <1>3, <1>4, <1>7 DEF BlockAt
      <4> HIDE DEF n
      <4> QED
        BY <3>1, <4>1
    <3>2. CASE u # t
      <4>1. nv2[u] = nae[u]
        BY <1>6, <3>2 DEF OnlyEnv
      <4>2. nae[u].store_left > 0 => nae[u].store \in Addr /\ nae[u].store < gp
        BY <1>1, StoresBehind
      <4>3. nae[u].store_left > 0 => nae[u].store < pp
        <5> SUFFICES ASSUME nae[u].store_left > 0 PROVE nae[u].store < pp
          OBVIOUS
        <5>1. PICK x \in Nat : x = nae[u].store
          BY <4>2, AddrNat
        <5>2. x < gp /\ gp \in Nat /\ pp \in Nat /\ gp < pp
          BY <1>4, <4>2, <5>1
        <5>3. x < pp
          BY <5>2
        <5> QED
          BY <5>1, <5>3
      <4>4. nae[u].store_chunk # 0 => nae[u].store_left > 0
        BY <2>1 DEF StoresPassed
      <4> QED
        BY <4>1, <4>3, <4>4
    <3> QED
      BY <3>1, <3>2
  <2> QED
    BY <2>2 DEF StoresBefore
<1> QED
  BY <1>6, <1>12, <1>13, <1>14

(* The store of t gives way to the run, and is filed.                      *)
LEMMA StorePushedBack ==
  ASSUME TableInv, HeapInv, InBlocks, pp # 0, NEW t \in Types, chunk[cur].nae = t, nae[t].store_left > 0,
         FiledIn(chunk, chunk', nae[t].store_chunk, nae[t].store),
         nae' = [nae EXCEPT ![t] = Env(rsoh[gp].size, gp, cur, nae[t].chunk_list)]
  PROVE  /\ Good(InUse, chunk', rsoh, nae', heads, arrays) /\ Envs(nae')
         /\ \A u \in Types : Valid(rsoh, nae', u)
         /\ StoresBefore(nae', pp) /\ FlolBefore(chunk', pp)
         /\ \A a \in Addr : chunk'[a].size = chunk[a].size /\ chunk'[a].state = chunk[a].state
<1>1. pc = "sweep" /\ chunk[cur].size <= RSOC_SIZE /\ pc \in Sweeping
  BY DEF InBlocks, Sweeping
<1>2. cur \in InUse /\ cur \in Addr /\ InUse \in SUBSET Addr
  BY <1>1, SweptChunk, MemAddr DEF InUse, UsedIn
<1>3. BlockAt(gp) /\ pp = gp + rsoh[gp].size /\ \A f \in Mem(chunk[cur].flol) : f < gp
  BY RunBlock
<1>4. gp \in Nat /\ pp \in Nat /\ gp < pp
  BY <1>3 DEF BlockAt
<1>5. /\ Good(InUse, chunk, rsoh, nae, heads, arrays) /\ Envs(nae) /\ Valid(rsoh, nae, t)
  BY <1>1, SweepFacts
<1>6. PICK sz : Heap(InUse, chunk, rsoh, nae, heads, arrays, sz)
  BY <1>5 DEF Good
<1> DEFINE s == nae[t].store
           d == nae[t].store_chunk
           l == nae[t].chunk_list
           nv == [nae EXCEPT ![t] = Env(0, s, d, l)]
<1>7. s < gp /\ s \in heads /\ s \in Addr
  BY <1>1, StoresBehind
<1>8. /\ IsStore(nae, s) /\ s \notin StartsOf(arrays) /\ d \in InUse /\ chunk[d].size <= RSOC_SIZE
      /\ InC(chunk, d, s) /\ FiledIn(chunk, chunk', d, s)
  BY <1>6, StoreAt
<1>9. /\ Good(InUse, chunk, rsoh, nv, heads, arrays) /\ OnlyEnv(nae, nv, t) /\ Envs(nv)
      /\ StoreOf(nv, t, 0, s, d, l)
  <2> DEFINE k == s
  <2> HIDE DEF k
  <2>1. nv = [nae EXCEPT ![t] = Env(0, k, nae[t].store_chunk, nae[t].chunk_list)]
    BY DEF k
  <2> HIDE DEF nv
  <2>2. /\ Good(InUse, chunk, rsoh, nv, heads, arrays) /\ OnlyEnv(nae, nv, t) /\ Envs(nv)
        /\ StoreOf(nv, t, 0, k, nae[t].store_chunk, nae[t].chunk_list)
    BY <1>5, <2>1, StoreLeft, Zenon
  <2> QED
    BY <2>2 DEF k
<1> HIDE DEF nv
<1>10. nv[t].store_left = 0 /\ nv[t].chunk_list = nae[t].chunk_list
  BY <1>9 DEF StoreOf
<1>11. FreeBlock(nv, heads, arrays, s)
  <2>1. ~IsStore(nv, s)
    <3> SUFFICES ASSUME NEW u \in Types, nv[u].store_left > 0, nv[u].store = s PROVE FALSE
      BY DEF IsStore
    <3>1. u # t
      BY <1>10
    <3>2. nae[u].store_left > 0 /\ nae[u].store = nae[t].store
      BY <1>9, <3>1 DEF OnlyEnv
    <3>3. u = t
      BY <1>6, <3>2, OneStore
    <3> QED
      BY <3>1, <3>3
  <2> QED
    BY <1>7, <1>8, <2>1 DEF FreeBlock
<1>12. s \notin Mem(chunk[d].flol)
  BY <1>6, <1>8 DEF Heap, Lists, Listed, FreeBlock
<1>13. /\ OnlyFlol(InUse, chunk, chunk', d) /\ chunk'[d].flol = Cons(s, chunk[d].flol)
       /\ \A a \in Addr : a # d => chunk'[a] = chunk[a]
       /\ \A a \in Addr : /\ chunk'[a].size = chunk[a].size /\ chunk'[a].state = chunk[a].state
                          /\ chunk'[a].nae = chunk[a].nae
  <2> HIDE DEF s, d
  <2>1. Shape(chunk)
    BY DEF TableInv
  <2> QED
    BY <1>2, <1>8, <2>1, FiledFacts
<1> HIDE DEF s, d, l
<1>14. Good(InUse, chunk', rsoh, nv, heads, arrays)
  BY <1>8, <1>9, <1>11, <1>12, <1>13, Filed
<1>15. FlolBefore(chunk', gp)
  <2>1. CASE cur = d
    <3>1. Mem(chunk'[cur].flol) = {s} \cup Mem(chunk[cur].flol)
      <4>1. chunk[cur].flol \in Seq(Addr)
        BY <1>2, <1>6 DEF Heap, Lists, Listed
      <4> QED
        BY <1>7, <1>13, <2>1, <4>1, ConsMem
    <3> QED
      BY <1>3, <1>7, <3>1 DEF FlolBefore
  <2>2. CASE cur # d
    BY <1>2, <1>3, <1>13, <2>2 DEF FlolBefore
  <2> QED
    BY <2>1, <2>2
<1>16. chunk'[cur].size = chunk[cur].size /\ chunk'[cur].nae = t
  BY <1>2, <1>13
<1>17. /\ Good(InUse, chunk', rsoh, nae', heads, arrays) /\ Envs(nae')
       /\ \A u \in Types : Valid(rsoh, nae', u)
       /\ StoresBefore(nae', pp)
  BY <1>5, <1>9, <1>10, <1>14, <1>15, <1>16, RunTaken
<1>18. FlolBefore(chunk', pp)
  <2>1. \A f \in Mem(chunk'[cur].flol) : f \in Nat
    <3>1. Listed(chunk', nv, heads, arrays, cur)
      BY <1>2, <1>14, ListedOf
    <3> QED
      BY <3>1, AddrNat DEF Listed, Mem
  <2> QED
    BY <1>4, <1>15, <2>1 DEF FlolBefore
<1> QED
  BY <1>13, <1>17, <1>18

LEMMA CloseRunInv == ASSUME TableInv, HeapInv, Typed, CloseRun PROVE HeapInv' /\ (Compact => Compact')
<1> DEFINE t == chunk[cur].nae
           n == rsoh[gp].size
           AsStore == [nae EXCEPT ![t] = [nae[t] EXCEPT !.store_left = n, !.store = gp, !.store_chunk = cur]]
<1>1. /\ InBlocks /\ pp # 0 /\ ~Coalesces(pp) /\ gp' = pp /\ pp' = 0 /\ pc' = pc
      /\ UNCHANGED <<gcmt, p1, rsoh, word, live, attr, req, heads, arrays>>
      /\ \/ UNCHANGED <<nae, chunk>>
         \/ /\ n >= RSOC_MIN_STORE /\ nae[t].store_left = 0
            /\ nae' = AsStore /\ UNCHANGED chunk
         \/ /\ nae[t].store_left # 0
            /\ nae' = AsStore /\ FiledIn(chunk, chunk', nae[t].store_chunk, nae[t].store)
         \/ FiledIn(chunk, chunk', cur, gp) /\ nae' = nae
  BY Zenon DEF CloseRun, sweepRest, progVars, FiledIn
<1>2. pc = "sweep" /\ chunk[cur].size <= RSOC_SIZE /\ pc \in Sweeping
  BY <1>1 DEF InBlocks, Sweeping
<1>3. cur \in InUse /\ cur \in Addr /\ InUse \in SUBSET Addr /\ t \in Types
  BY <1>2, SweptChunk, MemAddr DEF InUse, UsedIn, Typed
<1>4. BlockAt(gp) /\ pp = gp + rsoh[gp].size /\ gp \notin StartsOf(arrays) /\ \A f \in Mem(chunk[cur].flol) : f < gp
  BY <1>1, RunBlock
<1>5. gp \in heads /\ gp \in Addr /\ gp \in Nat /\ pp \in Nat /\ gp < pp /\ InC(chunk, cur, gp) /\ ~IsStore(nae, gp)
  BY <1>4 DEF BlockAt
<1>6. /\ Good(InUse, chunk, rsoh, nae, heads, arrays) /\ Envs(nae) /\ \A u \in Types : Valid(rsoh, nae, u)
      /\ StoresPassed
  BY <1>2, SweepFacts
<1>7. Listed(chunk, nae, heads, arrays, cur) /\ IsEnv(nae[t])
  BY <1>3, <1>6, ListedOf, EnvsAt
<1>8. FlolBefore(chunk, gp) /\ FlolBefore(chunk, pp)
  <2>1. \A f \in Mem(chunk[cur].flol) : f \in Nat
    BY <1>7, AddrNat DEF Listed, Mem
  <2> QED
    BY <1>4, <1>5, <2>1 DEF FlolBefore
<1>9. StoresBefore(nae, pp)
  <2>1. ASSUME NEW u \in Types, nae[u].store_left > 0 PROVE nae[u].store < pp
    <3>1. PICK x \in Nat : x = nae[u].store
      BY <1>2, <2>1, StoresBehind, AddrNat
    <3>2. x < gp
      BY <1>2, <2>1, <3>1, StoresBehind
    <3>3. x < pp
      BY <1>5, <3>2
    <3> QED
      BY <3>1, <3>3
  <2> QED
    BY <1>6, <2>1 DEF StoresBefore, StoresPassed
<1>10. AsStore = [nae EXCEPT ![t] = Env(n, gp, cur, nae[t].chunk_list)]
  <2>1. [nae[t] EXCEPT !.store_left = n, !.store = gp, !.store_chunk = cur] = Env(n, gp, cur, nae[t].chunk_list)
    <3> HIDE DEF t, n
    <3> QED
      BY <1>7, EnvStore, Zenon
  <2> QED
    BY <2>1
<1>11. FreeBlock(nae, heads, arrays, gp)
  BY <1>4, <1>5 DEF FreeBlock
<1> DEFINE Ok == /\ Good(InUse, chunk', rsoh, nae', heads, arrays) /\ Envs(nae')
                 /\ \A u \in Types : Valid(rsoh, nae', u)
                 /\ StoresBefore(nae', pp) /\ FlolBefore(chunk', pp)
                 /\ \A a \in Addr : chunk'[a].size = chunk[a].size /\ chunk'[a].state = chunk[a].state
<1>12. ASSUME Ok PROVE HeapInv' /\ (Compact => Compact')
  <2> HIDE DEF t, n, AsStore
  <2>1. chunk'[cur].size = chunk[cur].size
    BY <1>3, <1>12
  <2>2. UsedIn(Mem(gcmt'), chunk') = InUse
    <3>1. gcmt' = gcmt /\ \A a \in Addr : chunk'[a].state = chunk[a].state
      BY <1>1, <1>12
    <3> HIDE DEF Ok
    <3> QED
      BY <3>1, SameInUse
  <2>3. HeapGood'
    BY <1>1, <1>12, <2>2, GoodNext
  <2>4. \A u \in Types : Valid(rsoh', nae', u)
    BY <1>1, <1>12
  <2>5. /\ InBlocks /\ pp # 0 /\ gp' = pp /\ pp' = 0 /\ pc' = pc /\ ~Coalesces(pp)
        /\ UNCHANGED <<gcmt, p1, rsoh, word, live, attr, req, heads, arrays>>
    BY <1>1
  <2>6. FlolBefore(chunk', pp) /\ Envs(nae') /\ StoresBefore(nae', pp)
    BY <1>12
  <2>7. SameChunksInUse
    BY <1>3, <1>12, <2>2 DEF SameChunksInUse
  <2> HIDE DEF Ok
  <2> QED
    BY <2>1, <2>3, <2>4, <2>5, <2>6, <2>7, RunClosed
<1>13. ASSUME UNCHANGED <<nae, chunk>> PROVE Ok
  BY <1>6, <1>8, <1>9, <1>13
<1>14. ASSUME n >= RSOC_MIN_STORE /\ nae[t].store_left = 0 /\ nae' = AsStore /\ UNCHANGED chunk PROVE Ok
  <2> DEFINE nv2 == nae'
  <2>1. OnlyEnv(nae, nae, t) /\ nv2 = [nae EXCEPT ![t] = Env(rsoh[gp].size, gp, cur, nae[t].chunk_list)]
    BY <1>10, <1>14 DEF OnlyEnv
  <2>2. chunk[cur].nae = t /\ nae[t].store_left = 0
    BY <1>14
  <2> HIDE DEF nv2, t
  <2>3. /\ Good(InUse, chunk, rsoh, nv2, heads, arrays) /\ Envs(nv2)
        /\ \A u \in Types : Valid(rsoh, nv2, u)
        /\ StoresBefore(nv2, pp)
    BY <1>1, <1>3, <1>6, <1>8, <2>1, <2>2, RunTaken
  <2> QED
    BY <1>8, <1>14, <2>3 DEF nv2
<1>15. ASSUME nae[t].store_left # 0 /\ nae' = AsStore /\ FiledIn(chunk, chunk', nae[t].store_chunk, nae[t].store) PROVE Ok
  <2>1. nae' = [nae EXCEPT ![t] = Env(rsoh[gp].size, gp, cur, nae[t].chunk_list)] /\ chunk[cur].nae = t
    BY <1>10, <1>15
  <2>2. nae[t].store_left > 0
    <3>1. PICK sz : Heap(InUse, chunk, rsoh, nae, heads, arrays, sz)
      BY <1>6 DEF Good
    <3>2. nae[t].store_left \in Nat
      BY <1>3, <3>1 DEF Heap, Stores
    <3> QED
      BY <1>15, <3>2
  <2>3. FiledIn(chunk, chunk', nae[t].store_chunk, nae[t].store)
    BY <1>15
  <2> HIDE DEF t
  <2> QED
    BY <1>1, <1>3, <2>1, <2>2, <2>3, StorePushedBack
<1>16. ASSUME FiledIn(chunk, chunk', cur, gp) /\ nae' = nae PROVE Ok
  <2>1. Shape(chunk)
    BY DEF TableInv
  <2>2. /\ OnlyFlol(InUse, chunk, chunk', cur) /\ chunk'[cur].flol = Cons(gp, chunk[cur].flol)
        /\ \A a \in Addr : a # cur => chunk'[a] = chunk[a]
        /\ \A a \in Addr : /\ chunk'[a].size = chunk[a].size /\ chunk'[a].state = chunk[a].state
                           /\ chunk'[a].nae = chunk[a].nae
    <3>1. FiledIn(chunk, chunk', cur, gp) /\ cur \in InUse /\ InUse \in SUBSET Addr
      BY <1>3, <1>16
    <3> HIDE DEF t, n, AsStore
    <3> QED
      BY <2>1, <3>1, FiledFacts
  <2>3. gp \notin Mem(chunk[cur].flol)
    BY <1>4, <1>5
  <2>4. Good(InUse, chunk', rsoh, nae, heads, arrays)
    BY <1>2, <1>3, <1>5, <1>6, <1>11, <2>2, <2>3, Filed
  <2>5. FlolBefore(chunk', pp)
    <3>1. chunk[cur].flol \in Seq(Addr)
      BY <1>7 DEF Listed
    <3>2. Mem(chunk'[cur].flol) = {gp} \cup Mem(chunk[cur].flol)
      BY <1>5, <2>2, <3>1, ConsMem
    <3> QED
      BY <1>5, <1>8, <3>2 DEF FlolBefore
  <2> QED
    BY <1>6, <1>9, <1>16, <2>2, <2>4, <2>5
<1> HIDE DEF t, n, AsStore, Ok
<1> QED
  BY <1>1, <1>12, <1>13, <1>14, <1>15, <1>16

(* The last block of the chunk is free: the chunk is empty or joins the    *)
(* chunk_list of its type.                                                 *)
StoresAfter(nv) ==
  \A t \in Types : /\ nv[t].store_left > 0 => nae[t].store_left > 0 /\ nv[t].store = nae[t].store
                   /\ nv[t].store_chunk # 0 => nv[t].store_left > 0
                   /\ Mem(nv[t].chunk_list) \subseteq Mem(nae[t].chunk_list) \cup {cur}

LEMMA AtChunkEnd ==
  ASSUME TableInv, HeapInv, InBlocks, pp = 0, gp >= End(cur)
  PROVE  /\ gp = ChunkEnd(chunk, cur)
         /\ \A h \in StartsOf(arrays) : h + rsoh[h].size # ChunkEnd(chunk, cur)
<1>1. pc = "sweep" /\ chunk[cur].size <= RSOC_SIZE
  BY DEF InBlocks
<1>2. End(cur) = ChunkEnd(chunk, cur) /\ ChunkEnd(chunk, cur) \in Nat
  BY <1>1, SweptChunk
<1>3. \/ gp \in heads /\ InC(chunk, cur, gp)
      \/ gp = ChunkEnd(chunk, cur) /\ \A h \in StartsOf(arrays) : h + rsoh[h].size # ChunkEnd(chunk, cur)
  BY <1>1 DEF HeapInv, SweepAt
<1>4. CASE gp \in heads /\ InC(chunk, cur, gp)
  <2>1. gp \in Nat /\ gp < ChunkEnd(chunk, cur)
    BY <1>1, <1>4, HeadsAround
  <2> QED
    BY <1>2, <2>1
<1> QED
  BY <1>3, <1>4

(* A chunk without an array is one free block.                             *)
LEMMA ArrayKept ==
  ASSUME TableInv, HeapInv, RunsApart, InBlocks, pp = 0, gp >= End(cur), ~WholeFree(cur)
  PROVE  HasArray(cur)
<1> DEFINE h == First(cur)
<1>1. /\ cur \in InUse /\ cur \in Nat /\ h \in Nat /\ h \in heads /\ InC(chunk, cur, h)
      /\ chunk[cur].size \in Nat /\ ChunkEnd(chunk, cur) \in Nat /\ chunk[cur].size <= RSOC_SIZE
      /\ pc = "sweep" /\ pc \in Sweeping /\ gp = ChunkEnd(chunk, cur)
  BY SweptChunk, AtChunkEnd DEF InBlocks, Sweeping
<1>2. FitsIn(chunk, cur, h, heads, [g \in heads |-> rsoh[g].size]) /\ Behind(h) \in Nat /\ h < Behind(h)
  BY <1>1, BlockEnds
<1>3. Behind(h) \in heads \/ Behind(h) = ChunkEnd(chunk, cur)
  BY <1>1, <1>2 DEF FitsIn, Behind
<1>4. Behind(h) <= ChunkEnd(chunk, cur)
  BY <1>1, <1>2 DEF FitsIn, Behind
<1>5. Behind(h) # ChunkEnd(chunk, cur)
  <2>1. rsoh[h].size \in Nat
    <3>1. PICK sz : Heap(InUse, chunk, rsoh, nae, heads, arrays, sz)
      BY DEF HeapInv, HeapGood, Good
    <3> QED
      BY <1>1, <3>1, SizesWritten DEF Heap, Tiles
  <2> QED
    BY <1>1, <2>1, RsoAssumption DEF Behind, WholeFree, ChunkEnd, First
<1>6. Behind(h) \in heads /\ InC(chunk, cur, Behind(h))
  BY <1>1, <1>2, <1>3, <1>4, <1>5 DEF InC
<1>7. h \in StartsOf(arrays) \/ Behind(h) \in StartsOf(arrays)
  BY <1>1, <1>6 DEF RunsApart, FreeHeads, Passed, InC
<1> QED
  BY <1>1, <1>6, <1>7 DEF HasArray

ChunkLeft ==
  /\ heads' \subseteq heads /\ InUse' \subseteq InUse /\ \A c \in InUse : chunk'[c].size = chunk[c].size
  /\ cur \in InUse' => ~WholeFree(cur)
LEMMA ChunkEnds ==
  ASSUME TableInv, HeapInv, InBlocks, pp = 0, gp >= End(cur), pc' = "link",
         UNCHANGED <<gcmt, p1, rsoh, arrays, word, live, attr, req>>,
         chunk'[cur].size = chunk[cur].size, HeapGood', Envs(nae'),
         \A t \in Types : Valid(rsoh', nae', t), StoresAfter(nae'), ChunkLeft
  PROVE  HeapInv' /\ (Compact => Compact')
<1>1. pc = "sweep" /\ pc \in Sweeping /\ pc' \in {"sweep", "link"}
  BY DEF InBlocks, Sweeping
<1>2. gp = ChunkEnd(chunk, cur) /\ cur' = cur /\ cur \in Nat
  BY <1>1, AtChunkEnd, SweptChunk, SweepPlace
<1>3. \A h : Passed(h)' <=> Passed(h)
  <2>1. \A h : (Passed(h) <=> h < gp) /\ (Passed(h)' <=> h < ChunkEnd(chunk, cur))
    BY <1>1, SweepPlace
  <2> QED
    BY <1>2, <2>1
<1>4. Roots \subseteq StartsOf(arrays) /\ StoresPassed /\ Blocks(rsoh)
  BY <1>1, SweepFacts
<1>5. ArraysStay
  BY <1>3, <1>4 DEF ArraysStay
<1>6. StoresPassed'
  <2>1. \A c \in InUse : Done(c) => Done(c)'
    <3>1. \A c \in InUse : c \in Nat
      BY MemAddr, AddrNat DEF InUse, UsedIn
    <3> QED
      BY <1>1, <3>1, SweepPlace
  <2>2. \A t \in Types : \A c \in Mem(nae[t].chunk_list) : c \in InUse
    <3>1. PICK sz : Heap(InUse, chunk, rsoh, nae, heads, arrays, sz)
      BY DEF HeapInv, HeapGood, Good
    <3> QED
      BY <3>1 DEF Heap, Stores, ChunksOf
  <2>4. \A t \in Types : \A c \in Mem(nae'[t].chunk_list) : Done(c)'
    <3>1. ASSUME NEW t \in Types, NEW c \in Mem(nae'[t].chunk_list) PROVE Done(c)'
      <4>1. c \in Mem(nae[t].chunk_list) \/ c = cur
        BY <3>1 DEF StoresAfter
      <4>2. CASE c \in Mem(nae[t].chunk_list)
        BY <1>4, <2>1, <2>2, <4>2 DEF StoresPassed
      <4>3. CASE c = cur
        BY <1>2, <4>3 DEF Done
      <4> QED
        BY <4>1, <4>2, <4>3
    <3> QED
      BY <3>1
  <2>5. \A t \in Types : nae'[t].store_left > 0 => (\A h : h = nae'[t].store => Passed(h)')
    BY <1>3, <1>4 DEF StoresPassed, StoresAfter
  <2>6. (\A t \in Types : nae[t].store_left > 0 => Passed(nae[t].store))'
    BY <2>5 DEF Passed
  <2>7. (\A t \in Types : \A c \in Mem(nae[t].chunk_list) : Done(c))'
    BY <2>4 DEF Done, Mem
  <2>8. (\A t \in Types : nae[t].store_chunk # 0 => nae[t].store_left > 0)'
    BY DEF StoresAfter
  <2> QED
    BY <2>6, <2>7, <2>8 DEF StoresPassed
<1>7. SweepAt'
  BY DEF SweepAt
<1>8. Blocks(rsoh') /\ UNCHANGED <<word, live, attr, req>> /\ \A t \in Types : Valid(rsoh', nae', t)
  BY <1>4
<1>9. ASSUME Compact PROVE Compact'
  <2>1. /\ RunsApart /\ FreeHeads' \subseteq FreeHeads /\ gp \notin FreeHeads' /\ gp \in Nat
        /\ \A h : Passed(h)' <=> h < gp
    <3>1. RunsApart /\ FreeHeads' \subseteq FreeHeads /\ \A h : Passed(h)' <=> h < gp
      BY <1>1, <1>3, <1>9 DEF Compact, FreeHeads, ChunkLeft, Passed
    <3>2. gp \notin heads /\ gp \in Nat
      BY <1>1, <1>2, HeadsAround, SweptChunk DEF InC, ChunkEnd
    <3> QED
      BY <3>1, <3>2 DEF FreeHeads
  <2>2. RunsApart'
    BY <1>1, <2>1, RunsOn
  <2>3. ChunksKept
    BY <1>1, <2>1, ArrayKept DEF ChunksKept, ChunkLeft, HasArray
  <2> QED
    BY <1>1, <1>9, <2>2, <2>3, CompactOn
<1> QED
  BY <1>1, <1>5, <1>6, <1>7, <1>8, <1>9, SweepOn

(* One free block fills the chunk: no array is there.                      *)
LEMMA NoArrayIn ==
  ASSUME TableInv, HeapInv, InBlocks, pp = 0, gp >= End(cur), WholeFree(cur)
  PROVE  ArraysOut(chunk, cur, arrays) = arrays
<1>1. pc = "sweep" /\ chunk[cur].size <= RSOC_SIZE /\ pc \in Sweeping
  BY DEF InBlocks, Sweeping
<1>2. /\ cur \in InUse /\ cur \in Nat /\ First(cur) \in Nat /\ chunk[cur].size \in Nat
      /\ ChunkEnd(chunk, cur) \in Nat /\ First(cur) \in heads /\ InC(chunk, cur, First(cur))
  BY <1>1, SweptChunk
<1>3. PICK sz : Heap(InUse, chunk, rsoh, nae, heads, arrays, sz)
  BY DEF HeapInv, HeapGood, Good
<1>4. sz[First(cur)] \in Nat /\ sz[First(cur)] = rsoh[First(cur)].size
  BY <1>1, <1>2, <1>3, SizesWritten DEF Heap, Tiles
<1>5. FitsIn(chunk, cur, First(cur), heads, sz)
  BY <1>2, <1>3, FitsChunk DEF Heap
<1>6. First(cur) + sz[First(cur)] = ChunkEnd(chunk, cur)
  <2>1. sz[First(cur)] >= chunk[cur].size - Overhead
    BY <1>4 DEF WholeFree
  <2>2. First(cur) + sz[First(cur)] <= ChunkEnd(chunk, cur)
    BY <1>5 DEF FitsIn
  <2> QED
    BY <1>2, <1>4, <2>1, <2>2, RsoAssumption DEF First, ChunkEnd
<1>7. First(cur) \notin StartsOf(arrays)
  BY <1>4, <1>6, AtChunkEnd
<1>8. ASSUME NEW a \in arrays, InC(chunk, cur, a[1]) PROVE FALSE
  <2>1. a[1] \in heads /\ a[1] \in StartsOf(arrays)
    BY <1>3 DEF Heap, Contents, StartsOf
  <2>2. a[1] \in Nat /\ First(cur) <= a[1] /\ a[1] < ChunkEnd(chunk, cur)
    BY <1>1, <1>8, <2>1, HeadsAround
  <2>3. a[1] # First(cur)
    BY <1>7, <2>1
  <2>4. First(cur) < a[1]
    BY <1>2, <2>2, <2>3
  <2>5. First(cur) + sz[First(cur)] <= a[1]
    BY <1>2, <1>3, <2>1, <2>4 DEF Heap, Tiles
  <2> QED
    BY <1>2, <1>6, <2>2, <2>5
<1> QED
  BY <1>8 DEF ArraysOut

LEMMA EndChunkInv == ASSUME TableInv, HeapInv, Typed, EndChunk PROVE HeapInv' /\ (Compact => Compact')
<1> DEFINE t == chunk[cur].nae
           s == nae[t].store
           d == nae[t].store_chunk
           l == nae[t].chunk_list
<1>1. /\ InBlocks /\ pp = 0 /\ gp >= End(cur) /\ pc' = "link"
      /\ UNCHANGED <<gcmt, p1, rsoh, arrays, word, live, attr, req>>
  BY DEF EndChunk, sweepRest, progVars
<1>2. pc = "sweep" /\ chunk[cur].size <= RSOC_SIZE /\ pc \in Sweeping
  BY <1>1 DEF InBlocks, Sweeping
<1>3. /\ cur \in InUse /\ cur \in Addr /\ cur \in Nat /\ InUse \in SUBSET Addr /\ t \in Types
      /\ cur # 0 /\ ChunkEnd(chunk, cur) = End(cur)
  BY <1>2, SweptChunk, MemAddr, AddrNat DEF InUse, UsedIn, Typed
<1>4. /\ Good(InUse, chunk, rsoh, nae, heads, arrays) /\ Envs(nae) /\ \A u \in Types : Valid(rsoh, nae, u)
      /\ StoresPassed
  BY <1>2, SweepFacts
<1>5. IsEnv(nae[t]) /\ nae = [u \in Types |-> nae[u]]
  BY <1>3, <1>4, EnvsAt
<1>6. PICK sz : Heap(InUse, chunk, rsoh, nae, heads, arrays, sz)
  BY <1>4 DEF Good
<1>7. /\ \A u \in Types : ChunksOf(InUse, chunk, nae, u)
      /\ \A u \in Types : nae[u].store_chunk # 0 => chunk[nae[u].store_chunk].nae = u
  BY <1>6 DEF Heap, Stores, ChunksOf
<1>8. CASE WholeFree(cur)
  <2>1. /\ chunk' = [chunk EXCEPT ![cur].state = "free"] /\ heads' = heads \ InChunk(cur)
        /\ nae' = [nae EXCEPT ![t].store_chunk = 0, ![t].store_left = 0]
    BY <1>8 DEF EndChunk
  <2>2. nae' = [nae EXCEPT ![t] = Env(0, s, 0, l)]
    <3> DEFINE e1 == [nae[t] EXCEPT !.store_chunk = 0]
               e2 == [e1 EXCEPT !.store_left = 0]
    <3>1. e1 = Env(nae[t].store_left, s, 0, l)
      BY <1>5, EnvUpdates
    <3>2. e2 = Env(0, s, 0, l)
      <4> HIDE DEF e1
      <4> QED
        BY <3>1 DEF Env
    <3>3. nae' = [nae EXCEPT ![t] = e2]
      BY <1>3, <1>5, <2>1
    <3> QED
      BY <3>2, <3>3
  <2> DEFINE nv == [nae EXCEPT ![t] = Env(0, s, d, l)]
  <2>3. /\ Good(InUse, chunk, rsoh, nv, heads, arrays) /\ OnlyEnv(nae, nv, t) /\ Envs(nv)
        /\ StoreOf(nv, t, 0, s, d, l)
    <3> DEFINE k == s
    <3> HIDE DEF k
    <3>1. nv = [nae EXCEPT ![t] = Env(0, k, nae[t].store_chunk, nae[t].chunk_list)]
      BY DEF k
    <3>2. Valid(rsoh, nae, t)
      BY <1>3, <1>4
    <3> HIDE DEF nv, t
    <3>3. /\ Good(InUse, chunk, rsoh, nv, heads, arrays) /\ OnlyEnv(nae, nv, t) /\ Envs(nv)
          /\ StoreOf(nv, t, 0, k, nae[t].store_chunk, nae[t].chunk_list)
      BY <1>3, <1>4, <3>1, <3>2, StoreLeft, Zenon
    <3> QED
      BY <3>3 DEF k
  <2> HIDE DEF nv
  <2>4. Envs(nae') /\ OnlyEnv(nae, nae', t) /\ StoreOf(nae', t, 0, s, 0, l)
    <3> HIDE DEF t, s, l
    <3>1. PutEnv(nae, nae', t, 0, s, 0, l)
      BY <1>3, <1>4, <2>2, EnvPut
    <3> QED
      BY <3>1, EnvFields DEF PutEnv, StoreOf
  <2>5. Good(InUse, chunk, rsoh, nae', heads, arrays)
    <3>1. OnlyEnv(nv, nae', t) /\ nae'[t].store_left = nv[t].store_left /\ nae'[t].store = nv[t].store /\ nv[t].store_left = 0
      BY <2>3, <2>4 DEF OnlyEnv, StoreOf
    <3>2. ChunksOf(InUse, chunk, nae', t)
      BY <1>3, <1>7, <2>4 DEF ChunksOf, StoreOf
    <3> HIDE DEF t
    <3> QED
      BY <1>3, <2>3, <3>1, <3>2, ListsChanged
  <2>6. Unknown(nae', cur)
    <3> SUFFICES ASSUME NEW u \in Types
                 PROVE  nae'[u].store_chunk # cur /\ cur \notin Mem(nae'[u].chunk_list)
      BY DEF Unknown
    <3>1. cur \notin Mem(nae[u].chunk_list)
      <4>1. cur \in Mem(nae[u].chunk_list) => Done(cur)
        BY <1>4 DEF StoresPassed
      <4> QED
        BY <1>2, <1>3, <4>1 DEF Done
    <3>2. CASE u = t
      BY <1>3, <2>4, <3>1, <3>2 DEF StoreOf
    <3>3. CASE u # t
      <4>1. nae'[u] = nae[u]
        BY <2>4, <3>3 DEF OnlyEnv
      <4>2. nae[u].store_chunk # cur
        BY <1>3, <1>7, <3>3
      <4> QED
        BY <3>1, <4>1, <4>2
    <3> QED
      BY <3>2, <3>3
  <2>7. StateSet(chunk, chunk', cur, "free") /\ Shape(chunk)
    BY <2>1 DEF TableInv, StateSet
  <2>8. /\ chunk'[cur] = Header("free", chunk[cur].size, chunk[cur].isize, chunk[cur].nae, chunk[cur].flol)
        /\ \A a \in Addr : a # cur => chunk'[a] = chunk[a]
    <3> HIDE DEF t
    <3> QED
      BY <1>3, <2>7, StateAssign
  <2>9. chunk'[cur].state = "free" /\ chunk'[cur].size = chunk[cur].size
    BY <2>8 DEF Header
  <2>10. UsedIn(Mem(gcmt'), chunk') = InUse \ {cur} /\ SameChunks2(InUse \ {cur}, chunk, chunk')
    BY <1>1, <2>8, <2>9, MemAddr DEF InUse, UsedIn, SameChunks2
  <2>11. Good(InUse \ {cur}, chunk', rsoh, nae', HeadsOut(chunk, cur, heads), ArraysOut(chunk, cur, arrays))
    <3> HIDE DEF t
    <3> QED
      BY <1>3, <2>5, <2>6, <2>10, ChunkGone
  <2>12. heads' = HeadsOut(chunk, cur, heads)
    <3>1. \A h \in heads : /\ h \in Nat
                           /\ InC(chunk, cur, h) \/ h < cur \/ ChunkEnd(chunk, cur) < h
                           /\ InC(chunk, cur, h) => First(cur) <= h /\ h < ChunkEnd(chunk, cur) /\ cur < h
      BY <1>2, HeadsAround
    <3>2. ChunkEnd(chunk, cur) \in Nat
      BY <1>2, SweptChunk
    <3> QED
      BY <1>3, <2>1, <3>1, <3>2 DEF HeadsOut, InChunk
  <2>13. HeapGood'
    <3>1. ArraysOut(chunk, cur, arrays) = arrays
      BY <1>1, <1>8, NoArrayIn
    <3> QED
      BY <1>1, <2>10, <2>11, <2>12, <3>1, GoodNext
  <2>14. \A u \in Types : Valid(rsoh', nae', u)
    BY <1>1, <1>4, <2>4 DEF Valid, OnlyEnv, StoreOf
  <2>15. StoresAfter(nae')
    <3> SUFFICES ASSUME NEW u \in Types
                 PROVE  /\ nae'[u].store_left > 0 => nae[u].store_left > 0 /\ nae'[u].store = nae[u].store
                        /\ nae'[u].store_chunk # 0 => nae'[u].store_left > 0
                        /\ Mem(nae'[u].chunk_list) \subseteq Mem(nae[u].chunk_list) \cup {cur}
      BY DEF StoresAfter
    <3>1. CASE u = t
      BY <2>4, <3>1 DEF StoreOf
    <3>2. CASE u # t
      BY <1>4, <2>4, <3>2 DEF OnlyEnv, StoresPassed
    <3> QED
      BY <3>1, <3>2
  <2>16. ChunkLeft
    BY <1>3, <2>1, <2>8, <2>9, <2>10 DEF ChunkLeft, InUse
  <2> HIDE DEF t
  <2> QED
    BY <1>1, <2>4, <2>9, <2>13, <2>14, <2>15, <2>16, ChunkEnds
<1>9. CASE ~WholeFree(cur)
  <2>1. nae' = [nae EXCEPT ![t].chunk_list = Cons(cur, l)] /\ UNCHANGED <<chunk, heads>>
    BY <1>9 DEF EndChunk
  <2> DEFINE k == Cons(cur, l)
  <2>2. l \in Seq(Addr)
    BY <1>3, <1>7 DEF ChunksOf
  <2>3. k \in Seq(Addr) /\ Mem(k) = {cur} \cup Mem(l)
    <3> HIDE DEF l
    <3> QED
      BY <1>3, <2>2, ConsFacts, ConsMem
  <2> HIDE DEF k
  <2>4. nae' = [nae EXCEPT ![t] = Env(nae[t].store_left, s, d, k)]
    <3>1. [nae[t] EXCEPT !.chunk_list = k] = Env(nae[t].store_left, s, d, k)
      BY <1>5, EnvUpdates
    <3>2. nae' = [nae EXCEPT ![t] = [nae[t] EXCEPT !.chunk_list = k]]
      BY <1>3, <1>5, <2>1 DEF k
    <3> QED
      BY <3>1, <3>2
  <2>5. Envs(nae') /\ OnlyEnv(nae, nae', t) /\ StoreOf(nae', t, nae[t].store_left, s, d, k)
    <3> DEFINE m == nae[t].store_left
    <3> HIDE DEF t, s, d, m
    <3>1. nae' = [nae EXCEPT ![t] = Env(m, s, d, k)]
      BY <2>4 DEF m
    <3>2. PutEnv(nae, nae', t, m, s, d, k)
      BY <1>3, <1>4, <3>1, EnvPut
    <3>3. Envs(nae') /\ OnlyEnv(nae, nae', t) /\ StoreOf(nae', t, m, s, d, k)
      BY <3>2, EnvFields DEF PutEnv, StoreOf
    <3> QED
      BY <3>3 DEF m
  <2>6. Good(InUse, chunk, rsoh, nae', heads, arrays)
    <3>1. /\ nae'[t].store_left = nae[t].store_left /\ nae'[t].store = nae[t].store
          /\ nae'[t].store_chunk = nae[t].store_chunk
      BY <2>5 DEF StoreOf
    <3>2. ChunksOf(InUse, chunk, nae', t)
      BY <1>3, <1>7, <2>3, <2>5 DEF ChunksOf, StoreOf
    <3> HIDE DEF t
    <3> QED
      BY <1>3, <1>4, <2>5, <3>1, <3>2, ListsChanged
  <2>7. HeapGood'
    <3>1. UsedIn(Mem(gcmt'), chunk') = InUse
      BY <1>1, <2>1 DEF InUse
    <3> QED
      BY <1>1, <2>1, <2>6, <3>1, GoodNext
  <2>8. \A u \in Types : Valid(rsoh', nae', u)
    BY <1>1, <1>4, <2>5 DEF Valid, OnlyEnv, StoreOf
  <2>9. StoresAfter(nae')
    <3> SUFFICES ASSUME NEW u \in Types
                 PROVE  /\ nae'[u].store_left > 0 => nae[u].store_left > 0 /\ nae'[u].store = nae[u].store
                        /\ nae'[u].store_chunk # 0 => nae'[u].store_left > 0
                        /\ Mem(nae'[u].chunk_list) \subseteq Mem(nae[u].chunk_list) \cup {cur}
      BY DEF StoresAfter
    <3>1. CASE u = t
      BY <1>3, <1>4, <2>3, <2>5, <3>1 DEF StoreOf, StoresPassed
    <3>2. CASE u # t
      BY <1>4, <2>5, <3>2 DEF OnlyEnv, StoresPassed
    <3> QED
      BY <3>1, <3>2
  <2>10. chunk'[cur].size = chunk[cur].size
    BY <2>1
  <2>11. ChunkLeft
    BY <1>1, <1>9, <2>1 DEF ChunkLeft, InUse
  <2> HIDE DEF t
  <2> QED
    BY <1>1, <2>5, <2>7, <2>8, <2>9, <2>10, <2>11, ChunkEnds
<1> QED
  BY <1>8, <1>9
-----------------------------------------------------------------------------
(* gc_sweep goes from chunk to chunk; it may merge two free ones.          *)
MergedTo(ck, ck2, c, d, n) == ck2 = [ck EXCEPT ![c].size = n, ![d] = NoChunk]

LEMMA MergedHeaders ==
  ASSUME NEW ck, Shape(ck), NEW c \in Addr, NEW d \in Addr, c # d, NEW n, NEW ck2, MergedTo(ck, ck2, c, d, n)
  PROVE  ck2[c].state = ck[c].state /\ \A a \in Addr : a # c /\ a # d => ck2[a] = ck[a]
<1> DEFINE k1 == [ck EXCEPT ![c].size = n]
<1>1. /\ Shape(k1) /\ k1[c] = Header(ck[c].state, n, ck[c].isize, ck[c].nae, ck[c].flol)
      /\ \A a \in Addr : a # c => k1[a] = ck[a]
  BY SizeChanged
<1>2. ck2 = Dropped(k1, d)
  BY DEF MergedTo, Dropped
<1> HIDE DEF k1
<1>3. \A a \in Addr : a # d => ck2[a] = k1[a]
  BY <1>1, <1>2, DroppedFacts
<1> QED
  BY <1>1, <1>3 DEF Header

(* The chunk behind the one that is left.                                  *)
NextChunk ==
  /\ p1' <= Len(gcmt') <=> p1 + 1 <= Len(gcmt)
  /\ p1 + 1 <= Len(gcmt) => gcmt'[p1'] = gcmt[p1 + 1]

LEMMA ToNextChunk ==
  ASSUME TableInv, HeapInv, pc = "link", pc' = "enter", NextChunk,
         UNCHANGED <<word, live, attr, req, rsoh, nae, heads, arrays>>, HeapGood', SameChunksInUse
  PROVE  HeapInv' /\ (Compact => Compact')
<1>1. pc \in Sweeping /\ pc' \in Sweeping /\ p1 \in 1 .. Len(gcmt) /\ cur \in Mem(gcmt) /\ cur \in Addr
  BY CurFacts DEF Sweeping
<1>2. SweepAt'
  BY DEF SweepAt
<1>3. gcmt \in Seq(Addr) /\ Increasing(gcmt) /\ Table(Mem(gcmt), chunk, regions)
  BY DEF TableInv
<1>4. cur \in Nat /\ chunk[cur].size \in Nat /\ ChunkEnd(chunk, cur) \in Nat /\ cur <= ChunkEnd(chunk, cur)
  BY <1>1, <1>3, AddrNat DEF Table, Cells, ChunkEnd
<1>5. p1 + 1 <= Len(gcmt) => gcmt[p1 + 1] \in Nat /\ cur < gcmt[p1 + 1] /\ ChunkEnd(chunk, cur) <= gcmt[p1 + 1]
  <2> SUFFICES ASSUME p1 + 1 <= Len(gcmt)
               PROVE  gcmt[p1 + 1] \in Nat /\ cur < gcmt[p1 + 1] /\ ChunkEnd(chunk, cur) <= gcmt[p1 + 1]
    OBVIOUS
  <2>1. PICK k \in 1 .. Len(gcmt) : k = p1 + 1 /\ p1 < k
    BY <1>1
  <2>2. gcmt[k] \in Addr /\ gcmt[k] \in Mem(gcmt) /\ gcmt[k] \in Nat
    BY <1>3, AddrNat DEF Mem
  <2>3. cur < gcmt[k]
    BY <1>1, <1>3, <2>1 DEF Increasing, cur
  <2>4. ChunkEnd(chunk, cur) <= gcmt[k]
    BY <1>1, <1>3, <2>2, <2>3 DEF Table, Cells
  <2> QED
    BY <2>1, <2>2, <2>3, <2>4
<1> DEFINE next == gcmt[p1 + 1]
           more == p1 + 1 <= Len(gcmt)
<1>6. \A h : (Passed(h) <=> h < ChunkEnd(chunk, cur)) /\ (Done(h) <=> h <= cur)
  BY DEF Passed, Done
<1>7. \A h : (Passed(h)' <=> (more => h < next)) /\ (Done(h)' <=> (more => h < next))
  BY DEF Passed, Done, NextChunk, cur
<1>8. more => next \in Nat /\ cur < next /\ ChunkEnd(chunk, cur) <= next
  BY <1>5
<1>9. SamePlaces
  <2>1. ASSUME NEW h \in heads PROVE Passed(h)' <=> Passed(h)
    <3>1. /\ h \in Addr /\ h \in Nat
          /\ \/ cur \in InUse /\ InC(chunk, cur, h)
             \/ h < cur
             \/ ChunkEnd(chunk, cur) < h /\ p1 + 1 \in 1 .. Len(gcmt) /\ gcmt[p1 + 1] < h
      BY <1>1, HeadPlace
    <3>2. CASE h < ChunkEnd(chunk, cur)
      <4> HIDE DEF next, more
      <4> QED
        BY <1>4, <1>6, <1>7, <1>8, <3>1, <3>2
    <3>3. CASE ~(h < ChunkEnd(chunk, cur))
      <4>1. more /\ next < h
        BY <1>1, <1>4, <3>1, <3>3 DEF InC
      <4> HIDE DEF next, more
      <4> QED
        BY <1>6, <1>7, <1>8, <3>1, <3>3, <4>1
    <3> QED
      BY <3>2, <3>3
  <2>2. ASSUME NEW c \in InUse PROVE Done(c) <=> Done(c)'
    <3>1. c \in Nat /\ First(c) \in heads /\ c < First(c) /\ First(c) \in Nat
      <4>1. PICK sz : Heap(InUse, chunk, rsoh, nae, heads, arrays, sz)
        BY DEF HeapInv, HeapGood, Good
      <4> QED
        BY <4>1, MemAddr, FirstNat DEF InUse, UsedIn, Heap, Tiles
    <3>2. PICK i \in 1 .. Len(gcmt) : gcmt[i] = c
      BY DEF InUse, UsedIn, Mem
    <3>3. i <= p1 => c <= cur
      BY <1>1, <1>3, <1>4, <3>1, <3>2 DEF Increasing, cur
    <3>4. i > p1 => more /\ next <= c /\ next \in Nat
      <4> SUFFICES ASSUME i > p1 PROVE more /\ next <= c /\ next \in Nat
        OBVIOUS
      <4>1. PICK k \in 1 .. Len(gcmt) : k = p1 + 1 /\ (k = i \/ k < i)
        BY <1>1, <1>3, <3>2
      <4>2. gcmt[k] <= c
        <5>1. gcmt[k] \in Nat
          BY <1>3, AddrNat
        <5> QED
          BY <1>3, <3>1, <3>2, <4>1, <5>1 DEF Increasing
      <4>3. more /\ next = gcmt[k]
        BY <4>1
      <4> HIDE DEF next, more
      <4> QED
        BY <1>8, <4>2, <4>3
    <3>5. i <= p1 \/ i > p1
      BY <1>1, <3>2
    <3> HIDE DEF next, more
    <3>6. CASE i <= p1
      BY <1>4, <1>6, <1>7, <1>8, <3>1, <3>3, <3>6
    <3>7. CASE i > p1
      BY <1>4, <1>6, <1>7, <1>8, <3>1, <3>4, <3>7
    <3> QED
      BY <3>5, <3>6, <3>7
  <2> QED
    BY <2>1, <2>2 DEF SamePlaces
<1>10. BeforeGp
  BY DEF BeforeGp
<1> QED
  BY <1>1, <1>2, <1>9, <1>10, SweepQuiet

LEMMA LinkInv == ASSUME TableInv, HeapInv, Link PROVE HeapInv' /\ (Compact => Compact')
<1>1. /\ pc = "link" /\ pc' = "enter" /\ UNCHANGED <<word, live, attr, req, rsoh, nae, heads, arrays>>
      /\ \/ p1' = p1 + 1 /\ UNCHANGED <<gcmt, chunk>>
         \/ /\ chunk[cur].state = "free" /\ p1 > 1 /\ chunk[gcmt[p1 - 1]].state = "free"
            /\ MergedTo(chunk, chunk', gcmt[p1 - 1], cur, chunk[gcmt[p1 - 1]].size + chunk[cur].size)
            /\ gcmt' = RemoveAt(gcmt, p1) /\ p1' = p1
  BY DEF Link, Merges, MergedTo, progVars, histVars
<1>2. p1 \in 1 .. Len(gcmt) /\ cur \in Mem(gcmt) /\ cur \in Addr
  BY <1>1, CurFacts
<1>3. CASE p1' = p1 + 1 /\ UNCHANGED <<gcmt, chunk>>
  <2>1. HeapGood'
    BY <1>1, <1>3, SameGood
  <2>2. NextChunk /\ SameChunksInUse
    BY <1>3 DEF NextChunk, SameChunksInUse, InUse
  <2> QED
    BY <1>1, <2>1, <2>2, ToNextChunk
<1>4. CASE /\ chunk[cur].state = "free" /\ p1 > 1 /\ chunk[gcmt[p1 - 1]].state = "free"
           /\ MergedTo(chunk, chunk', gcmt[p1 - 1], cur, chunk[gcmt[p1 - 1]].size + chunk[cur].size)
           /\ gcmt' = RemoveAt(gcmt, p1) /\ p1' = p1
  <2>1. gcmt \in Seq(Addr) /\ Increasing(gcmt) /\ Shape(chunk) /\ Len(gcmt) \in Nat
    BY DEF TableInv
  <2>2. PICK k \in 1 .. Len(gcmt) : k = p1 - 1 /\ k < p1
    BY <1>2, <1>4, <2>1
  <2>3. gcmt[k] < cur /\ gcmt[k] \in Addr /\ gcmt[k] \in Mem(gcmt) /\ gcmt[k] # cur
    <3>1. gcmt[k] < cur /\ gcmt[k] \in Addr /\ gcmt[k] \in Mem(gcmt)
      BY <1>2, <2>1, <2>2 DEF Increasing, Mem, cur
    <3> QED
      BY <1>2, <3>1, AddrNat
  <2>4. chunk'[gcmt[k]].state = chunk[gcmt[k]].state /\ \A a \in Addr : a # gcmt[k] /\ a # cur => chunk'[a] = chunk[a]
    <3> DEFINE c == gcmt[k]
               n == chunk[gcmt[p1 - 1]].size + chunk[cur].size
    <3>1. MergedTo(chunk, chunk', c, cur, n) /\ c \in Addr /\ c # cur
      BY <1>4, <2>2, <2>3
    <3> HIDE DEF c, n
    <3>2. chunk'[c].state = chunk[c].state /\ \A a \in Addr : a # c /\ a # cur => chunk'[a] = chunk[a]
      BY <1>2, <2>1, <3>1, MergedHeaders
    <3> QED
      BY <3>2 DEF c
  <2>5. /\ Len(gcmt') = Len(gcmt) - 1 /\ Mem(gcmt') = Mem(gcmt) \ {cur}
    <3>1. Len(RemoveAt(gcmt, p1)) = Len(gcmt) - 1 /\ Mem(RemoveAt(gcmt, p1)) = Mem(gcmt) \ {gcmt[p1]}
      BY <1>2, <2>1, RemovedFacts, AddrNat
    <3> QED
      BY <1>4, <3>1 DEF cur
  <2>6. UsedIn(Mem(gcmt'), chunk') = InUse /\ SameChunks2(InUse, chunk, chunk')
    <3>1. chunk[gcmt[k]].state = "free"
      BY <1>4, <2>2
    <3> QED
      BY <1>4, <2>3, <2>4, <2>5, <3>1, MemAddr DEF InUse, UsedIn, SameChunks2
  <2>7. HeapGood'
    <3>1. Good(InUse, chunk, rsoh, nae, heads, arrays)
      BY DEF HeapInv, HeapGood
    <3>2. Good(InUse, chunk', rsoh, nae, heads, arrays)
      BY <2>6, <3>1, HeapFrame
    <3> QED
      BY <1>1, <2>6, <3>2, GoodNext
  <2>8. NextChunk
    <3>1. \A i \in 1 .. Len(gcmt) - 1 : RemoveAt(gcmt, p1)[i] = IF i < p1 THEN gcmt[i] ELSE gcmt[i + 1]
      BY <1>2, <2>1, RemoveAtFacts
    <3>2. p1 + 1 <= Len(gcmt) => p1 \in 1 .. Len(gcmt) - 1
      BY <1>2, <2>1
    <3>3. p1 + 1 <= Len(gcmt) => gcmt'[p1'] = gcmt[p1 + 1]
      BY <1>2, <1>4, <3>1, <3>2
    <3> QED
      BY <1>2, <1>4, <2>1, <2>5, <3>3 DEF NextChunk
  <2>9. SameChunksInUse
    BY <2>6 DEF SameChunksInUse, SameChunks2
  <2> QED
    BY <1>1, <2>7, <2>8, <2>9, ToNextChunk
<1> QED
  BY <1>1, <1>3, <1>4

(* The table has been swept: the sweep is past every block.                *)
LEMMA SweptAll ==
  ASSUME TableInv, (pc = "enter" /\ p1 > Len(gcmt)) \/ pc = "free"
  PROVE  \A h : Passed(h) /\ Done(h)
<1>1. pc = "enter" => p1 \in 1 .. Len(gcmt) + 1 /\ Len(gcmt) \in Nat
  BY DEF TableInv, FreeLists, Rebuilding
<1> QED
  BY <1>1 DEF Passed, Done

LEMMA MayFreeInv == ASSUME TableInv, HeapInv, MayFree PROVE HeapInv' /\ (Compact => Compact')
<1>1. /\ pc = "enter" /\ p1 > Len(gcmt) /\ pc' = "free"
      /\ UNCHANGED <<gcmt, chunk, word, live, attr, req, rsoh, nae, heads, arrays>>
  BY DEF MayFree, progVars, histVars
<1>2. HeapGood'
  BY <1>1, SameGood
<1>3. SamePlaces
  <2>1. \A h : Passed(h) /\ Done(h)
    BY <1>1, SweptAll
  <2>2. \A h : Passed(h)' /\ Done(h)'
    BY <1>1 DEF Passed, Done
  <2> QED
    BY <2>1, <2>2 DEF SamePlaces
<1>4. SweepAt' /\ SameChunksInUse /\ BeforeGp
  BY <1>1 DEF SweepAt, SameChunksInUse, BeforeGp, InUse
<1> QED
  BY <1>1, <1>2, <1>3, <1>4, SweepQuiet DEF Sweeping

(* may_free_rsocfl gives back free chunks.                                 *)
LEMMA FreeChunkInv == ASSUME TableInv, HeapInv, FreeChunk PROVE HeapInv' /\ (Compact => Compact')
<1> DEFINE c == Head(rest)
<1>1. /\ pc = "free" /\ pc' = "free" /\ rest # <<>>
      /\ UNCHANGED <<word, live, attr, req, rsoh, nae, heads, arrays>>
      /\ \/ ~IsWhole(c) /\ UNCHANGED <<gcmt, chunk>>
         \/ IsWhole(c) /\ chunk' = [chunk EXCEPT ![c] = NoChunk]
  BY DEF FreeChunk, progVars
<1>2. SamePlaces
  BY <1>1 DEF SamePlaces, Passed, Done
<1>3. SweepAt' /\ BeforeGp
  BY <1>1 DEF SweepAt, BeforeGp
<1>4. HeapGood' /\ SameChunksInUse
  <2>1. CASE UNCHANGED <<gcmt, chunk>>
    BY <1>1, <2>1, SameGood DEF SameChunksInUse, InUse
  <2>2. CASE IsWhole(c) /\ chunk' = [chunk EXCEPT ![c] = NoChunk]
    <3>1. PICK j \in 1 .. Len(gcmt) : gcmt[j] = Head(rest) /\ gcmt' = RemoveAt(gcmt, j)
      BY <2>2, FreeChunkPlace
    <3>2. gcmt \in Seq(Addr) /\ Increasing(gcmt) /\ Shape(chunk)
      BY DEF TableInv
    <3>3. Mem(gcmt') = Mem(gcmt) \ {c}
      <4>1. Mem(RemoveAt(gcmt, j)) = Mem(gcmt) \ {gcmt[j]}
        BY <3>1, <3>2, RemovedFacts, AddrNat
      <4> QED
        BY <3>1, <4>1
    <3>4. chunk[c].state = "free"
      <4>1. /\ rest \in Seq(Addr) /\ Decreasing(rest)
            /\ Mem(rest) \cup Mem(rsocfl) = FreeIn(Mem(gcmt), chunk)
        BY <1>1 DEF TableInv, FreeLists
      <4>2. c \in Mem(rest)
        BY <1>1, <4>1, TailFacts, AddrNat
      <4> QED
        BY <4>1, <4>2 DEF FreeIn
    <3>5. \A a \in Addr : a # c => chunk'[a] = chunk[a]
      <4>1. \A a \in Addr : a # c => Dropped(chunk, c)[a] = chunk[a]
        BY <3>2, DroppedFacts
      <4> QED
        BY <2>2, <4>1 DEF Dropped
    <3>6. UsedIn(Mem(gcmt'), chunk') = InUse /\ SameChunks2(InUse, chunk, chunk')
      BY <3>3, <3>4, <3>5, MemAddr DEF InUse, UsedIn, SameChunks2
    <3>7. Good(InUse, chunk, rsoh, nae, heads, arrays)
      BY DEF HeapInv, HeapGood
    <3>8. Good(InUse, chunk', rsoh, nae, heads, arrays)
      BY <3>6, <3>7, HeapFrame
    <3> QED
      BY <1>1, <3>6, <3>8, GoodNext DEF SameChunksInUse, SameChunks2
  <2> QED
    BY <1>1, <2>1, <2>2
<1> QED
  BY <1>1, <1>2, <1>3, <1>4, SweepQuiet DEF Sweeping

(* gc_start returns: no array is marked any more.                          *)
LEMMA EndSweepInv == ASSUME TableInv, HeapInv, EndSweep PROVE HeapInv'
<1>1. /\ (pc = "enter" /\ p1 > Len(gcmt)) \/ pc = "free"
      /\ pc' \in {"run", "resume"}
      /\ UNCHANGED <<gcmt, chunk, word, live, attr, req, rsoh, nae, heads, arrays>>
  BY DEF EndSweep, memVars, progVars, histVars
<1>2. pc \in Sweeping /\ pc' \notin Collecting
  BY <1>1 DEF Sweeping, Collecting, Marking
<1>3. HeapGood'
  BY <1>1, SameGood
<1>4. Shapes'
  BY <1>1, SameShapes DEF HeapInv, Shapes
<1>5. Headers'
  <2>1. \A t \in Types : Valid(rsoh, nae, t)
    BY <1>2, SweepFacts
  <2>2. req = <<>> \/ \E t \in Types : Asked(t)
    BY DEF HeapInv, Headers
  <2>3. CASE req = <<>>
    BY <1>1, <1>2, <2>3 DEF Headers
  <2>4. CASE \E t \in Types : Asked(t)
    <3>1. PICK t \in Types : Asked(t)
      BY <2>4
    <3>2. Valid(rsoh', nae', t) /\ Asked(t)'
      BY <1>1, <2>1, <3>1 DEF Asked, Valid
    <3> QED
      BY <1>1, <1>2, <3>2 DEF Headers
  <2> QED
    BY <2>2, <2>3, <2>4
<1>6. \A h \in StartsOf(arrays) : ~IsMarked(h)
  <2>1. \A h \in StartsOf(arrays) : Passed(h) => ~IsMarked(h)
    BY <1>2, SweepFacts
  <2> QED
    BY <1>1, <2>1, SweptAll
<1>7. Marks'
  <2>1. Roots' = Roots /\ Roots \subseteq StartsOf(arrays)
    BY <1>1, SameRoots
  <2>2. Roots' \subseteq StartsOf(arrays') /\ \A h \in StartsOf(arrays') : ~IsMarked(h)'
    BY <1>1, <1>6, <2>1 DEF IsMarked
  <2> QED
    BY <1>2, <2>2 DEF Marks, Collecting
<1>8. WalkAt' /\ SweepAt'
  BY <1>1 DEF WalkAt, SweepAt
<1> QED
  BY <1>3, <1>4, <1>5, <1>7, <1>8 DEF HeapInv
-----------------------------------------------------------------------------
(* The type in the header of a chunk is one of Types.                      *)
NaeOk(ck) == \A a \in Addr : ck[a].nae \in Types
UsedSet(ck, ck2, c, n, t) == ck2 = Used(ck, c, n, t)
MallocSet(ck, ck2, c, n, t) == ck2 = Used([ck EXCEPT ![c].isize = n], c, n, t)
DroppedSet(ck, ck2, c) == ck2 = [ck EXCEPT ![c] = NoChunk]

LEMMA SetKeeps ==
  ASSUME NEW ck, Shape(ck), NaeOk(ck), NEW ck2, NEW c,
         (\E f : FlolSet(ck, ck2, c, f)) \/ (c \in Addr /\ \E s : StateSet(ck, ck2, c, s))
  PROVE  NaeOk(ck2)
<1>1. ASSUME NEW f, FlolSet(ck, ck2, c, f) PROVE NaeOk(ck2)
  <2>1. \A a \in Addr : [ck EXCEPT ![c].flol = f][a].nae = ck[a].nae
    BY FlolChanged
  <2> QED
    BY <1>1, <2>1 DEF NaeOk, FlolSet
<1>2. ASSUME c \in Addr, NEW s, StateSet(ck, ck2, c, s) PROVE NaeOk(ck2)
  <2>1. /\ ck2[c] = Header(s, ck[c].size, ck[c].isize, ck[c].nae, ck[c].flol)
        /\ \A a \in Addr : a # c => ck2[a] = ck[a]
    BY <1>2, StateAssign
  <2> QED
    BY <2>1 DEF NaeOk, Header
<1> QED
  BY <1>1, <1>2

LEMMA UsedKeeps ==
  ASSUME NEW ck, Shape(ck), NaeOk(ck), NEW ck2, NEW c \in Addr, NEW n, NEW t \in Types,
         UsedSet(ck, ck2, c, n, t) \/ MallocSet(ck, ck2, c, n, t)
  PROVE  NaeOk(ck2)
<1>1. ASSUME NEW k, Shape(k), NaeOk(k), UsedSet(k, ck2, c, n, t) PROVE NaeOk(ck2)
  <2>1. LET u == Used(k, c, n, t) IN
        /\ Shape(u) /\ u[c] = Header("used", n, k[c].isize, t, <<>>)
        /\ \A a \in Addr : a # c => u[a] = k[a]
    BY <1>1, UsedFacts
  <2>2. ck2[c] = Header("used", n, k[c].isize, t, <<>>) /\ \A a \in Addr : a # c => ck2[a] = k[a]
    BY <1>1, <2>1 DEF UsedSet
  <2> QED
    BY <1>1, <2>2 DEF NaeOk, Header
<1>2. CASE MallocSet(ck, ck2, c, n, t)
  <2> DEFINE k == [ck EXCEPT ![c].isize = n]
  <2>1. /\ Shape(k) /\ k[c] = Header(ck[c].state, ck[c].size, n, ck[c].nae, ck[c].flol)
        /\ \A a \in Addr : a # c => k[a] = ck[a]
    BY IsizeChanged
  <2>2. UsedSet(k, ck2, c, n, t)
    BY <1>2 DEF MallocSet, UsedSet
  <2> HIDE DEF k
  <2>3. NaeOk(k)
    BY <2>1 DEF NaeOk, Header
  <2> QED
    BY <1>1, <2>1, <2>2, <2>3
<1> QED
  BY <1>1, <1>2

LEMMA DroppedKeeps ==
  ASSUME NEW ck, Shape(ck), NaeOk(ck), NEW ck2, NEW c \in Addr,
         DroppedSet(ck, ck2, c) \/ \E n, d : d \in Addr /\ d # c /\ MergedTo(ck, ck2, d, c, n)
  PROVE  NaeOk(ck2)
<1>1. NoChunk.nae \in Types
  BY RsoAssumption DEF NoChunk
<1>2. ASSUME NEW k, Shape(k), NaeOk(k), ck2 = Dropped(k, c) PROVE NaeOk(ck2)
  <2>1. \A a \in Addr : a # c => ck2[a] = k[a]
    BY <1>2, DroppedFacts
  <2>2. ck2[c] = NoChunk
    <3>1. k = [a \in Addr |-> Header(k[a].state, k[a].size, k[a].isize, k[a].nae, k[a].flol)]
      BY <1>2 DEF Shape
    <3>2. c \in DOMAIN k
      BY <3>1
    <3> QED
      BY <1>2, <3>2 DEF Dropped
  <2> QED
    BY <1>1, <1>2, <2>1, <2>2 DEF NaeOk
<1>3. CASE DroppedSet(ck, ck2, c)
  BY <1>2, <1>3 DEF DroppedSet, Dropped
<1>4. ASSUME NEW n, NEW d \in Addr, d # c, MergedTo(ck, ck2, d, c, n) PROVE NaeOk(ck2)
  <2> DEFINE k == [ck EXCEPT ![d].size = n]
  <2>1. /\ Shape(k) /\ k[d] = Header(ck[d].state, n, ck[d].isize, ck[d].nae, ck[d].flol)
        /\ \A a \in Addr : a # d => k[a] = ck[a]
    BY SizeChanged
  <2>2. ck2 = Dropped(k, c)
    BY <1>4 DEF MergedTo, Dropped
  <2> HIDE DEF k
  <2>3. NaeOk(k)
    BY <2>1 DEF NaeOk, Header
  <2> QED
    BY <1>2, <2>1, <2>2, <2>3
<1> QED
  BY <1>3, <1>4
LEMMA TypedBy ==
  ASSUME TableInv, Typed
  PROVE  /\ Shape(chunk) /\ NaeOk(chunk) /\ (NaeOk(chunk') => Typed')
         /\ (chunk' = chunk => Typed')
BY DEF TableInv, Typed, NaeOk

LEMMA TypedNew ==
  ASSUME TableInv, Typed, NEW t \in Types, NEW n, NEW w, NewFromStore(t, n, w) \/ NewNa(t, n, w)
  PROVE  Typed'
<1>1. CASE chunk' = chunk
  BY <1>1, TypedBy
<1>2. CASE \E c, f : FlolSet(chunk, chunk', c, f)
  BY <1>2, TypedBy, SetKeeps
<1>3. CASE NewNa(t, n, w) /\ chunk' # chunk
  <2>1. chunk' = [chunk EXCEPT ![nae[t].store_chunk].flol = Cons(nae[t].store, chunk[nae[t].store_chunk].flol)]
    BY <1>3 DEF NewNa
  <2> QED
    BY <1>2, <2>1 DEF FlolSet
<1> QED
  BY <1>1, <1>3 DEF NewFromStore

LEMMA TypedGoesOn ==
  ASSUME TableInv, HeapInv, Typed, NewGoesOn PROVE Typed'
<1> PICK t \in Types : \E n \in Sizes[t], w \in Words : GoesOn(t, n, w)
  BY DEF NewGoesOn, GoesOn
<1> PICK n \in Sizes[t], w \in Words : GoesOn(t, n, w)
  OBVIOUS
<1>1. CASE NewInStoreChunk(t, n, w) \/ NewInChunkList(t, n, w)
  <2>1. ASSUME NEW c, GetStoreIn(c, t, n, w) PROVE Typed'
    <3>1. \E f : FlolSet(chunk, chunk', c, f)
      BY <2>1 DEF GetStoreIn, FlolSet
    <3> QED
      BY <3>1, TypedBy, SetKeeps
  <2> QED
    BY <1>1, <2>1 DEF NewInStoreChunk, NewInChunkList
<1>2. CASE NewInFreeChunk(t, n, w)
  <2>1. PICK c \in FreeIn(Mem(gcmt), chunk) :
          /\ c \in Addr
          /\ \/ \E d : TakesEnd(t, n, w, c, d)
             \/ \E m : TakesPart(t, n, w, c, m)
    BY <1>2, FreeTaken DEF HeapInv, Shapes
  <2>2. ASSUME NEW d, TakesEnd(t, n, w, c, d) PROVE NaeOk(chunk')
    <3>1. /\ chunk'[c] = Header("free", d - c, chunk[c].isize, chunk[c].nae, chunk[c].flol)
          /\ chunk'[d] = Header("used", n + Overhead, 0, t, <<>>)
          /\ \A a \in Addr \ {c, d} : chunk'[a] = chunk[a]
      BY <2>2 DEF TakesEnd, IsSplitOff
    <3>2. chunk'[c].nae = chunk[c].nae /\ chunk'[d].nae = t
      BY <3>1 DEF Header
    <3> QED
      BY <2>1, <3>1, <3>2, TypedBy DEF NaeOk
  <2>3. ASSUME NEW m, TakesPart(t, n, w, c, m) PROVE NaeOk(chunk')
    <3>1. UsedSet(chunk, chunk', c, m, t)
      BY <2>3 DEF TakesPart, UsedSet
    <3> QED
      BY <2>1, <3>1, TypedBy, UsedKeeps
  <2> QED
    BY <2>1, <2>2, <2>3, TypedBy
<1>3. CASE NewMalloc(t, n, w) \/ ResumeMalloc(t, n, w)
  <2>1. Malloc(t, n, w)
    BY <1>3 DEF NewMalloc, ResumeMalloc
  <2> DEFINE m == IF n + Overhead > RSOC_SIZE THEN Rounded(n + Overhead) ELSE RSOC_SIZE
  <2>2. PICK c \in Available(m) : chunk' = Used([chunk EXCEPT ![c].isize = m], c, m, t)
    BY <2>1 DEF Malloc
  <2>3. c \in Addr /\ MallocSet(chunk, chunk', c, m, t)
    BY <2>2, RsoAssumption DEF Addr, MallocSet, Available
  <2> HIDE DEF m
  <2> QED
    BY <2>3, TypedBy, UsedKeeps
<1>4. CASE NewCollects(t, n, w) \/ ResumeFromStore(t, n, w) \/ OutOfMemory(t, n, w)
  BY <1>4, TypedBy DEF NewCollects, GcStart, ResumeFromStore, OutOfMemory, memVars
<1> QED
  BY <1>1, <1>2, <1>3, <1>4 DEF GoesOn

LEMMA TypedSweep ==
  ASSUME TableInv, Typed, Collector PROVE Typed'
<1>1. CASE chunk' = chunk
  BY <1>1, TypedBy
<1>2. CASE \E c, f : FlolSet(chunk, chunk', c, f)
  BY <1>2, TypedBy, SetKeeps
<1>3. CASE \E c \in Addr : \E s : StateSet(chunk, chunk', c, s)
  BY <1>3, TypedBy, SetKeeps
<1>4. CASE SkipWord \/ MarkLarge \/ StartWalk \/ Walk \/ EndWalk
  BY <1>1, <1>4 DEF SkipWord, MarkLarge, StartWalk, Walk, EndWalk, NextWord, MarkVarsRest
<1>5. CASE BeginSweep \/ SweepMarked \/ SweepFree \/ Coalesce \/ MayFree \/ EndSweep
  BY <1>1, <1>5 DEF BeginSweep, SweepMarked, SweepFree, Coalesce, MayFree, EndSweep, memVars
<1>6. CASE EnterChunk
  <2>1. chunk' = chunk \/ chunk' = [chunk EXCEPT ![cur].flol = <<>>]
    BY <1>6 DEF EnterChunk
  <2> QED
    BY <1>1, <1>2, <2>1 DEF FlolSet
<1>7. CASE SweepLarge \/ EndChunk
  <2>1. pc = "sweep" /\ (chunk' = chunk \/ chunk' = [chunk EXCEPT ![cur].state = "free"])
    BY <1>7 DEF SweepLarge, EndChunk, InBlocks
  <2>2. cur \in Addr
    BY <2>1, CurFacts
  <2> QED
    BY <1>1, <1>3, <2>1, <2>2 DEF StateSet
<1>8. CASE CloseRun
  <2>1. \/ chunk' = chunk
        \/ \E c, h : chunk' = [chunk EXCEPT ![c].flol = Cons(h, chunk[c].flol)]
    BY <1>8, Zenon DEF CloseRun
  <2> QED
    BY <1>1, <1>2, <2>1 DEF FlolSet
<1>9. CASE Link
  <2>1. /\ pc = "link"
        /\ \/ chunk' = chunk
           \/ p1 > 1 /\ \E n : MergedTo(chunk, chunk', gcmt[p1 - 1], cur, n)
    BY <1>9 DEF Link, Merges, MergedTo
  <2>2. p1 \in 1 .. Len(gcmt) /\ cur \in Addr /\ gcmt \in Seq(Addr) /\ Increasing(gcmt)
    BY <2>1, CurFacts DEF TableInv
  <2>3. ASSUME p1 > 1 PROVE gcmt[p1 - 1] \in Addr /\ gcmt[p1 - 1] # cur
    <3>1. p1 - 1 \in 1 .. Len(gcmt) /\ p1 - 1 < p1
      BY <2>2, <2>3
    <3>2. gcmt[p1 - 1] \in Addr /\ gcmt[p1 - 1] < cur
      BY <2>2, <3>1 DEF Increasing, cur
    <3> QED
      BY <2>2, <3>2, AddrNat
  <2>4. ASSUME p1 > 1, NEW n, MergedTo(chunk, chunk', gcmt[p1 - 1], cur, n) PROVE Typed'
    BY <2>2, <2>3, <2>4, TypedBy, DroppedKeeps
  <2> QED
    BY <1>1, <2>1, <2>4
<1>10. CASE FreeChunk
  <2>1. /\ pc = "free" /\ rest # <<>>
        /\ chunk' = chunk \/ chunk' = [chunk EXCEPT ![Head(rest)] = NoChunk]
    BY <1>10 DEF FreeChunk
  <2>2. rest \in Seq(Addr) /\ Decreasing(rest)
    BY <2>1 DEF TableInv, FreeLists
  <2>3. Head(rest) \in Addr
    BY <2>1, <2>2, TailFacts, AddrNat
  <2>4. ASSUME chunk' = [chunk EXCEPT ![Head(rest)] = NoChunk] PROVE Typed'
    <3>1. DroppedSet(chunk, chunk', Head(rest))
      BY <2>4 DEF DroppedSet
    <3> QED
      BY <2>3, <3>1, TypedBy, DroppedKeeps
  <2> QED
    BY <1>1, <2>1, <2>4
<1> QED
  BY <1>4, <1>5, <1>6, <1>7, <1>8, <1>9, <1>10 DEF Collector
LEMMA TypedNext ==
  ASSUME TableInv, HeapInv, Typed, [Next]_vars PROVE Typed'
<1>1. CASE Program \/ FullCollect \/ Halted \/ UNCHANGED vars
  <2>1. chunk' = chunk
    BY <1>1 DEF Program, LeaveScope, Assign, Switch, Exit, progRest, FullCollect, GcStart, Halted,
                vars, memVars
  <2> QED
    BY <2>1, TypedBy
<1>2. CASE New
  BY <1>2, TypedNew DEF New
<1>3. CASE NewGoesOn
  BY <1>3, TypedGoesOn
<1>4. CASE Collector
  BY <1>4, TypedSweep
<1> QED
  BY <1>1, <1>2, <1>3, <1>4 DEF Next
-----------------------------------------------------------------------------
(* The invariant holds at first and is kept by every step.                 *)
LEMMA HeapInit == ASSUME Init PROVE HeapInv /\ Typed
<1>1. /\ gcmt = <<>> /\ chunk = [a \in Addr |-> NoChunk]
      /\ rsoh = [a \in Addr |-> [size |-> 0, flag |-> DATA]]
      /\ nae = [t \in Types |-> [store_left |-> 0, store |-> 0, store_chunk |-> 0, chunk_list |-> <<>>]]
      /\ word = [w \in Words |-> 0] /\ live = [w \in Words |-> FALSE]
      /\ attr = [f \in Fields |-> 0]
      /\ pc = "run" /\ req = <<>> /\ heads = {} /\ arrays = {}
  BY DEF Init
<1>2. Typed
  <2>1. NoChunk.nae \in Types
    BY RsoAssumption DEF NoChunk
  <2> QED
    BY <1>1, <2>1 DEF Typed
<1>3. Mem(<<>>) = {} /\ InUse = {} /\ StartsOf(arrays) = {}
  BY <1>1 DEF Mem, InUse, UsedIn, StartsOf
<1>4. HeapGood
  <2>1. Tiles(InUse, chunk, heads, <<>>)
    BY <1>1, <1>3 DEF Tiles, UsedApart
  <2>2. Contents(rsoh, nae, heads, arrays, <<>>)
    BY <1>1 DEF Contents
  <2>3. Stores(InUse, chunk, nae, heads, <<>>)
    <3>1. \A t \in Types : nae[t].store_left = 0 /\ nae[t].store_chunk = 0 /\ nae[t].chunk_list = <<>>
      BY <1>1
    <3>2. \A t \in Types : nae[t].chunk_list \in Seq(Addr) /\ Mem(nae[t].chunk_list) = {}
      <4>1. <<>> \in Seq(Addr)
        OBVIOUS
      <4> QED
        BY <1>3, <3>1, <4>1, Zenon
    <3>3. \A t \in Types : nae[t].store_left \in Nat /\ ~(nae[t].store_left > 0)
      BY <3>1
    <3> HIDE <1>1
    <3> QED
      BY <3>1, <3>2, <3>3 DEF Stores, StoreIn, ChunksOf
  <2>4. Lists(InUse, chunk, nae, heads, arrays)
    BY <1>3 DEF Lists
  <2> QED
    BY <2>1, <2>2, <2>3, <2>4 DEF HeapGood, Good, Heap
<1>5. Shapes
  <2>1. Blocks(rsoh)
    BY <1>1 DEF Blocks, Block
  <2>2. Envs(nae)
    BY <1>1 DEF Envs, Env
  <2> QED
    BY <1>1, <2>1, <2>2 DEF Shapes
<1>6. Headers
  BY <1>1 DEF Headers, Collecting, Marking, Sweeping
<1>7. Marks
  <2>1. Roots = {}
    BY <1>1 DEF Roots
  <2> QED
    BY <1>1, <1>3, <2>1 DEF Marks, Collecting, Marking, Sweeping
<1>8. WalkAt /\ SweepAt
  BY <1>1 DEF WalkAt, SweepAt
<1> QED
  BY <1>2, <1>4, <1>5, <1>6, <1>7, <1>8 DEF HeapInv

LEMMA HeapStutter == ASSUME HeapInv, UNCHANGED vars PROVE HeapInv'
<1>1. UNCHANGED <<gcmt, chunk, rsoh, nae, word, live, attr, pc, req, wi, pf, p1, gp, pp, heads, arrays>>
  BY DEF vars, memVars, progVars, markVars, sweepVars, histVars
<1>2. HeapGood'
  BY <1>1, SameGood
<1>3. Shapes'
  BY <1>1, SameShapes DEF HeapInv, Shapes
<1>4. Headers'
  BY <1>1 DEF HeapInv, Headers, Asked, Valid
<1>5. cur' = cur /\ InUse' = InUse
  BY <1>1 DEF cur, InUse, UsedIn, Mem
<1>6. \A h : (Passed(h)' <=> Passed(h)) /\ (Done(h)' <=> Done(h))
  BY <1>1, <1>5 DEF Passed, Done, ChunkEnd
<1>7. Marks'
  <2>1. Roots' = Roots /\ Held' = Held
    BY <1>1 DEF Roots, Held
  <2>2. (MarkedSoFar' <=> MarkedSoFar) /\ \A h : IsMarked(h)' <=> IsMarked(h)
    BY <1>1 DEF MarkedSoFar, NoStores, IsMarked
  <2>3. StoresPassed => StoresPassed'
    <3>1. \A t \in Types : Passed(nae[t].store)' <=> Passed(nae[t].store)
      BY <1>1, <1>6
    <3> QED
      BY <1>1, <1>6, <3>1 DEF StoresPassed
  <2>4. SweptSoFar => SweptSoFar'
    BY <1>1, <1>6, <2>1, <2>2, <2>3 DEF SweptSoFar
  <2> QED
    BY <1>1, <2>1, <2>2, <2>4 DEF HeapInv, Marks
<1>8. WalkAt'
  BY <1>1, <1>5 DEF HeapInv, WalkAt, InC, ChunkEnd
<1>9. SweepAt'
  BY <1>1, <1>5 DEF HeapInv, SweepAt, InC, ChunkEnd, First
<1> QED
  BY <1>2, <1>3, <1>4, <1>7, <1>8, <1>9 DEF HeapInv

LEMMA HeapNext == ASSUME TableInv, Typed, HeapInv, [Next]_vars PROVE HeapInv'
<1>1. CASE Program
  BY <1>1, ProgramInv
<1>2. CASE New
  BY <1>2, NewInv
<1>3. CASE NewGoesOn
  BY <1>3, NewGoesOnInv
<1>4. CASE FullCollect
  BY <1>4, FullCollectInv
<1>5. CASE SkipWord \/ MarkLarge \/ StartWalk \/ Walk \/ EndWalk \/ BeginSweep
  BY <1>5, SkipWordInv, MarkLargeInv, StartWalkInv, WalkInv, EndWalkInv, BeginSweepInv
<1>6. CASE EnterChunk \/ SweepLarge \/ SweepMarked \/ SweepFree \/ Coalesce \/ CloseRun \/ EndChunk
  BY <1>6, EnterChunkInv, SweepLargeInv, SweepMarkedInv, SweepFreeInv, CoalesceInv, CloseRunInv, EndChunkInv
<1>7. CASE Link \/ MayFree \/ FreeChunk \/ EndSweep
  BY <1>7, LinkInv, MayFreeInv, FreeChunkInv, EndSweepInv
<1>8. CASE Halted \/ UNCHANGED vars
  BY <1>8, HeapStutter DEF Halted
<1> QED
  BY <1>1, <1>2, <1>3, <1>4, <1>5, <1>6, <1>7, <1>8 DEF Next, Collector

(* The blocks fill the chunks, and every array in use is marked when the   *)
(* sweep meets it, in every state of every execution.                      *)
THEOREM HeapInvariance == Spec => [](TableInv /\ Typed /\ HeapInv)
<1>1. Init => TableInv /\ Typed /\ HeapInv
  BY TableInit, HeapInit
<1>2. TableInv /\ Typed /\ HeapInv /\ [Next]_vars => (TableInv /\ Typed /\ HeapInv)'
  BY TableNext, TypedNext, HeapNext
<1> QED
  BY <1>1, <1>2, PTL DEF Spec
-----------------------------------------------------------------------------
(* What the invariant says, in the terms of the properties.                *)
LEMMA BlocksAre ==
  ASSUME TableInv, HeapInv
  PROVE  /\ UsedChunks = InUse /\ InUse \subseteq Addr /\ \A c \in InUse : ToSet(chunk[c].flol) = Mem(chunk[c].flol)
         /\ \E sz : Heap(InUse, chunk, rsoh, nae, heads, arrays, sz)
<1>1. gcmt \in Seq(Addr)
  BY DEF TableInv
<1>2. PICK sz : Heap(InUse, chunk, rsoh, nae, heads, arrays, sz)
  BY DEF HeapInv, HeapGood, Good
<1>3. \A c \in InUse : chunk[c].flol \in Seq(Addr)
  BY <1>2 DEF Heap, Lists, Listed
<1>4. UsedChunks = InUse
  BY <1>1 DEF UsedChunks, Chunks, ToSet, InUse, UsedIn, Mem
<1>5. \A c \in InUse : ToSet(chunk[c].flol) = Mem(chunk[c].flol)
  BY <1>3 DEF ToSet, Mem
<1> QED
  BY <1>2, <1>4, <1>5, MemAddr DEF InUse, UsedIn

(* A block that is no array does not meet an array.                        *)
LEMMA ArrayApart ==
  ASSUME NEW U, NEW ck, NEW rs, NEW nv, NEW hd, NEW ar, NEW sz, Heap(U, ck, rs, nv, hd, ar, sz),
         NEW a \in ar, NEW h \in hd, h # a[1], NEW m \in Nat, m <= sz[h]
  PROVE  ~Overlap(a[1], a[2], h, m)
<1>1. /\ a[1] \in hd /\ a[2] \in Nat /\ a[2] <= sz[a[1]]
      /\ \A g \in hd : g \in Nat /\ sz[g] \in Nat
      /\ \A g, k \in hd : g < k => g + sz[g] <= k
  BY AddrNat DEF Heap, Contents, Tiles
<1>2. h < a[1] \/ a[1] < h
  BY <1>1
<1>3. \/ h + sz[h] <= a[1]
      \/ a[1] + sz[a[1]] <= h
  BY <1>1, <1>2
<1>4. h \in Nat /\ a[1] \in Nat /\ sz[h] \in Nat /\ sz[a[1]] \in Nat
  BY <1>1
<1>5. h + m <= a[1] \/ a[1] + a[2] <= h
  BY <1>1, <1>3, <1>4
<1> QED
  BY <1>1, <1>4, <1>5 DEF Overlap

LEMMA ArraysApart == ASSUME TableInv, HeapInv PROVE ArraysSafe
<1>1. PICK sz : Heap(InUse, chunk, rsoh, nae, heads, arrays, sz)
  BY BlocksAre
<1>2. ASSUME NEW a \in arrays, NEW b \in arrays, a # b PROVE ~Overlap(a[1], a[2], b[1], b[2])
  <2>1. a[1] # b[1] /\ b[1] \in heads /\ b[2] \in Nat /\ b[2] <= sz[b[1]]
    BY <1>1, <1>2 DEF Heap, Contents
  <2> QED
    BY <1>1, <2>1, ArrayApart
<1>3. ASSUME NEW a \in arrays PROVE \E c \in InUse : First(c) <= a[1] /\ a[1] + a[2] <= End(c)
  <2>1. a[1] \in heads /\ a[2] \in Nat /\ a[2] <= sz[a[1]]
    BY <1>1 DEF Heap, Contents
  <2>2. PICK c \in InUse : InC(chunk, c, a[1]) /\ FitsIn(chunk, c, a[1], heads, sz)
    BY <1>1, <2>1 DEF Heap, Tiles
  <2>3. /\ a[1] \in Nat /\ sz[a[1]] \in Nat /\ c \in Nat /\ chunk[c].size \in Nat
    BY <1>1, <2>1, AddrNat DEF Heap, Tiles, UsedApart
  <2>4. First(c) <= a[1] /\ a[1] + sz[a[1]] <= ChunkEnd(chunk, c)
    BY <2>2 DEF InC, FitsIn
  <2>5. a[1] + a[2] <= End(c)
    BY <2>1, <2>3, <2>4 DEF ChunkEnd, End
  <2> QED
    BY <2>4, <2>5
<1>4. ASSUME NEW a \in arrays, NEW t \in Types, nae[t].store_left > 0
      PROVE  ~Overlap(a[1], a[2], nae[t].store, nae[t].store_left)
  <2>1. /\ nae[t].store \in heads /\ sz[nae[t].store] = nae[t].store_left /\ nae[t].store_left \in Nat
        /\ nae[t].store \notin StartsOf(arrays)
    BY <1>1, <1>4, StoreAt
  <2>2. nae[t].store # a[1] /\ nae[t].store_left <= sz[nae[t].store]
    BY <2>1 DEF StartsOf
  <2> QED
    BY <1>1, <2>1, <2>2, ArrayApart
<1>5. ASSUME NEW a \in arrays, NEW c \in InUse, NEW h \in Mem(chunk[c].flol)
      PROVE  ~Overlap(a[1], a[2], h, rsoh[h].size)
  <2>1. FreeBlock(nae, heads, arrays, h)
    BY <1>1 DEF Heap, Lists, Listed
  <2>2. h \in heads /\ h # a[1] /\ sz[h] = rsoh[h].size /\ sz[h] \in Nat
    BY <1>1, <2>1 DEF FreeBlock, StartsOf, Heap, Contents, Tiles
  <2>3. rsoh[h].size \in Nat /\ rsoh[h].size <= sz[h]
    BY <2>2
  <2> QED
    BY <1>1, <2>2, <2>3, ArrayApart
<1> QED
  BY <1>2, <1>3, <1>4, <1>5, BlocksAre DEF ArraysSafe

LEMMA BlocksTile == ASSUME TableInv, HeapInv PROVE HeapTiled
<1>1. PICK sz : Heap(InUse, chunk, rsoh, nae, heads, arrays, sz)
  BY BlocksAre
<1>2. ASSUME NEW h \in heads PROVE Extent(h) = sz[h]
  <2>1. CASE IsStore(nae, h)
    <3>1. PICK t \in Types : nae[t].store_left > 0 /\ nae[t].store = h
      BY <2>1 DEF IsStore
    <3> DEFINE E == {nae[u] : u \in Types}
               e == CHOOSE x \in E : x.store_left > 0 /\ x.store = h
    <3>2. e \in E /\ e.store_left > 0 /\ e.store = h
      BY <3>1
    <3>3. PICK u \in Types : e = nae[u]
      BY <3>2
    <3>4. u = t
      BY <1>1, <3>1, <3>2, <3>3, OneStore
    <3>5. sz[h] = nae[t].store_left
      BY <1>1, <3>1, StoreAt
    <3>6. Extent(h) = e.store_left
      BY <3>1 DEF Extent
    <3> HIDE DEF e
    <3> QED
      BY <3>3, <3>4, <3>5, <3>6
  <2>2. CASE ~IsStore(nae, h)
    <3>1. sz[h] = rsoh[h].size
      BY <1>1, <2>2 DEF Heap, Contents
    <3> QED
      BY <2>2, <3>1 DEF Extent, IsStore
  <2> QED
    BY <2>1, <2>2
<1>3. ASSUME NEW c \in InUse, chunk[c].size <= RSOC_SIZE, NEW h \in InChunk(c)
      PROVE  LET e == h + Extent(h) IN
             /\ e > h + 1
             /\ e \in heads \/ e = End(c)
             /\ \A g \in heads : ~(h < g /\ g < e)
  <2>1. h \in heads /\ c <= h /\ h < ChunkEnd(chunk, c)
    BY DEF InChunk, End, ChunkEnd
  <2>2. InC(chunk, c, h)
    BY <1>1, <2>1, HeadsBetween DEF Good
  <2>3. FitsIn(chunk, c, h, heads, sz)
    BY <1>1, <2>1, <2>2, FitsChunk DEF Heap
  <2>4. h + sz[h] \in heads \/ h + sz[h] = End(c)
    BY <1>3, <2>3 DEF FitsIn, ChunkEnd, End
  <2>5. /\ h \in Nat /\ sz[h] \in Nat /\ sz[h] > 1 /\ \A g \in heads : g \in Nat
        /\ \A g \in heads : h < g => h + sz[h] <= g
    BY <1>1, <2>1, AddrNat DEF Heap, Tiles
  <2>6. \A g \in heads : ~(h < g /\ g < h + sz[h])
    BY <2>5
  <2>7. h + sz[h] > h + 1
    BY <2>5
  <2> QED
    BY <1>2, <2>1, <2>4, <2>6, <2>7
<1>4. \A c \in InUse : First(c) \in heads
  BY <1>1 DEF Heap, Tiles
<1> QED
  BY <1>3, <1>4, BlocksAre DEF HeapTiled

LEMMA RootsHeld == ASSUME HeapInv PROVE NoDangling
<1>1. Roots \subseteq Starts
  BY StartsAre DEF HeapInv, Marks
<1> QED
  BY <1>1 DEF NoDangling, Roots
(* gc_start returns from the end of the sweep only.                        *)
LEMMA NewGoesOnQuiet == ASSUME NewGoesOn PROVE pc \in {"new", "resume"} /\ pc' \notin Sweeping
<1> PICK t \in Types : \E n \in Sizes[t], w \in Words : GoesOn(t, n, w)
  BY DEF NewGoesOn, GoesOn
<1> PICK n \in Sizes[t], w \in Words : GoesOn(t, n, w)
  OBVIOUS
<1>1. \A e : FromStore(t, e, n, w) => pc' = "run"
  BY FromStoreQuiet
<1>2. \A c : GetStoreIn(c, t, n, w) => pc' = "run"
  BY <1>1 DEF GetStoreIn
<1>3. Malloc(t, n, w) => pc' = "run"
  BY <1>1 DEF Malloc, Return
<1>4. CASE NewInStoreChunk(t, n, w) \/ NewInChunkList(t, n, w)
  BY <1>2, <1>4 DEF NewInStoreChunk, NewInChunkList, Looking, Sweeping
<1>5. CASE NewInFreeChunk(t, n, w)
  BY <1>1, <1>5 DEF NewInFreeChunk, Looking, Sweeping
<1>6. CASE NewMalloc(t, n, w) \/ ResumeMalloc(t, n, w) \/ OutOfMemory(t, n, w)
  BY <1>3, <1>6 DEF NewMalloc, ResumeMalloc, OutOfMemory, Nothing, Looking, Sweeping
<1>7. CASE NewCollects(t, n, w) \/ ResumeFromStore(t, n, w)
  BY <1>1, <1>7 DEF NewCollects, GcStart, ResumeFromStore, Sweeping
<1> QED
  BY <1>4, <1>5, <1>6, <1>7 DEF GoesOn

(* Only the sweep's own actions reach or leave it.                         *)
SweepActs ==
  \/ EnterChunk \/ SweepLarge \/ SweepMarked \/ SweepFree \/ Coalesce \/ CloseRun \/ EndChunk
  \/ Link \/ MayFree \/ FreeChunk

LEMMA SweepsBy ==
  ASSUME [Next]_vars, pc \in Sweeping \/ pc' \in Sweeping
  PROVE  BeginSweep \/ SweepActs \/ EndSweep \/ UNCHANGED vars
<1>1. CASE Program \/ New \/ FullCollect
  <2>1. \A t, n, w : FromStore(t, nae[t], n, w) => pc' = "run"
    BY FromStoreQuiet
  <2>2. GcStart(<<>>) => pc' \in {"run", "mark"}
    BY DEF GcStart
  <2>3. pc = "run" /\ pc' \in {"run", "new", "mark", "halt"}
    BY <1>1, <2>1, <2>2 DEF Program, LeaveScope, Assign, Switch, Exit, New, NewFromStore, NewNa, FullCollect
  <2> QED
    BY <2>3 DEF Sweeping
<1>2. CASE NewGoesOn
  BY <1>2, NewGoesOnQuiet DEF Sweeping
<1>3. CASE SkipWord \/ MarkLarge \/ StartWalk \/ Walk \/ EndWalk
  BY <1>3 DEF SkipWord, MarkLarge, StartWalk, Walk, EndWalk, NextWord, Sweeping
<1> QED
  BY <1>1, <1>2, <1>3 DEF Next, Collector, Halted, SweepActs

LEMMA ReturnsAtEnd == ASSUME [Next]_vars, CollectionReturns PROVE EndSweep
<1>1. pc \in {"enter", "free"} /\ pc' \in {"run", "resume"}
  BY DEF CollectionReturns
<1>2. ~(EnterChunk \/ SweepLarge \/ SweepMarked \/ SweepFree \/ Coalesce \/ CloseRun \/ EndChunk)
  BY <1>1, Zenon DEF EnterChunk, SweepLarge, SweepMarked, SweepFree, Coalesce, CloseRun, EndChunk, InBlocks
<1>3. ~(BeginSweep \/ Link \/ MayFree \/ FreeChunk)
  BY <1>1 DEF BeginSweep, Link, MayFree, FreeChunk, markVars, sweepVars
<1>4. ~UNCHANGED vars
  BY <1>1 DEF vars
<1> QED
  BY <1>1, <1>2, <1>3, <1>4, SweepsBy DEF Sweeping, SweepActs

(* When the sweep begins it is past no block, when it ends past them all.  *)
LEMMA CompactBegins == ASSUME TableInv, HeapInv, BeginSweep PROVE Compact'
<1>1. /\ pc' = "enter" /\ p1' = 1 /\ UNCHANGED <<gcmt, chunk, heads, arrays>>
      /\ gcmt \in Seq(Addr) /\ Increasing(gcmt)
  BY DEF BeginSweep, histVars, TableInv
<1>2. PICK sz : Heap(InUse, chunk, rsoh, nae, heads, arrays, sz)
  BY DEF HeapInv, HeapGood, Good
<1>3. ASSUME NEW c \in InUse PROVE c \in Nat /\ 1 <= Len(gcmt) /\ gcmt[1] \in Nat /\ gcmt[1] <= c
  <2>1. PICK i \in 1 .. Len(gcmt) : gcmt[i] = c
    BY DEF InUse, UsedIn, Mem
  <2>2. 1 \in 1 .. Len(gcmt) /\ gcmt[1] \in Nat /\ c \in Nat
    BY <1>1, <2>1, AddrNat
  <2> QED
    BY <1>1, <2>1, <2>2 DEF Increasing
<1>4. ASSUME NEW h \in heads PROVE 1 <= Len(gcmt) /\ ~(h < gcmt[1])
  <2>1. PICK c \in InUse : InC(chunk, c, h) /\ h \in Nat /\ c < First(c) /\ First(c) \in Nat
    BY <1>2, FirstNat, AddrNat DEF Heap, Tiles, UsedApart
  <2> QED
    BY <1>3, <2>1 DEF InC
<1>5. FreeHeads' \subseteq heads /\ InUse' = InUse
  BY <1>1 DEF FreeHeads, InUse
<1>6. (\A h \in FreeHeads' : ~Passed(h)') /\ (\A c \in InUse' : ~Done(c)')
  BY <1>1, <1>3, <1>4, <1>5 DEF Passed, Done, cur
<1> QED
  BY <1>6 DEF Compact, RunsApart

LEMMA CompactNext == ASSUME TableInv, Typed, HeapInv, Compact, [Next]_vars PROVE Compact'
<1>1. CASE pc' \notin Sweeping
  BY <1>1 DEF Compact
<1>2. CASE BeginSweep
  BY <1>2, CompactBegins
<1>3. CASE SweepActs
  BY <1>3, EnterChunkInv, SweepLargeInv, SweepMarkedInv, SweepFreeInv, CoalesceInv, CloseRunInv, EndChunkInv,
     LinkInv, MayFreeInv, FreeChunkInv DEF SweepActs
<1>4. CASE UNCHANGED vars
  <2>1. UNCHANGED <<gcmt, chunk, rsoh, pc, p1, gp, heads, arrays>>
    BY <1>4 DEF vars, memVars, sweepVars, histVars
  <2>2. FreeHeads' = FreeHeads /\ InUse' = InUse
    BY <2>1 DEF FreeHeads, StartsOf, InUse, UsedIn, Mem
  <2>3. \A h : /\ Passed(h)' <=> Passed(h)
               /\ Done(h)' <=> Done(h)
               /\ HasArray(h)' <=> HasArray(h)
               /\ IsMarked(h)' <=> IsMarked(h)
               /\ Behind(h)' = Behind(h)
    BY <2>1 DEF Passed, Done, HasArray, IsMarked, Behind, cur, ChunkEnd, InC, StartsOf
  <2> QED
    BY <2>1, <2>2, <2>3 DEF Compact, RunsApart
<1>5. CASE EndSweep
  BY <1>5 DEF EndSweep, Compact, Sweeping
<1> QED
  BY <1>1, <1>2, <1>3, <1>4, <1>5, SweepsBy

LEMMA StartsInHeads == ASSUME HeapInv PROVE Starts \subseteq heads /\ heads \subseteq Addr
BY DEF HeapInv, HeapGood, Good, Heap, Contents, Tiles, Starts

LEMMA NoFragments ==
  ASSUME TableInv, HeapInv, Compact, [Next]_vars, CollectionReturns
  PROVE  (/\ \A c \in UsedChunks : InChunk(c) \cap Starts # {}
          /\ \A h \in heads : h \in Starts \/ h + rsoh[h].size \notin heads \ Starts)'
<1>1. /\ (pc = "enter" /\ p1 > Len(gcmt)) \/ pc = "free"
      /\ UNCHANGED <<gcmt, chunk, rsoh, heads, arrays>>
  BY ReturnsAtEnd DEF EndSweep, memVars, histVars
<1>2. pc \in Sweeping /\ \A h : Passed(h) /\ Done(h)
  BY <1>1, SweptAll DEF Sweeping
<1>3. \A h \in heads : h \in Starts \/ h + rsoh[h].size \notin heads \ Starts
  BY <1>2, StartsAre DEF Compact, RunsApart, FreeHeads, Behind
<1>4. ASSUME NEW c \in UsedChunks PROVE InChunk(c) \cap Starts # {}
  <2>1. c \in InUse /\ c \in Nat /\ c < First(c) /\ First(c) \in Nat
    BY BlocksAre, FirstNat, AddrNat
  <2>2. PICK h \in Starts : InC(chunk, c, h)
    BY <1>2, <2>1, StartsAre DEF Compact, HasArray
  <2>3. h \in heads /\ h \in Nat
    BY StartsInHeads, AddrNat
  <2> QED
    BY <2>1, <2>2, <2>3 DEF InChunk, InC, ChunkEnd, End
<1> QED
  BY <1>1, <1>3, <1>4 DEF UsedChunks, Chunks, InChunk, End, Starts

LEMMA OnlyHeld ==
  ASSUME TableInv, HeapInv, [Next]_vars, CollectionReturns
  PROVE  (Starts \subseteq {word[w] : w \in Words} \cup {attr[f] : f \in Fields})'
<1>1. EndSweep
  BY ReturnsAtEnd
<1>2. /\ (pc = "enter" /\ p1 > Len(gcmt)) \/ pc = "free"
      /\ UNCHANGED <<word, attr, arrays>>
  BY <1>1 DEF EndSweep, progVars, histVars
<1>3. pc \in Sweeping
  BY <1>2 DEF Sweeping
<1>4. \A h \in Starts : h \in Held
  BY <1>2, <1>3, SweepFacts, SweptAll, StartsAre
<1>5. Starts' = Starts /\ Held' = Held
  BY <1>2 DEF Starts, Held
<1>6. Starts' \subseteq Held'
  BY <1>4, <1>5
<1> QED
  BY <1>6 DEF Held
-----------------------------------------------------------------------------
(* The contents of the arrays.                                             *)
Intact == \A a \in arrays \cap arrays' : \A x \in a[1] + 1 .. a[1] + a[2] - 1 : rsoh'[x] = rsoh[x]

(* The address of a block is within no array.                              *)
LEMMA HeadersOnly ==
  ASSUME HeapInv, \A a \in Addr : a \notin heads => rsoh'[a] = rsoh[a] PROVE Intact
<1>1. PICK sz : Heap(InUse, chunk, rsoh, nae, heads, arrays, sz)
  BY DEF HeapInv, HeapGood, Good
<1>2. ASSUME NEW a \in arrays, NEW x \in a[1] + 1 .. a[1] + a[2] - 1 PROVE rsoh'[x] = rsoh[x]
  <2>1. /\ a[1] \in heads /\ a[2] \in Nat /\ a[2] <= sz[a[1]]
        /\ \A g \in heads : g \in Addr /\ g \in Nat /\ sz[g] \in Nat
        /\ \A g, k \in heads : g < k => g + sz[g] <= k
    BY <1>1, AddrNat DEF Heap, Contents, Tiles
  <2>2. PICK c \in InUse : InC(chunk, c, a[1]) /\ FitsIn(chunk, c, a[1], heads, sz)
    BY <1>1, <2>1 DEF Heap, Tiles
  <2>3. /\ a[1] + sz[a[1]] <= ChunkEnd(chunk, c) /\ ChunkEnd(chunk, c) <= Memory + 1
        /\ ChunkEnd(chunk, c) \in Nat
    BY <1>1, <2>2, AddrNat DEF Heap, Tiles, UsedApart, FitsIn, ChunkEnd
  <2>4. x \in Nat /\ a[1] < x /\ x < a[1] + sz[a[1]] /\ a[1] >= 1
    BY <2>1, AddrNat
  <2>5. x \in Addr
    BY <2>1, <2>3, <2>4, AddrNat DEF Addr
  <2>6. x \notin heads
    BY <2>1, <2>4
  <2> QED
    BY <2>5, <2>6
<1> QED
  BY <1>2 DEF Intact

(* An array is made at h, in a block that was none.                        *)
LEMMA ClearedKeeps ==
  ASSUME HeapInv', NEW h, h \notin Starts, NEW n, NEW s, rsoh' = Cleared(h, s),
         arrays' = arrays \cup {<<h, n>>}
  PROVE  Intact
<1>1. Good(InUse', chunk', rsoh', nae', heads', arrays')
  BY DEF HeapInv, HeapGood
<1>2. PICK sz : Heap(InUse', chunk', rsoh', nae', heads', arrays', sz)
  BY <1>1 DEF Good
<1>3. /\ \A a \in arrays' : a[1] \in heads' /\ ~IsStore(nae', a[1]) /\ a[2] \in Nat /\ a[2] <= sz[a[1]]
      /\ \A g \in heads' : ~IsStore(nae', g) => sz[g] = rsoh'[g].size
      /\ \A g \in heads' : g \in Addr /\ g \in Nat /\ sz[g] \in Nat
      /\ \A g, k \in heads' : g < k => g + sz[g] <= k
  BY <1>2, AddrNat DEF Heap, Contents, Tiles
<1>4. <<h, n>> \in arrays' /\ <<h, n>>[1] = h
  OBVIOUS
<1>5. h \in heads' /\ ~IsStore(nae', h)
  BY <1>3, <1>4
<1>6. h \in Addr /\ h \in Nat /\ sz[h] = rsoh'[h].size /\ sz[h] \in Nat
  BY <1>3, <1>5
<1>7. rsoh'[h].size = s
  BY <1>6 DEF Cleared
<1>8. s \in Nat /\ sz[h] = s
  BY <1>6, <1>7
<1>9. ASSUME NEW a \in arrays, NEW x \in a[1] + 1 .. a[1] + a[2] - 1 PROVE rsoh'[x] = rsoh[x]
  <2>1. a[1] \in heads' /\ a[2] \in Nat /\ a[2] <= sz[a[1]] /\ a[1] \in Nat /\ sz[a[1]] \in Nat
    BY <1>3
  <2>2. a[1] # h
    BY DEF Starts
  <2>3. a[1] + sz[a[1]] <= h \/ h + sz[h] <= a[1]
    BY <1>3, <1>5, <1>6, <2>1, <2>2
  <2>4. x \in Nat /\ a[1] < x /\ x < a[1] + sz[a[1]]
    BY <2>1
  <2>5. x # h /\ x \notin h + 1 .. h + s - 1
    BY <1>6, <1>8, <2>1, <2>3, <2>4
  <2>6. x \in Addr
    <3>1. PICK c \in InUse' : InC(chunk', c, a[1]) /\ FitsIn(chunk', c, a[1], heads', sz)
      BY <1>2, <2>1 DEF Heap, Tiles
    <3>2. /\ a[1] + sz[a[1]] <= ChunkEnd(chunk', c) /\ ChunkEnd(chunk', c) <= Memory + 1
          /\ ChunkEnd(chunk', c) \in Nat
      BY <1>2, <3>1, AddrNat DEF Heap, Tiles, UsedApart, FitsIn, ChunkEnd
    <3> QED
      BY <2>1, <2>4, <3>2, AddrNat DEF Addr
  <2> QED
    BY <2>5, <2>6 DEF Cleared
<1> QED
  BY <1>9 DEF Intact

LEMMA FromStoreKeeps ==
  ASSUME HeapInv', NEW t, NEW n, NEW w, NEW e, FromStore(t, e, n, w), e.store \notin Starts
  PROVE  Intact
<1>1. PICK s : rsoh' = Cleared(e.store, s)
  BY DEF FromStore
<1>2. arrays' = arrays \cup {<<e.store, n>>}
  BY DEF FromStore, Return
<1> QED
  BY <1>1, <1>2, ClearedKeeps

(* A chunk that comes into use had no array.                               *)
LEMMA FreshHead ==
  ASSUME TableInv', HeapInv, NEW d, NEW m \in Nat, m > Overhead + 1, NEW t, Fresh(d, m, t)
  PROVE  First(d) \notin Starts
<1>1. UsedApart(InUse \cup {d}, chunk') /\ d \in Addr
  BY FreshApart
<1>2. PICK sz : Heap(InUse, chunk, rsoh, nae, heads, arrays, sz)
  BY DEF HeapInv, HeapGood, Good
<1> SUFFICES ASSUME First(d) \in Starts PROVE FALSE
  OBVIOUS
<1>3. First(d) \in heads /\ First(d) \in Addr
  BY <1>2 DEF Heap, Contents, Tiles, Starts
<1>4. PICK c \in InUse : InC(chunk, c, First(d))
  BY <1>2, <1>3 DEF Heap, Tiles
<1>5. InC(chunk', c, First(d))
  BY <1>4 DEF Fresh, SameChunks2, InC, ChunkEnd
<1>6. InC(chunk', d, First(d))
  BY <1>1, FirstIn
<1>7. c = d
  BY <1>1, <1>3, <1>5, <1>6, OneChunk
<1> QED
  BY <1>4, <1>7 DEF Fresh
HeadWritten(h) == h \in heads /\ \A a \in Addr : a # h => rsoh'[a] = rsoh[a]

LEMMA HeadWrittenKeeps == ASSUME HeapInv, NEW h, HeadWritten(h) PROVE Intact
BY HeadersOnly DEF HeadWritten

LEMMA NotWritten == ASSUME HeapInv, rsoh' = rsoh PROVE Intact
BY HeadersOnly

LEMMA StoreNoArray ==
  ASSUME HeapInv, NEW t \in Types, nae[t].store_left > 0
  PROVE  nae[t].store \notin Starts /\ nae[t].store \in heads
<1>1. PICK sz : Heap(InUse, chunk, rsoh, nae, heads, arrays, sz)
  BY DEF HeapInv, HeapGood, Good
<1> QED
  BY <1>1, StoreAt, StartsAre

LEMMA NewKeeps ==
  ASSUME HeapInv, HeapInv', NEW t \in Types, NEW n \in Sizes[t], NEW w,
         NewFromStore(t, n, w) \/ NewNa(t, n, w)
  PROVE  Intact
<1>1. nae[t].store_left \in Nat
  BY DEF HeapInv, HeapGood, Good, Heap, Stores
<1>2. CASE NewFromStore(t, n, w)
  <2>1. n <= nae[t].store_left /\ FromStore(t, nae[t], n, w)
    BY <1>2 DEF NewFromStore
  <2>2. nae[t].store_left > 0
    BY <1>1, <2>1, SizeFacts
  <2> QED
    BY <2>1, <2>2, StoreNoArray, FromStoreKeeps
<1>3. CASE NewNa(t, n, w)
  <2>1. CASE rsoh' = rsoh
    BY <2>1, NotWritten
  <2>2. CASE rsoh' # rsoh
    <3>1. /\ nae[t].store_left > 0
          /\ rsoh' = [rsoh EXCEPT ![nae[t].store] = [size |-> nae[t].store_left, flag |-> FREE]]
      BY <1>3, <2>2 DEF NewNa
    <3>2. Blocks(rsoh)
      BY DEF HeapInv, Shapes
    <3>3. HeadWritten(nae[t].store)
      BY <3>1, <3>2, StoreNoArray DEF HeadWritten, Blocks
    <3> QED
      BY <3>3, HeadWrittenKeeps
  <2> QED
    BY <2>1, <2>2
<1> QED
  BY <1>2, <1>3

LEMMA GetStoreKeeps ==
  ASSUME TableInv, HeapInv, HeapInv', NEW t \in Types, NEW n \in Sizes[t], NEW w,
         NEW c \in InUse, Fits(c, n) # {}, GetStoreIn(c, t, n, w)
  PROVE  Intact
<1> DEFINE i == Min(Fits(c, n))
           f == chunk[c].flol[i]
<1>1. i \in 1 .. Len(chunk[c].flol)
  BY SizeFacts, FitsFacts
<1>2. Listed(chunk, nae, heads, arrays, c)
  BY InUseFacts
<1>3. f \in Mem(chunk[c].flol)
  BY <1>1 DEF Mem
<1>4. f \notin Starts
  BY <1>2, <1>3, StartsAre DEF Listed, FreeBlock
<1>5. FromStore(t, [nae[t] EXCEPT !.store_left = rsoh[f].size, !.store = f, !.store_chunk = c], n, w)
  BY DEF GetStoreIn
<1>6. [nae[t] EXCEPT !.store_left = rsoh[f].size, !.store = f, !.store_chunk = c]
        = Env(rsoh[f].size, f, c, nae[t].chunk_list)
  <2> HIDE DEF f
  <2>1. IsEnv(nae[t])
    BY EnvsAt, Zenon DEF HeapInv, Shapes
  <2> QED
    BY <2>1, EnvStore, Zenon
<1> DEFINE e == Env(rsoh[f].size, f, c, nae[t].chunk_list)
<1>7. FromStore(t, e, n, w) /\ e.store \notin Starts
  <2>1. FromStore(t, e, n, w)
    BY <1>5, <1>6, Zenon
  <2> HIDE DEF f
  <2>2. e.store = f
    BY EnvFields
  <2> QED
    BY <1>4, <2>1, <2>2
<1> HIDE DEF e
<1> QED
  BY <1>7, FromStoreKeeps

LEMMA FreshKeeps ==
  ASSUME TableInv', HeapInv, HeapInv', NEW t, NEW n, NEW w, NEW d, NEW m \in Nat, m > Overhead + 1,
         Fresh(d, m, t), NEW k, NEW l, FromStore(t, Env(k, First(d), d, l), n, w)
  PROVE  Intact
<1> DEFINE e == Env(k, First(d), d, l)
<1>1. FromStore(t, e, n, w) /\ e.store \notin Starts
  BY FreshHead, EnvFields
<1> HIDE DEF e
<1> QED
  BY <1>1, FromStoreKeeps
LEMMA InFreeChunkKeeps ==
  ASSUME TableInv, HeapInv, HeapInv', NEW t \in Types, NEW n \in Sizes[t], NEW w, NewInFreeChunk(t, n, w)
  PROVE  Intact
<1>1. TableInv'
  BY NewInFreeChunkTable
<1>2. PICK c \in FreeIn(Mem(gcmt), chunk) :
        /\ c \in Addr /\ chunk[c].size \in Nat
        /\ \/ \E d : TakesEnd(t, n, w, c, d)
           \/ \E m \in Nat : TakesPart(t, n, w, c, m)
  <2>1. n + Overhead \in Nat
    BY SizeFacts
  <2> QED
    BY <2>1, FreeTaken DEF HeapInv, Shapes
<1>3. n \in Nat /\ n > 1 /\ Overhead \in Nat /\ n + Overhead \in Nat /\ n + Overhead > Overhead + 1
  BY SizeFacts
<1>4. ASSUME NEW d, TakesEnd(t, n, w, c, d) PROVE Intact
  <2>1. Fresh(d, n + Overhead, t)
    BY <1>4, EndIsFresh
  <2>2. FromStore(t, Env(n, First(d), d, nae[t].chunk_list), n, w)
    BY <1>4 DEF TakesEnd
  <2> QED
    BY <1>1, <1>3, <2>1, <2>2, FreshKeeps
<1>5. ASSUME NEW m \in Nat, TakesPart(t, n, w, c, m) PROVE Intact
  <2>1. Fresh(c, m, t)
    BY <1>5, PartIsFresh
  <2>2. n + Overhead <= m /\ FromStore(t, Env(m - Overhead, First(c), c, nae[t].chunk_list), n, w)
    BY <1>5 DEF TakesPart
  <2>3. m > Overhead + 1
    BY <1>3, <2>2
  <2> QED
    BY <1>1, <2>1, <2>2, <2>3, FreshKeeps
<1> QED
  BY <1>2, <1>4, <1>5

LEMMA MallocKeeps ==
  ASSUME TableInv, HeapInv, HeapInv', pc \in {"new", "resume"}, NEW t \in Types, NEW n \in Sizes[t],
         NEW w, Malloc(t, n, w)
  PROVE  Intact
<1>1. TableInv'
  BY MallocTable
<1>2. PICK c \in Addr : \E m \in Nat :
        /\ Fresh(c, m, t) /\ n + Overhead <= m
        /\ \/ m > RSOC_SIZE /\ ForLarge(t, n, w, c)
           \/ m = RSOC_SIZE /\ ForSmall(t, n, w, c)
  BY MallocFresh
<1>3. PICK m \in Nat :
        /\ Fresh(c, m, t) /\ n + Overhead <= m
        /\ \/ m > RSOC_SIZE /\ ForLarge(t, n, w, c)
           \/ m = RSOC_SIZE /\ ForSmall(t, n, w, c)
  BY <1>2
<1>4. m > Overhead + 1
  BY <1>3, SizeFacts
<1>5. CASE ForLarge(t, n, w, c)
  <2>1. rsoh' = Cleared(First(c), n) /\ arrays' = arrays \cup {<<First(c), n>>}
    BY <1>5 DEF ForLarge, Return
  <2>2. First(c) \notin Starts
    BY <1>1, <1>3, <1>4, FreshHead
  <2> QED
    BY <2>1, <2>2, ClearedKeeps
<1>6. CASE ForSmall(t, n, w, c)
  <2> DEFINE k == RSOC_SIZE - Overhead
             l == Cons(c, nae[t].chunk_list)
  <2>1. FromStore(t, Env(k, First(c), c, l), n, w)
    BY <1>6 DEF ForSmall
  <2> HIDE DEF k, l
  <2> QED
    BY <1>1, <1>3, <1>4, <2>1, FreshKeeps
<1> QED
  BY <1>3, <1>5, <1>6

(* gc_start writes headers only.                                           *)
LEMMA GcStartKeeps == ASSUME HeapInv, NEW r, GcStart(r) PROVE Intact
<1>1. rsoh' = rsoh \/ rsoh' = MarkedExactly(StoresFreed)
  BY DEF GcStart
<1>2. CASE rsoh' = MarkedExactly(StoresFreed)
  <2> DEFINE F == StoresFreed
  <2>1. Blocks(F) /\ StoresWritten(rsoh, F, nae)
    BY FreedFacts
  <2>2. \A a \in Addr : a \notin {attr[f] : f \in Fields} => rsoh'[a] = F[a]
    <3>1. rsoh' = MarkedExactly(F)
      BY <1>2
    <3> HIDE DEF F
    <3> QED
      BY <2>1, <3>1, MarkedFacts
  <2> HIDE DEF F
  <2>3. \A a \in Addr : IsStore(nae, a) => a \in heads
    BY StoreNoArray DEF IsStore
  <2>4. \A a \in Addr : a \in {attr[f] : f \in Fields} => a \in heads
    <3>1. Roots \subseteq heads
      BY StartsInHeads, StartsAre DEF HeapInv, Marks
    <3>2. 0 \notin Addr
      BY AddrNat
    <3> QED
      BY <3>1, <3>2 DEF Roots
  <2>5. \A a \in Addr : a \notin heads => rsoh'[a] = rsoh[a]
    BY <2>1, <2>2, <2>3, <2>4 DEF StoresWritten
  <2> QED
    BY <2>5, HeadersOnly
<1> QED
  BY <1>1, <1>2, NotWritten

LEMMA NewGoesOnKeeps == ASSUME TableInv, HeapInv, HeapInv', NewGoesOn PROVE Intact
<1> PICK t \in Types : \E n \in Sizes[t], w \in Words : GoesOn(t, n, w)
  BY DEF NewGoesOn, GoesOn
<1> PICK n \in Sizes[t], w \in Words : GoesOn(t, n, w)
  OBVIOUS
<1>1. CASE NewInStoreChunk(t, n, w)
  <2>1. /\ nae[t].store_chunk # 0 /\ Fits(nae[t].store_chunk, n) # {}
        /\ GetStoreIn(nae[t].store_chunk, t, n, w)
    BY <1>1 DEF NewInStoreChunk, StoreChunkFits
  <2>2. nae[t].store_chunk \in InUse
    BY <2>1 DEF HeapInv, HeapGood, Good, Heap, Stores, ChunksOf
  <2> QED
    BY <2>1, <2>2, GetStoreKeeps
<1>2. CASE NewInChunkList(t, n, w)
  <2> DEFINE L == nae[t].chunk_list
             i == Min(ListFits(t, n))
  <2>1. ListFits(t, n) # {} /\ GetStoreIn(L[i], t, n, w)
    BY <1>2 DEF NewInChunkList
  <2>2. L \in Seq(Addr) /\ \A c \in Mem(L) : c \in InUse
    BY DEF HeapInv, HeapGood, Good, Heap, Stores, ChunksOf
  <2>3. i \in 1 .. Len(L) /\ Fits(L[i], n) # {}
    <3>1. ListFits(t, n) \in SUBSET Nat
      BY <2>2 DEF ListFits
    <3>2. i \in ListFits(t, n)
      BY <2>1, <3>1, MinFacts
    <3> HIDE DEF i
    <3> QED
      BY <2>2, <3>2 DEF ListFits
  <2>4. L[i] \in InUse
    BY <2>2, <2>3 DEF Mem
  <2> HIDE DEF L, i
  <2> QED
    BY <2>1, <2>3, <2>4, GetStoreKeeps
<1>3. CASE NewInFreeChunk(t, n, w)
  BY <1>3, InFreeChunkKeeps
<1>4. CASE NewMalloc(t, n, w) \/ ResumeMalloc(t, n, w)
  <2>1. pc \in {"new", "resume"} /\ Malloc(t, n, w)
    BY <1>4 DEF NewMalloc, ResumeMalloc
  <2> QED
    BY <2>1, MallocKeeps
<1>5. CASE NewCollects(t, n, w)
  BY <1>5, GcStartKeeps DEF NewCollects
<1>6. CASE ResumeFromStore(t, n, w)
  <2>1. n <= nae[t].store_left /\ FromStore(t, nae[t], n, w)
    BY <1>6 DEF ResumeFromStore
  <2>2. nae[t].store_left \in Nat
    BY DEF HeapInv, HeapGood, Good, Heap, Stores
  <2>3. nae[t].store_left > 0
    BY <2>1, <2>2, SizeFacts
  <2> QED
    BY <2>1, <2>3, StoreNoArray, FromStoreKeeps
<1>7. CASE OutOfMemory(t, n, w)
  BY <1>7, NotWritten DEF OutOfMemory, memVars
<1> QED
  BY <1>1, <1>2, <1>3, <1>4, <1>5, <1>6, <1>7 DEF GoesOn
(* Marking and sweeping write headers only.                                *)
LEMMA HeaderSet ==
  ASSUME HeapInv, NEW h, h \in heads, NEW b, rsoh' = [rsoh EXCEPT ![h] = b] PROVE Intact
<1>1. Blocks(rsoh)
  BY DEF HeapInv, Shapes
<1>2. HeadWritten(h)
  BY <1>1 DEF HeadWritten, Blocks
<1> QED
  BY <1>2, HeadWrittenKeeps

LEMMA MarkingKeeps ==
  ASSUME TableInv, HeapInv, SkipWord \/ MarkLarge \/ StartWalk \/ Walk \/ EndWalk PROVE Intact
<1>1. ASSUME NEW mark \in BOOLEAN, NextWord(mark), mark => word[wi] \in heads PROVE Intact
  <2>1. CASE ~mark
    BY <1>1, <2>1, NotWritten DEF NextWord
  <2>2. CASE mark
    <3>1. rsoh' = [rsoh EXCEPT ![word[wi]] = [rsoh[word[wi]] EXCEPT !.flag = MARKED]]
      BY <1>1, <2>2 DEF NextWord
    <3> QED
      BY <1>1, <2>2, <3>1, HeaderSet
  <2> QED
    BY <2>1, <2>2
<1>2. CASE SkipWord
  BY <1>1, <1>2 DEF SkipWord
<1>3. CASE MarkLarge
  <2>1. PICK c \in ChunkOf(word[wi]) : NextWord(word[wi] = First(c))
    BY <1>3 DEF MarkLarge
  <2>2. c \in InUse
    BY <2>1, ChunkOfFacts
  <2>3. First(c) \in heads
    BY <2>2 DEF HeapInv, HeapGood, Good, Heap, Tiles
  <2> QED
    BY <1>1, <2>1, <2>3
<1>4. CASE StartWalk \/ Walk
  BY <1>4, NotWritten DEF StartWalk, Walk
<1>5. CASE EndWalk
  <2>1. pc = "walk" /\ NextWord(Reached(word[wi]))
    BY <1>5 DEF EndWalk
  <2>2. PICK c \in InUse : InC(chunk, c, word[wi]) /\ (pf \in heads \/ pf = ChunkEnd(chunk, c))
    BY <2>1 DEF HeapInv, WalkAt
  <2>3. c \in Addr /\ UsedApart(InUse, chunk)
    BY <2>2, InUseFacts
  <2>4. ChunkEnd(chunk, c) \in Nat
    BY <2>2, <2>3, AddrNat DEF UsedApart, ChunkEnd
  <2>5. Reached(word[wi]) => word[wi] \in heads
    BY <2>2, <2>4 DEF Reached, InC
  <2>6. Reached(word[wi]) \in BOOLEAN
    BY DEF Reached
  <2> QED
    BY <1>1, <2>1, <2>5, <2>6
<1> QED
  BY <1>2, <1>3, <1>4, <1>5

LEMMA SweepingKeeps ==
  ASSUME TableInv, HeapInv, SweepLarge \/ SweepMarked \/ SweepFree \/ Coalesce PROVE Intact
<1>1. rsoh' = rsoh \/ \E b : rsoh' = [rsoh EXCEPT ![gp] = b]
  <2>1. CASE SweepLarge \/ SweepMarked
    BY <2>1 DEF SweepLarge, SweepMarked, Unmarked
  <2>2. CASE SweepFree \/ Coalesce
    BY <2>2 DEF SweepFree, Coalesce
  <2> QED
    BY <2>1, <2>2
<1>2. gp \in heads
  <2>1. CASE SweepLarge
    BY <2>1, LargeAlone DEF SweepLarge
  <2>2. CASE SweepMarked \/ SweepFree
    BY <2>2, GpBlock DEF SweepMarked, SweepFree, BlockAt
  <2>3. CASE Coalesce
    BY <2>3, RunBlock DEF Coalesce, BlockAt
  <2> QED
    BY <2>1, <2>2, <2>3
<1> QED
  BY <1>1, <1>2, HeaderSet, NotWritten

LEMMA NextKeeps == ASSUME TableInv, HeapInv, HeapInv', [Next]_vars PROVE Intact
<1>1. CASE Program \/ Halted \/ UNCHANGED vars
  <2>1. rsoh' = rsoh
    BY <1>1 DEF Program, LeaveScope, Assign, Switch, Exit, progRest, Halted, vars, memVars
  <2> QED
    BY <2>1, NotWritten
<1>2. CASE New
  BY <1>2, NewKeeps DEF New
<1>3. CASE NewGoesOn
  BY <1>3, NewGoesOnKeeps
<1>4. CASE FullCollect
  BY <1>4, GcStartKeeps DEF FullCollect
<1>5. CASE SkipWord \/ MarkLarge \/ StartWalk \/ Walk \/ EndWalk
  BY <1>5, MarkingKeeps
<1>6. CASE SweepLarge \/ SweepMarked \/ SweepFree \/ Coalesce
  BY <1>6, SweepingKeeps, Zenon
<1>7. CASE BeginSweep \/ EnterChunk \/ CloseRun \/ EndChunk \/ Link \/ MayFree \/ FreeChunk \/ EndSweep
  <2>1. rsoh' = rsoh
    BY <1>7, Zenon DEF BeginSweep, EnterChunk, CloseRun, EndChunk, Link, MayFree, FreeChunk, EndSweep, memVars
  <2> QED
    BY <2>1, NotWritten
<1> QED
  BY <1>1, <1>2, <1>3, <1>4, <1>5, <1>6, <1>7 DEF Next, Collector
-----------------------------------------------------------------------------
(* Native arrays never share memory, with one another, the stores or the   *)
(* free blocks that new_na hands out.                                      *)
THEOREM ArraysApartAlways == Spec => []ArraysSafe
BY HeapInvariance, ArraysApart, PTL

(* The blocks of a chunk follow each other without hole or overlap,        *)
(* however new_na cuts them and rsoc_sweep joins them.                     *)
THEOREM HeapTiledAlways == Spec => []HeapTiled
BY HeapInvariance, BlocksTile, PTL

(* Mark and sweep reclaims no array that a live word of the stack or an    *)
(* object refers to.                                                       *)
THEOREM NoDanglingEver == Spec => []NoDangling
BY HeapInvariance, RootsHeld, PTL

(* A collection leaves only arrays that a word or an object refers to.     *)
THEOREM CollectionExact == Spec => CollectExact
<1>1. TableInv /\ Typed /\ HeapInv /\ [Next]_vars
        => [CollectionReturns =>
              (Starts \subseteq {word[w] : w \in Words} \cup {attr[f] : f \in Fields})']_vars
  BY OnlyHeld
<1> QED
  BY <1>1, HeapInvariance, PTL DEF Spec, CollectExact

(* Fragmentation does not survive a collection.                            *)
THEOREM FragmentsJoined == Spec => Compacted
<1>1. Init => Compact
  BY DEF Init, Compact, Sweeping
<1>2. TableInv /\ Typed /\ HeapInv /\ Compact /\ [Next]_vars => Compact'
  BY CompactNext
<1>3. TableInv /\ Typed /\ HeapInv /\ Compact /\ [Next]_vars
        => [CollectionReturns =>
              (/\ \A c \in UsedChunks : InChunk(c) \cap Starts # {}
               /\ \A h \in heads : h \in Starts \/ h + rsoh[h].size \notin heads \ Starts)']_vars
  BY NoFragments
<1> QED
  BY <1>1, <1>2, <1>3, HeapInvariance, PTL DEF Spec, Compacted

(* Neither new_na nor the collector writes into an array.                  *)
THEOREM ContentsUntouched == Spec => ContentsKept
<1>1. TableInv /\ Typed /\ HeapInv /\ (TableInv /\ Typed /\ HeapInv)' /\ [Next]_vars
        => [\A a \in arrays \cap arrays' : \A x \in a[1] + 1..a[1] + a[2] - 1 :
              rsoh'[x] = rsoh[x]]_vars
  BY NextKeeps DEF Intact
<1> QED
  BY <1>1, HeapInvariance, PTL DEF Spec, ContentsKept
=============================================================================
