--------------------------- MODULE FsoHeapProofs ---------------------------
(***************************************************************************)
(* FsoHeap, proved for every number of types, chunks, slots and fields.    *)
(*                                                                         *)
(* Four parts: the initial state, the program's steps and every path of   *)
(* newXXX keep the inductive invariant IInv of FsoInvariant; the           *)
(* collector's steps do, and the theorems that follow from it; then what   *)
(* the heap is on top of IInv: its free lists are complete                 *)
(* (HeapPartition), its size follows the ceiling, and it implements        *)
(* ManagedHeap; last, what a collection reclaims: everything that is not   *)
(* reached, the items of weak references included, and nothing else.       *)
(***************************************************************************)
EXTENDS FsoInvariant, FsoRefinement, ListLemmas, FiniteSetTheorems

-----------------------------------------------------------------------------
(* The start, the program and newXXX.                                      *)

\* The runtime starts (initialize_runtime) with an empty heap: IInv holds.
LEMMA InitIInv == Init => IInv
<1> SUFFICES ASSUME Init PROVE IInv
  OBVIOUS
<1> USE FsoAssumption DEF Init
<1>1. TypeOK
  <2>1. (CHOOSE t \in Types : TRUE) \in Types
    OBVIOUS
  <2>2. state \in [Chunk -> {"none", "store", "used", "free"}]
    OBVIOUS
  <2>3. type \in [Chunk -> Types]
    BY <2>1
  <2>4. flag \in [Obj -> Flag] /\ disposed \in [Obj -> 0..2] /\ alloc \in SUBSET Obj
    BY DEF Flag, NEXT
  <2>5. attr \in [Obj -> [Fields -> Ref]]
    BY DEF Ref
  <2>6. gc_free \in [Types -> Seq(Obj)] /\ fsocfl \in Seq(Chunk) /\ old_gc_free \in Seq(Obj)
    OBVIOUS
  <2>7. store \in [Types -> (0..NChunks) \X (0..Slots + 1)]
    BY DEF Nil
  <2>8. /\ store_left \in [Types -> 0..Slots]
        /\ store_chunk \in [Types -> 0..NChunks]
    OBVIOUS
  <2>9. /\ fsoc_count \in Nat /\ fsoc_count_ceil \in Nat
        /\ collector_counter \in 0..MaxCollections /\ gc_info_nb \in 0..MaxNew
    <3>1. MaxCollections \in Nat /\ MaxNew \in Nat /\ CeilAtStart \in Nat
      OBVIOUS
    <3> QED
      BY <3>1
  <2>12. gc_is_off \in BOOLEAN
    OBVIOUS
  <2>10. word \in [Words -> Ref] /\ live \in [Words -> BOOLEAN] /\ global \in [Globals -> Ref]
    BY DEF Ref
  <2>11. /\ pc \in Pc
         /\ req \in (Types \X Words) \cup {<<>>}
         /\ grey \in SUBSET Obj
         /\ cur \in (1..NChunks + 1) \X (1..Slots + 1)
         /\ dead \in BOOLEAN
    BY DEF Pc
  <2> QED
    BY <2>2, <2>3, <2>4, <2>5, <2>6, <2>7, <2>8, <2>9, <2>10, <2>11, <2>12 DEF TypeOK
<1>2. alloc = {} /\ \A o \in Obj : ~InUse(o)
  BY DEF InUse, Obj, Chunk
<1>3. ControlOK /\ StoreOK /\ AllocOK /\ MarksOK
  BY <1>2 DEF ControlOK, StoreOK, AllocOK, MarksOK, Marking
<1>4. FreeListsOK /\ FreeChunksOK
  BY DEF FreeListsOK, FreeChunksOK, Injective
<1>5. ClosedOK /\ MarkingOK /\ SweepOK /\ DeadOK
  BY <1>2 DEF ClosedOK, Closed, WeakClosed, MarkingOK, Marking, SweepOK, DeadOK, Sweeping
<1>6. DisposedOnce
  BY <1>2 DEF DisposedOnce, Obj, Chunk
<1> QED
  BY <1>1, <1>3, <1>4, <1>5, <1>6 DEF IInv

----------------------------------------------------------------------------
(* The program's own steps: the heap is left alone. *)

\* The program's own assignments, loads, once results and switches of the
\* collector keep IInv: they move references that are already safe.
LEMMA ProgramIInv ==
  ASSUME IInv, SafeInstance, Program PROVE IInv'
<1>1. pc = "run" /\ UNCHANGED <<heapVars, collector_counter, gc_info_nb>>
  BY DEF Program, Assign, Load, LeaveScope, OnceResult, Switch, gcVars
<1> USE DEF heapVars, chunkVars, ceilVars, sweepVars, histVars
<1>2. Closed(alloc) /\ WeakClosed(alloc)
  BY <1>1 DEF IInv, ClosedOK, AtRest
<1>3. TypeOK' /\ Closed(alloc)' /\ WeakClosed(alloc)'
  <2> USE DEF IInv, TypeOK, Closed, WeakClosed, Ref
  <2>1. ASSUME NEW p \in Held, NEW f \in Fields, NEW x \in Held \cup {Nil}, Assign(p, f, x)
        PROVE  TypeOK' /\ Closed(alloc)' /\ WeakClosed(alloc)'
    <3>1. x \in alloc \cup {Nil} /\ p \in Obj
      BY <1>2, <2>1 DEF Assign, Held
    <3>2. UNCHANGED <<word, live, global, gcVars>>
      BY <2>1 DEF Assign, progVars
    <3>3. attr' = [attr EXCEPT ![p][f] = x]
      BY <2>1 DEF Assign
    <3>4. attr' \in [Obj -> [Fields -> Ref]]
      BY <3>1, <3>3
    <3>5. \A o \in Obj, g \in Fields : attr'[o][g] = attr[o][g] \/ attr'[o][g] = x
      BY <3>1, <3>3
    <3>6. TypeOK'
      BY <1>1, <3>2, <3>4 DEF gcVars
    <3>7. \A o \in alloc, g \in Fields :
             attr[o][g] \in alloc \cup {Nil} => attr'[o][g] \in alloc \cup {Nil}
      BY <3>1, <3>5
    <3>8. Closed(alloc)'
      BY <1>1, <1>2, <3>2, <3>7
    <3>9. WeakClosed(alloc)'
      BY <1>1, <1>2, <3>7
    <3> QED
      BY <3>6, <3>8, <3>9
  <2>2. ASSUME NEW w \in Words, NEW v \in Words, NEW f \in Fields, Load(w, f, v)
        PROVE  TypeOK' /\ Closed(alloc)' /\ WeakClosed(alloc)'
    <3>1. word[w] \in alloc /\ attr[word[w]][f] \in alloc \cup {Nil}
      BY <1>2, <2>2 DEF Load
    <3>2. UNCHANGED <<attr, global, gcVars>>
      BY <2>2 DEF Load
    <3>3. /\ word' = [word EXCEPT ![v] = attr[word[w]][f]]
          /\ live' = [live EXCEPT ![v] = TRUE]
      BY <2>2 DEF Load
    <3>4. word' \in [Words -> Ref] /\ live' \in [Words -> BOOLEAN]
      BY <3>1, <3>3
    <3>5. TypeOK'
      BY <1>1, <3>2, <3>4 DEF gcVars
    <3>6. \A u \in Words : live'[u] => word'[u] \in alloc \cup {Nil}
      BY <1>2, <3>1, <3>3
    <3> QED
      BY <1>1, <1>2, <3>2, <3>5, <3>6
  <2>3. ASSUME NEW w \in Words, LeaveScope(w)
        PROVE  TypeOK' /\ Closed(alloc)' /\ WeakClosed(alloc)'
    <3>1. /\ live' = [live EXCEPT ![w] = FALSE]
          /\ UNCHANGED <<attr, word, global, gcVars>>
      BY <2>3 DEF LeaveScope
    <3>2. live' \in [Words -> BOOLEAN] /\ \A u \in Words : live'[u] => live[u]
      BY <3>1
    <3>3. TypeOK'
      BY <1>1, <3>1, <3>2 DEF gcVars
    <3> QED
      BY <1>1, <1>2, <3>1, <3>2, <3>3
  <2>4. ASSUME NEW g \in Globals, NEW w \in Words, OnceResult(g, w)
        PROVE  TypeOK' /\ Closed(alloc)' /\ WeakClosed(alloc)'
    <3>1. /\ global' = [global EXCEPT ![g] = word[w]]
          /\ live[w]
          /\ UNCHANGED <<attr, word, live, gcVars>>
      BY <2>4 DEF OnceResult
    <3>2. /\ global' \in [Globals -> Ref]
          /\ \A h \in Globals : global'[h] \in alloc \cup {Nil}
      BY <1>2, <3>1
    <3>3. TypeOK'
      BY <1>1, <3>1, <3>2 DEF gcVars
    <3> QED
      BY <1>1, <1>2, <3>1, <3>2, <3>3
  <2>5. ASSUME Switch PROVE TypeOK' /\ Closed(alloc)' /\ WeakClosed(alloc)'
    <3>1. UNCHANGED <<attr, word, live, global>> /\ gc_is_off' = ~gc_is_off
      BY <2>5 DEF Switch, progVars
    <3>2. gc_is_off' \in BOOLEAN
      BY <3>1
    <3>3. TypeOK'
      BY <1>1, <3>1, <3>2
    <3> QED
      BY <1>1, <1>2, <3>1, <3>3
  <2> QED
    BY <2>1, <2>2, <2>3, <2>4, <2>5 DEF Program
<1>4. ControlOK' /\ ClosedOK' /\ MarkingOK' /\ SweepOK'
  BY <1>1, <1>3 DEF IInv, ControlOK, ClosedOK, Marking, MarkingOK, SweepOK
<1>5. StoreOK' /\ AllocOK' /\ MarksOK' /\ DisposedOnce'
  BY <1>1 DEF IInv, StoreOK, AllocOK, MarksOK, DisposedOnce, InUse, Marking
<1>6. FreeListsOK' /\ FreeChunksOK' /\ DeadOK'
  BY <1>1 DEF IInv, FreeListsOK, FreeChunksOK, FreeSlot, InUse, Marking, Injective,
              DeadOK, Sweeping
<1> QED
  BY <1>3, <1>4, <1>5, <1>6 DEF IInv

----------------------------------------------------------------------------
(* The free lists as sequences: their head is their last element. *)

\* Taking the head of a free list: the other members stay, once each.
LEMMA PopFacts ==
  ASSUME NEW S, NEW s \in Seq(S), s # <<>>, Injective(s)
  PROVE  /\ Top(s) \in S
         /\ Len(s) \in DOMAIN s /\ Top(s) = s[Len(s)]
         /\ Pop(s) \in Seq(S)
         /\ Injective(Pop(s))
         /\ \A i \in DOMAIN Pop(s) : i \in DOMAIN s /\ Pop(s)[i] = s[i] /\ s[i] # Top(s)
<1>1. PICK n \in Nat : n = Len(s) /\ n > 0
  OBVIOUS
<1>2. DOMAIN s = 1..n /\ \A i \in 1..n : s[i] \in S
  BY <1>1
<1>3. (n - 1) \in Int /\ \A i \in 1..(n - 1) : i \in 1..n /\ i # n
  BY <1>1
<1>4. Pop(s) = SubSeq(s, 1, n - 1)
  BY <1>1 DEF Pop
<1>5. /\ Pop(s) \in Seq(S)
      /\ Len(Pop(s)) = IF 1 <= n - 1 THEN (n - 1) - 1 + 1 ELSE 0
      /\ \A i \in 1..((n - 1) - 1 + 1) : Pop(s)[i] = s[1 + i - 1]
  BY <1>2, <1>3, <1>4, SubSeqProperties
<1>6. Len(Pop(s)) = n - 1 /\ DOMAIN Pop(s) = 1..(n - 1)
  BY <1>1, <1>5
<1>7. \A i \in 1..(n - 1) : Pop(s)[i] = s[i]
  BY <1>1, <1>5
<1>8. Top(s) \in S /\ Len(s) \in DOMAIN s /\ Top(s) = s[n]
  BY <1>1, <1>2 DEF Top
<1> QED
  BY <1>1, <1>2, <1>3, <1>5, <1>6, <1>7, <1>8 DEF Injective

\* Putting a slot at the head of a free list that does not hold it.
LEMMA PushFacts ==
  ASSUME NEW S, NEW s \in Seq(S), NEW x \in S, Injective(s),
         \A i \in DOMAIN s : s[i] # x
  PROVE  /\ Push(s, x) \in Seq(S)
         /\ Injective(Push(s, x))
         /\ \A i \in DOMAIN Push(s, x) :
              Push(s, x)[i] = x \/ (i \in DOMAIN s /\ Push(s, x)[i] = s[i])
<1>1. Len(s) \in Nat /\ DOMAIN s = 1..Len(s)
  OBVIOUS
<1>2. Push(s, x) \in Seq(S) /\ DOMAIN Push(s, x) = 1..(Len(s) + 1)
  BY <1>1 DEF Push
<1>3. /\ Push(s, x)[Len(s) + 1] = x
      /\ \A i \in 1..Len(s) : Push(s, x)[i] = s[i]
  BY <1>1 DEF Push
<1>4. \A i \in 1..(Len(s) + 1) : i = Len(s) + 1 \/ i \in 1..Len(s)
  BY <1>1
<1> QED
  BY <1>1, <1>2, <1>3, <1>4 DEF Injective

----------------------------------------------------------------------------
(* newXXX. *)

\* What every path of newXXX does with the slot n it has chosen.
LEMMA ReturnIInv ==
  ASSUME IInv, AtRest, NEW n \in Obj, NEW w \in Words, Return(n, w),
         gc_info_nb < MaxNew,
         \A o \in alloc : type'[o[1]] = type[o[1]]
  PROVE  /\ ControlOK' /\ ClosedOK' /\ MarkingOK' /\ SweepOK' /\ DeadOK'
         /\ attr' \in [Obj -> [Fields -> Ref]]
         /\ word' \in [Words -> Ref] /\ live' \in [Words -> BOOLEAN]
         /\ alloc' = alloc \cup {n} /\ alloc' \in SUBSET Obj
         /\ gc_info_nb' \in 0..MaxNew
         /\ pc' = "run" /\ pc' \in Pc /\ req' = <<>> /\ grey' = {}
         /\ UNCHANGED <<global, gc_is_off, collector_counter, cur, dead, old_gc_free>>
<1>1. /\ attr' = [attr EXCEPT ![n] = [f \in Fields |-> Nil]]
      /\ word' = [word EXCEPT ![w] = n] /\ live' = [live EXCEPT ![w] = TRUE]
      /\ alloc' = alloc \cup {n} /\ pc' = "run" /\ req' = <<>>
      /\ gc_info_nb' = gc_info_nb + 1
      /\ UNCHANGED <<global, gc_is_off, collector_counter, grey, cur, dead, old_gc_free>>
  BY DEF Return, sweepVars
<1>2. TypeOK /\ Closed(alloc) /\ WeakClosed(alloc) /\ grey = {}
  BY DEF IInv, ClosedOK, AtRest, ControlOK, Marking
<1>3. /\ attr' \in [Obj -> [Fields -> Ref]]
      /\ word' \in [Words -> Ref] /\ live' \in [Words -> BOOLEAN]
      /\ alloc' \in SUBSET Obj
  BY <1>1, <1>2 DEF TypeOK, Ref
<1>4. gc_info_nb' \in 0..MaxNew
  BY <1>1, <1>2, FsoAssumption DEF TypeOK
<1>5. \A o \in alloc', f \in Fields :
        attr'[o][f] = Nil \/ (o \in alloc /\ attr'[o][f] = attr[o][f])
  BY <1>1, <1>2 DEF TypeOK
<1>6. Closed(alloc)'
  <2>1. \A v \in Words : live'[v] => word'[v] \in alloc' \cup {Nil}
    BY <1>1, <1>2 DEF TypeOK, Closed
  <2>2. \A g \in Globals : global'[g] \in alloc' \cup {Nil}
    BY <1>1, <1>2 DEF Closed
  <2>3. \A o \in alloc', f \in Fields :
          type'[o[1]] \notin WeakTypes => attr'[o][f] \in alloc' \cup {Nil}
    BY <1>1, <1>2, <1>5 DEF Closed
  <2> QED
    BY <2>1, <2>2, <2>3 DEF Closed
<1>7. WeakClosed(alloc)'
  BY <1>1, <1>2, <1>5 DEF WeakClosed
<1>8. ControlOK' /\ ClosedOK' /\ MarkingOK' /\ SweepOK' /\ DeadOK'
  BY <1>1, <1>2, <1>6, <1>7 DEF ControlOK, ClosedOK, MarkingOK, SweepOK, DeadOK,
                                Sweeping, Marking
<1> QED
  BY <1>1, <1>2, <1>3, <1>4, <1>8 DEF Pc

\* newXXX pops the free list of its type, before or after a collection.
LEMMA PopFreeIInv ==
  ASSUME IInv, AtRest, NEW t \in Types, NEW w \in Words, PopFree(t, w),
         gc_info_nb < MaxNew
  PROVE  IInv'
<1> DEFINE n == Top(gc_free[t])
<1>1. /\ gc_free[t] # <<>>
      /\ gc_free' = [gc_free EXCEPT ![t] = Pop(@)]
      /\ flag' = [flag EXCEPT ![n] = UNMARKED]
      /\ disposed' = [disposed EXCEPT ![n] = 0]
      /\ Return(n, w)
      /\ UNCHANGED <<state, type, store, store_left, store_chunk, fsocfl,
                     fsoc_count, fsoc_count_ceil>>
  BY DEF PopFree, chunkVars, ceilVars
<1>2. /\ TypeOK /\ StoreOK /\ AllocOK /\ MarksOK /\ FreeListsOK /\ FreeChunksOK
      /\ DisposedOnce
  BY DEF IInv
<1>3. pc \in {"run", "resume"} /\ ~Marking /\ pc # "sweep"
  BY DEF AtRest, Marking
<1>4. /\ gc_free[t] \in Seq(Obj) /\ Injective(gc_free[t])
      /\ \A u \in Types : \A i \in DOMAIN gc_free[u] : FreeSlot(gc_free[u][i], u)
  BY <1>2, <1>3 DEF TypeOK, FreeListsOK
<1>5. /\ n \in Obj /\ FreeSlot(n, t)
      /\ Pop(gc_free[t]) \in Seq(Obj) /\ Injective(Pop(gc_free[t]))
      /\ \A i \in DOMAIN Pop(gc_free[t]) :
           /\ i \in DOMAIN gc_free[t] /\ Pop(gc_free[t])[i] = gc_free[t][i]
           /\ gc_free[t][i] # n
  <2> DEFINE s == gc_free[t]
  <2>1. s \in Seq(Obj) /\ s # <<>> /\ Injective(s)
    BY <1>1, <1>4
  <2> HIDE DEF s
  <2>2. /\ Top(s) \in Obj
        /\ Len(s) \in DOMAIN s /\ Top(s) = s[Len(s)]
        /\ Pop(s) \in Seq(Obj)
        /\ Injective(Pop(s))
        /\ \A i \in DOMAIN Pop(s) : i \in DOMAIN s /\ Pop(s)[i] = s[i] /\ s[i] # Top(s)
    BY <2>1, PopFacts
  <2>3. FreeSlot(s[Len(s)], t)
    BY <1>4, <2>2 DEF s
  <2> QED
    BY <2>2, <2>3 DEF s
<1>6. n \notin alloc
  BY <1>2, <1>5 DEF AllocOK, FreeSlot
<1>7. /\ ControlOK' /\ ClosedOK' /\ MarkingOK' /\ SweepOK' /\ DeadOK'
      /\ attr' \in [Obj -> [Fields -> Ref]]
      /\ word' \in [Words -> Ref] /\ live' \in [Words -> BOOLEAN]
      /\ alloc' = alloc \cup {n} /\ alloc' \in SUBSET Obj
      /\ gc_info_nb' \in 0..MaxNew
      /\ pc' = "run" /\ pc' \in Pc /\ req' = <<>> /\ grey' = {}
      /\ UNCHANGED <<global, gc_is_off, collector_counter, cur, dead, old_gc_free>>
  <2> HIDE DEF n
  <2>1. \A o \in alloc : type'[o[1]] = type[o[1]]
    BY <1>1
  <2> QED
    BY <1>1, <1>5, <2>1, ReturnIInv
<1> HIDE DEF n
<1>8. /\ flag' \in [Obj -> Flag] /\ disposed' \in [Obj -> 0..2]
      /\ gc_free' \in [Types -> Seq(Obj)]
  BY <1>1, <1>2, <1>5 DEF TypeOK, Flag
<1>9. TypeOK'
  BY <1>1, <1>2, <1>7, <1>8 DEF TypeOK
<1>10. \A o : InUse(o)' <=> InUse(o)
  BY <1>1 DEF InUse
<1>11. /\ flag'[n] = UNMARKED /\ disposed'[n] = 0
       /\ \A o \in Obj : o # n => flag'[o] = flag[o] /\ disposed'[o] = disposed[o]
  BY <1>1, <1>2, <1>5 DEF TypeOK
<1>12. AllocOK'
  BY <1>2, <1>5, <1>7, <1>10, <1>11 DEF AllocOK, FreeSlot, UNMARKED, NEXT
<1>13. MarksOK'
  BY <1>2, <1>3, <1>7, <1>11 DEF MarksOK, Marking, TypeOK
<1>14. StoreOK' /\ FreeChunksOK'
  BY <1>1, <1>2 DEF StoreOK, FreeChunksOK, Injective
<1>15. DisposedOnce'
  BY <1>1, <1>2, <1>6, <1>7, <1>10, <1>11 DEF DisposedOnce
<1>16. FreeListsOK'
  <2>1. ASSUME NEW u \in Types
        PROVE  /\ Injective(gc_free'[u])
               /\ \A i \in DOMAIN gc_free'[u] : FreeSlot(gc_free[u][i], u)'
    <3>1. CASE u = t
      <4>1. gc_free'[u] = Pop(gc_free[t])
        BY <1>1, <1>2, <3>1 DEF TypeOK
      <4>2. \A i \in DOMAIN gc_free[t] : gc_free[t][i] \in Obj
        BY <1>4
      <4>3. Injective(gc_free'[u])
        BY <1>5, <4>1
      <4>4. ASSUME NEW i \in DOMAIN gc_free'[u] PROVE FreeSlot(gc_free[u][i], u)'
        <5>1. /\ gc_free'[u][i] = gc_free[t][i] /\ gc_free[t][i] # n
              /\ gc_free[t][i] \in Obj /\ FreeSlot(gc_free[t][i], t)
          BY <1>4, <1>5, <4>1, <4>2, <4>4
        <5> QED
          BY <1>1, <1>10, <1>11, <3>1, <5>1 DEF FreeSlot
      <4> QED
        BY <4>3, <4>4
    <3>2. CASE u # t
      <4>1. gc_free'[u] = gc_free[u] /\ gc_free[u] \in Seq(Obj)
        BY <1>1, <1>2, <3>2 DEF TypeOK
      <4>2. \A i \in DOMAIN gc_free[u] : gc_free[u][i] \in Obj
        BY <4>1
      <4>3. Injective(gc_free[u])
        BY <1>2, <1>3 DEF FreeListsOK
      <4>4. \A i \in DOMAIN gc_free[u] : gc_free[u][i] # n
        BY <1>4, <1>5, <3>2 DEF FreeSlot
      <4>5. Injective(gc_free'[u])
        BY <4>1, <4>3
      <4>6. ASSUME NEW i \in DOMAIN gc_free'[u] PROVE FreeSlot(gc_free[u][i], u)'
        <5>1. /\ gc_free'[u][i] = gc_free[u][i] /\ gc_free[u][i] # n
              /\ gc_free[u][i] \in Obj /\ FreeSlot(gc_free[u][i], u)
          BY <1>4, <4>1, <4>2, <4>4, <4>6
        <5> QED
          BY <1>1, <1>10, <1>11, <5>1 DEF FreeSlot
      <4> QED
        BY <4>5, <4>6
    <3> QED
      BY <3>1, <3>2
  <2> QED
    BY <1>7, <2>1 DEF FreeListsOK, Marking
<1> QED
  BY <1>7, <1>9, <1>12, <1>13, <1>14, <1>15, <1>16 DEF IInv

\* A slot that was not in use is returned.
LEMMA TakeSlotIInv ==
  ASSUME IInv, AtRest, NEW n \in Obj, NEW w \in Words, Return(n, w),
         gc_info_nb < MaxNew, gc_free' = gc_free,
         flag' \in [Obj -> Flag], disposed' \in [Obj -> 0..2],
         flag'[n] = UNMARKED, disposed'[n] = 0, ~InUse(n),
         \A o \in Obj : InUse(o)' <=> InUse(o) \/ o = n,
         \A o \in Obj : InUse(o) \/ state'[o[1]] = "free" =>
            flag'[o] = flag[o] /\ disposed'[o] = disposed[o] /\ type'[o[1]] = type[o[1]],
         \A o \in Obj : state'[o[1]] = "free" => state[o[1]] = "free"
  PROVE  /\ AllocOK' /\ MarksOK' /\ FreeListsOK' /\ DisposedOnce'
         /\ ControlOK' /\ ClosedOK' /\ MarkingOK' /\ SweepOK' /\ DeadOK'
         /\ attr' \in [Obj -> [Fields -> Ref]]
         /\ word' \in [Words -> Ref] /\ live' \in [Words -> BOOLEAN]
         /\ alloc' \in SUBSET Obj
         /\ gc_info_nb' \in 0..MaxNew
         /\ pc' \in Pc /\ req' = <<>> /\ grey' = {}
         /\ UNCHANGED <<global, gc_is_off, collector_counter, cur, dead, old_gc_free>>
<1>1. TypeOK /\ AllocOK /\ MarksOK /\ FreeListsOK /\ DisposedOnce
  BY DEF IInv
<1>2. pc \in {"run", "resume"} /\ ~Marking /\ pc # "sweep"
  BY DEF AtRest, Marking
<1>3. alloc \subseteq Obj /\ n \notin alloc /\ \A o \in alloc : InUse(o)
  BY <1>1 DEF TypeOK, AllocOK
<1>4. /\ ControlOK' /\ ClosedOK' /\ MarkingOK' /\ SweepOK' /\ DeadOK'
      /\ attr' \in [Obj -> [Fields -> Ref]]
      /\ word' \in [Words -> Ref] /\ live' \in [Words -> BOOLEAN]
      /\ alloc' = alloc \cup {n} /\ alloc' \in SUBSET Obj
      /\ gc_info_nb' \in 0..MaxNew
      /\ pc' = "run" /\ pc' \in Pc /\ req' = <<>> /\ grey' = {}
      /\ UNCHANGED <<global, gc_is_off, collector_counter, cur, dead, old_gc_free>>
  <2>1. \A o \in alloc : type'[o[1]] = type[o[1]]
    BY <1>3
  <2> QED
    BY <2>1, ReturnIInv
<1>5. AllocOK'
  BY <1>1, <1>3, <1>4 DEF AllocOK, UNMARKED, NEXT
<1>6. MarksOK'
  BY <1>1, <1>2, <1>3, <1>4 DEF MarksOK, Marking
<1>7. FreeListsOK'
  <2>1. ASSUME NEW u \in Types, NEW i \in DOMAIN gc_free[u]
        PROVE  FreeSlot(gc_free[u][i], u)'
    <3>1. gc_free[u][i] \in Obj /\ FreeSlot(gc_free[u][i], u)
      BY <1>1, <1>2 DEF TypeOK, FreeListsOK
    <3> QED
      BY <3>1 DEF FreeSlot
  <2>2. \A u \in Types : Injective(gc_free[u])
    BY <1>1, <1>2 DEF FreeListsOK
  <2> QED
    BY <1>4, <2>1, <2>2 DEF FreeListsOK, Marking
<1>8. DisposedOnce'
  BY <1>1, <1>3, <1>4 DEF DisposedOnce, AllocOK
<1> QED
  BY <1>4, <1>5, <1>6, <1>7, <1>8

\* Where the store of a type points.
LEMMA StoreFacts ==
  ASSUME TypeOK, StoreOK, SafeInstance, NEW t \in Types, store_left[t] > 0
  PROVE  /\ store_chunk[t] \in Chunk /\ state[store_chunk[t]] = "store"
         /\ type[store_chunk[t]] = t
         /\ store_left[t] \in 1..Slots - 1
         /\ store[t] = <<store_chunk[t], Slots + 1 - store_left[t]>>
         /\ store[t] \in Obj
<1>1. /\ store_chunk[t] \in Chunk /\ state[store_chunk[t]] = "store"
      /\ type[store_chunk[t]] = t
  BY DEF StoreOK
<1>2. /\ store_left[t] \in 1..Slots - 1
      /\ store[t] = <<store_chunk[t], Slots + 1 - store_left[t]>>
  BY <1>1 DEF StoreOK
<1>3. Slots + 1 - store_left[t] \in Slot
  BY <1>2, FsoAssumption DEF Slot, SafeInstance
<1> QED
  BY <1>1, <1>2, <1>3 DEF Obj

\* newXXX takes the next slot of a store chunk that has more than one left.
LEMMA NewFromStoreIInv ==
  ASSUME IInv, SafeInstance, NEW t \in Types, NEW w \in Words, NewFromStore(t, w),
         gc_info_nb < MaxNew
  PROVE  IInv'
<1> DEFINE n == store[t]
<1>1. /\ pc = "run" /\ store_left[t] > 1
      /\ store_left' = [store_left EXCEPT ![t] = @ - 1]
      /\ store' = [store EXCEPT ![t] = <<@[1], @[2] + 1>>]
      /\ flag' = [flag EXCEPT ![n] = UNMARKED]
      /\ disposed' = [disposed EXCEPT ![n] = 0]
      /\ Return(n, w)
      /\ UNCHANGED <<state, type, store_chunk, gc_free, fsocfl, fsoc_count,
                     fsoc_count_ceil>>
  BY DEF NewFromStore, StoreHasMany, ceilVars
<1>2. TypeOK /\ StoreOK /\ FreeChunksOK
  BY DEF IInv
<1>3. store_left[t] \in Int /\ Slots \in Int /\ NChunks \in Int
  BY <1>2, FsoAssumption DEF TypeOK
<1>4. PICK c \in Chunk : /\ c = store_chunk[t] /\ state[c] = "store" /\ type[c] = t
                         /\ store_left[t] \in 2..Slots - 1
                         /\ n = <<c, Slots + 1 - store_left[t]>> /\ n \in Obj
  BY <1>1, <1>2, <1>3, StoreFacts
<1>5. /\ store_left'[t] = store_left[t] - 1
      /\ store'[t] = <<c, Slots + 1 - (store_left[t] - 1)>>
      /\ \A u \in Types : u # t => store'[u] = store[u] /\ store_left'[u] = store_left[u]
  <2>1. store'[t] = <<n[1], n[2] + 1>>
    BY <1>1, <1>2 DEF TypeOK
  <2>2. n[1] = c /\ n[2] + 1 = Slots + 1 - (store_left[t] - 1)
    BY <1>3, <1>4
  <2>3. /\ store_left'[t] = store_left[t] - 1
        /\ \A u \in Types : u # t => store'[u] = store[u] /\ store_left'[u] = store_left[u]
    BY <1>1, <1>2 DEF TypeOK
  <2> QED
    BY <2>1, <2>2, <2>3
<1>6. \A d \in Chunk : state[d] = "store" /\ type[d] = t => d = c
  BY <1>2, <1>4 DEF StoreOK
<1>7. ~InUse(n) /\ \A o \in Obj : InUse(o)' <=> InUse(o) \/ o = n
  <2>1. ASSUME NEW o \in Obj PROVE InUse(o)' <=> InUse(o) \/ o = n
    <3>1. o = <<o[1], o[2]>> /\ o[1] \in Chunk /\ o[2] \in Slot /\ o[1] \in Int /\ o[2] \in Int
      BY DEF Obj, Chunk, Slot
    <3>2. CASE state[o[1]] = "store" /\ type[o[1]] = t
      <4>1. o[1] = c
        BY <1>6, <3>1, <3>2
      <4> QED
        BY <1>1, <1>3, <1>4, <1>5, <3>1, <3>2, <4>1 DEF InUse, Below
    <3>3. CASE ~(state[o[1]] = "store" /\ type[o[1]] = t)
      <4>1. type[o[1]] \in Types /\ o # n
        BY <1>2, <1>4, <3>1, <3>3 DEF TypeOK
      <4> QED
        BY <1>1, <1>5, <3>3, <4>1 DEF InUse
    <3> QED
      BY <3>2, <3>3
  <2>2. ~InUse(n)
    BY <1>3, <1>4 DEF InUse, Below, Chunk
  <2> QED
    BY <2>1, <2>2
<1> HIDE DEF n
<1>8. /\ flag' \in [Obj -> Flag] /\ disposed' \in [Obj -> 0..2]
      /\ flag'[n] = UNMARKED /\ disposed'[n] = 0
      /\ \A o \in Obj : o # n => flag'[o] = flag[o] /\ disposed'[o] = disposed[o]
  BY <1>1, <1>2, <1>4 DEF TypeOK, Flag
<1>9. \A o \in Obj : state'[o[1]] = "free" => o # n
  BY <1>1, <1>4
<1>10. /\ AllocOK' /\ MarksOK' /\ FreeListsOK' /\ DisposedOnce'
       /\ ControlOK' /\ ClosedOK' /\ MarkingOK' /\ SweepOK' /\ DeadOK'
       /\ attr' \in [Obj -> [Fields -> Ref]]
       /\ word' \in [Words -> Ref] /\ live' \in [Words -> BOOLEAN]
       /\ alloc' \in SUBSET Obj
       /\ gc_info_nb' \in 0..MaxNew
       /\ pc' \in Pc /\ req' = <<>> /\ grey' = {}
       /\ UNCHANGED <<global, gc_is_off, collector_counter, cur, dead, old_gc_free>>
  <2>1. AtRest
    BY <1>1 DEF AtRest
  <2>2. \A o \in Obj : InUse(o) \/ state'[o[1]] = "free" =>
            flag'[o] = flag[o] /\ disposed'[o] = disposed[o] /\ type'[o[1]] = type[o[1]]
    BY <1>1, <1>7, <1>8, <1>9
  <2>3. \A o \in Obj : state'[o[1]] = "free" => state[o[1]] = "free"
    BY <1>1
  <2> QED
    BY <1>1, <1>4, <1>7, <1>8, <2>1, <2>2, <2>3, TakeSlotIInv
<1>11. /\ store' \in [Types -> (0..NChunks) \X (0..Slots + 1)]
       /\ store_left' \in [Types -> 0..Slots]
  <2>1. store'[t] \in (0..NChunks) \X (0..Slots + 1) /\ store_left'[t] \in 0..Slots
    BY <1>3, <1>4, <1>5 DEF Chunk
  <2> QED
    BY <1>1, <1>2, <1>5, <2>1 DEF TypeOK
<1>12. TypeOK'
  BY <1>1, <1>2, <1>8, <1>10, <1>11 DEF TypeOK
<1>13. StoreOK'
  <2>1. store_left'[t] \in 1..Slots - 1
    BY <1>3, <1>4, <1>5
  <2> QED
    BY <1>1, <1>2, <1>4, <1>5, <1>6, <2>1 DEF StoreOK, TypeOK
<1>14. FreeChunksOK'
  BY <1>1, <1>2 DEF FreeChunksOK, Injective
<1> QED
  BY <1>10, <1>12, <1>13, <1>14 DEF IInv

\* newXXX takes the last slot of the store chunk, which becomes a used chunk.
LEMMA NewLastIInv ==
  ASSUME IInv, SafeInstance, NEW t \in Types, NEW w \in Words, NewLast(t, w),
         gc_info_nb < MaxNew
  PROVE  IInv'
<1> DEFINE n == store[t]
<1>1. /\ pc = "run" /\ store_left[t] = 1
      /\ store_left' = [store_left EXCEPT ![t] = 0]
      /\ state' = [state EXCEPT ![store_chunk[t]] = "used"]
      /\ store' = [store EXCEPT ![t] = <<@[1], @[2] + 1>>]
      /\ flag' = [flag EXCEPT ![n] = UNMARKED]
      /\ disposed' = [disposed EXCEPT ![n] = 0]
      /\ Return(n, w)
      /\ UNCHANGED <<type, store_chunk, gc_free, fsocfl, fsoc_count, fsoc_count_ceil>>
  BY DEF NewLast, ceilVars
<1>2. TypeOK /\ StoreOK /\ FreeChunksOK
  BY DEF IInv
<1>3. store_left[t] \in Int /\ Slots \in Int /\ NChunks \in Int /\ Slots >= 2 /\ NChunks >= 0
  BY <1>2, FsoAssumption DEF TypeOK, SafeInstance
<1>4. PICK c \in Chunk : /\ c = store_chunk[t] /\ state[c] = "store" /\ type[c] = t
                         /\ n = <<c, Slots>> /\ n \in Obj
  BY <1>1, <1>2, <1>3, StoreFacts
<1>5. /\ store_left'[t] = 0 /\ store'[t] = <<c, Slots + 1>>
      /\ \A u \in Types : u # t => store'[u] = store[u] /\ store_left'[u] = store_left[u]
  <2>1. store'[t] = <<n[1], n[2] + 1>>
    BY <1>1, <1>2 DEF TypeOK
  <2>2. n[1] = c /\ n[2] + 1 = Slots + 1
    BY <1>3, <1>4
  <2>3. /\ store_left'[t] = 0
        /\ \A u \in Types : u # t => store'[u] = store[u] /\ store_left'[u] = store_left[u]
    BY <1>1, <1>2 DEF TypeOK
  <2> QED
    BY <2>1, <2>2, <2>3
<1>6. \A d \in Chunk : state[d] = "store" /\ type[d] = t => d = c
  BY <1>2, <1>4 DEF StoreOK
<1>7. /\ state' \in [Chunk -> {"none", "store", "used", "free"}]
      /\ state'[c] = "used" /\ \A d \in Chunk : d # c => state'[d] = state[d]
  BY <1>1, <1>2, <1>4 DEF TypeOK
<1>8. ~InUse(n) /\ \A o \in Obj : InUse(o)' <=> InUse(o) \/ o = n
  <2>1. ASSUME NEW o \in Obj PROVE InUse(o)' <=> InUse(o) \/ o = n
    <3>1. /\ o = <<o[1], o[2]>> /\ o[1] \in Chunk /\ o[1] \in Int /\ o[2] \in Int
          /\ o[2] <= Slots
      BY <1>3 DEF Obj, Chunk, Slot
    <3>2. CASE o[1] = c
      BY <1>1, <1>3, <1>4, <1>7, <3>1, <3>2 DEF InUse, Below
    <3>3. CASE o[1] # c
      <4>1. state'[o[1]] = state[o[1]] /\ type[o[1]] \in Types /\ o # n
        BY <1>2, <1>4, <1>7, <3>1, <3>3 DEF TypeOK
      <4>2. state[o[1]] = "store" => type[o[1]] # t
        BY <1>6, <3>1, <3>3
      <4> QED
        BY <1>1, <1>5, <4>1, <4>2 DEF InUse
    <3> QED
      BY <3>2, <3>3
  <2>2. ~InUse(n)
    BY <1>3, <1>4 DEF InUse, Below, Chunk
  <2> QED
    BY <2>1, <2>2
<1> HIDE DEF n
<1>9. /\ flag' \in [Obj -> Flag] /\ disposed' \in [Obj -> 0..2]
      /\ flag'[n] = UNMARKED /\ disposed'[n] = 0
      /\ \A o \in Obj : o # n => flag'[o] = flag[o] /\ disposed'[o] = disposed[o]
  BY <1>1, <1>2, <1>4 DEF TypeOK, Flag
<1>10. \A o \in Obj : state'[o[1]] = "free" => o # n /\ state[o[1]] = "free"
  <2>1. \A o \in Obj : o[1] \in Chunk
    BY DEF Obj
  <2>2. n[1] = c
    BY <1>4
  <2> QED
    BY <1>7, <2>1, <2>2
<1>11. /\ AllocOK' /\ MarksOK' /\ FreeListsOK' /\ DisposedOnce'
       /\ ControlOK' /\ ClosedOK' /\ MarkingOK' /\ SweepOK' /\ DeadOK'
       /\ attr' \in [Obj -> [Fields -> Ref]]
       /\ word' \in [Words -> Ref] /\ live' \in [Words -> BOOLEAN]
       /\ alloc' \in SUBSET Obj
       /\ gc_info_nb' \in 0..MaxNew
       /\ pc' \in Pc /\ req' = <<>> /\ grey' = {}
       /\ UNCHANGED <<global, gc_is_off, collector_counter, cur, dead, old_gc_free>>
  <2>1. AtRest
    BY <1>1 DEF AtRest
  <2>2. \A o \in Obj : InUse(o) \/ state'[o[1]] = "free" =>
            flag'[o] = flag[o] /\ disposed'[o] = disposed[o] /\ type'[o[1]] = type[o[1]]
    BY <1>1, <1>8, <1>9, <1>10
  <2> QED
    BY <1>1, <1>4, <1>8, <1>9, <1>10, <2>1, <2>2, TakeSlotIInv
<1>12. /\ store' \in [Types -> (0..NChunks) \X (0..Slots + 1)]
       /\ store_left' \in [Types -> 0..Slots]
  <2>1. store'[t] \in (0..NChunks) \X (0..Slots + 1) /\ store_left'[t] \in 0..Slots
    BY <1>3, <1>4, <1>5 DEF Chunk
  <2> QED
    BY <1>1, <1>2, <1>5, <2>1 DEF TypeOK
<1>13. TypeOK'
  BY <1>1, <1>2, <1>7, <1>9, <1>11, <1>12 DEF TypeOK
<1>14. StoreOK'
  <2>1. \A d \in Chunk : state'[d] = "store" => state[d] = "store" /\ type[d] # t /\ type[d] \in Types
    BY <1>2, <1>6, <1>7 DEF TypeOK
  <2>2. \A u \in Types : store_left'[u] > 0 =>
           u # t /\ store_left[u] > 0 /\ store_chunk[u] # c
    BY <1>2, <1>4, <1>5 DEF StoreOK
  <2>3. ASSUME NEW d \in Chunk, state'[d] = "store"
        PROVE  /\ store_chunk'[type'[d]] = d
               /\ store_left'[type'[d]] \in 1..Slots - 1
               /\ store'[type'[d]] = <<d, Slots + 1 - store_left'[type'[d]]>>
    <3>1. state[d] = "store" /\ type'[d] = type[d] /\ type[d] # t /\ type[d] \in Types
      BY <1>1, <2>1, <2>3
    <3>2. /\ store_chunk[type[d]] = d
          /\ store_left[type[d]] \in 1..Slots - 1
          /\ store[type[d]] = <<d, Slots + 1 - store_left[type[d]]>>
      BY <1>2, <3>1 DEF StoreOK
    <3> QED
      BY <1>1, <1>5, <3>1, <3>2
  <2>4. ASSUME NEW u \in Types, store_left'[u] > 0
        PROVE  /\ store_chunk'[u] \in Chunk
               /\ state'[store_chunk'[u]] = "store"
               /\ type'[store_chunk'[u]] = u
    <3>1. u # t /\ store_left[u] > 0 /\ store_chunk[u] # c
      BY <2>2, <2>4
    <3>2. /\ store_chunk[u] \in Chunk
          /\ state[store_chunk[u]] = "store"
          /\ type[store_chunk[u]] = u
      BY <1>2, <3>1 DEF StoreOK
    <3> QED
      BY <1>1, <1>7, <3>1, <3>2
  <2> QED
    BY <2>3, <2>4 DEF StoreOK
<1>15. FreeChunksOK'
  <2>1. \A i \in DOMAIN fsocfl : fsocfl[i] \in Chunk
    BY <1>2 DEF TypeOK
  <2> QED
    BY <1>1, <1>2, <1>4, <1>7, <2>1 DEF FreeChunksOK, Injective
<1> QED
  BY <1>11, <1>13, <1>14, <1>15 DEF IInv

\* A chunk that was free, or just obtained, becomes the store chunk of t.
LEMMA CarveIInv ==
  ASSUME IInv, SafeInstance, AtRest, NEW t \in Types, NEW w \in Words, NEW c \in Chunk,
         Carve(t, w, c), store_left[t] = 0, gc_info_nb < MaxNew,
         state[c] \in {"none", "free"},
         fsocfl' \in Seq(Chunk), Injective(fsocfl'),
         \A i \in DOMAIN fsocfl' : fsocfl'[i] # c /\ state[fsocfl'[i]] = "free",
         fsoc_count' \in Nat, fsoc_count_ceil' \in Nat
  PROVE  IInv'
<1> DEFINE n == <<c, 1>>
<1>1. PICK g \in Garbage :
        flag' = [o \in Obj |-> IF o = <<c, 1>> THEN UNMARKED
                               ELSE IF o[1] = c THEN g ELSE flag[o]]
  BY DEF Carve
<1>2. /\ state' = [state EXCEPT ![c] = "store"]
      /\ type' = [type EXCEPT ![c] = t]
      /\ store_chunk' = [store_chunk EXCEPT ![t] = c]
      /\ store' = [store EXCEPT ![t] = <<c, 2>>]
      /\ store_left' = [store_left EXCEPT ![t] = Slots - 1]
      /\ disposed' = [o \in Obj |-> IF o[1] = c THEN 0 ELSE disposed[o]]
      /\ Return(n, w)
      /\ gc_free' = gc_free
  BY DEF Carve
<1>3. TypeOK /\ StoreOK /\ FreeChunksOK
  BY DEF IInv
<1>4. Slots \in Int /\ NChunks \in Int /\ Slots >= 2 /\ NChunks >= 0 /\ g \in Flag
  BY FsoAssumption DEF SafeInstance
<1>5. n \in Obj
  BY <1>4 DEF Obj, Slot
<1>6. /\ state' \in [Chunk -> {"none", "store", "used", "free"}]
      /\ type' \in [Chunk -> Types]
      /\ state'[c] = "store" /\ type'[c] = t
      /\ \A d \in Chunk : d # c => state'[d] = state[d] /\ type'[d] = type[d]
  BY <1>2, <1>3 DEF TypeOK
<1>7. /\ store'[t] = <<c, 2>> /\ store_left'[t] = Slots - 1 /\ store_chunk'[t] = c
      /\ \A u \in Types : u # t => /\ store'[u] = store[u]
                                   /\ store_left'[u] = store_left[u]
                                   /\ store_chunk'[u] = store_chunk[u]
  BY <1>2, <1>3 DEF TypeOK
<1>8. \A d \in Chunk : state[d] = "store" => type[d] # t /\ type[d] \in Types /\ d # c
  <2> SUFFICES ASSUME NEW d \in Chunk, state[d] = "store"
               PROVE  type[d] # t /\ type[d] \in Types /\ d # c
    OBVIOUS
  <2>1. store_left[type[d]] \in 1..Slots - 1
    BY <1>3 DEF StoreOK
  <2>2. store_left[type[d]] # 0
    BY <1>4, <2>1
  <2> QED
    BY <1>3, <2>2 DEF TypeOK
<1>9. ~InUse(n) /\ \A o \in Obj : InUse(o)' <=> InUse(o) \/ o = n
  <2>1. ASSUME NEW o \in Obj PROVE InUse(o)' <=> InUse(o) \/ o = n
    <3>1. /\ o = <<o[1], o[2]>> /\ o[1] \in Chunk /\ o[1] \in Int /\ o[2] \in Int
          /\ o[2] >= 1
      BY <1>4 DEF Obj, Chunk, Slot
    <3>2. CASE o[1] = c
      <4>1. ~InUse(o)
        BY <3>2 DEF InUse
      <4>2. InUse(o)' <=> Below(o, <<c, 2>>)
        BY <1>6, <1>7, <3>2 DEF InUse
      <4>3. Below(o, <<c, 2>>) <=> o[2] < 2
        BY <3>1, <3>2 DEF Below
      <4> QED
        BY <3>1, <3>2, <4>1, <4>2, <4>3
    <3>3. CASE o[1] # c
      <4>1. state'[o[1]] = state[o[1]] /\ type'[o[1]] = type[o[1]] /\ o # n
        BY <1>6, <3>1, <3>3
      <4>2. state[o[1]] = "store" => type[o[1]] # t /\ type[o[1]] \in Types
        BY <1>8, <3>1
      <4> QED
        BY <1>7, <4>1, <4>2 DEF InUse
    <3> QED
      BY <3>2, <3>3
  <2>2. ~InUse(n)
    BY DEF InUse
  <2> QED
    BY <2>1, <2>2
<1>10. /\ flag' \in [Obj -> Flag] /\ disposed' \in [Obj -> 0..2]
       /\ flag'[n] = UNMARKED /\ disposed'[n] = 0
       /\ \A o \in Obj : o[1] # c => flag'[o] = flag[o] /\ disposed'[o] = disposed[o]
  <2>0. flag \in [Obj -> Flag] /\ disposed \in [Obj -> 0..2]
    BY <1>3 DEF TypeOK
  <2>1. UNMARKED \in Flag /\ flag \in [Obj -> Flag] /\ disposed \in [Obj -> 0..2] /\ 0 \in 0..2
    BY <2>0 DEF Flag
  <2>2. flag' \in [Obj -> Flag]
    BY <1>1, <1>4, <2>1
  <2>3. disposed' \in [Obj -> 0..2]
    BY <1>2, <2>1
  <2>4. flag'[n] = UNMARKED /\ disposed'[n] = 0
    BY <1>1, <1>2, <1>5
  <2>5. \A o \in Obj : o[1] # c => o # n
    OBVIOUS
  <2>6. \A o \in Obj : o[1] # c => flag'[o] = flag[o] /\ disposed'[o] = disposed[o]
    BY <1>1, <1>2, <2>5
  <2> QED
    BY <2>2, <2>3, <2>4, <2>6
<1>11. \A o \in Obj : o[1] \in Chunk
  BY DEF Obj
<1>12. /\ AllocOK' /\ MarksOK' /\ FreeListsOK' /\ DisposedOnce'
       /\ ControlOK' /\ ClosedOK' /\ MarkingOK' /\ SweepOK' /\ DeadOK'
       /\ attr' \in [Obj -> [Fields -> Ref]]
       /\ word' \in [Words -> Ref] /\ live' \in [Words -> BOOLEAN]
       /\ alloc' \in SUBSET Obj
       /\ gc_info_nb' \in 0..MaxNew
       /\ pc' \in Pc /\ req' = <<>> /\ grey' = {}
       /\ UNCHANGED <<global, gc_is_off, collector_counter, cur, dead, old_gc_free>>
  <2> HIDE DEF n
  <2>1. \A o \in Obj : InUse(o) \/ state'[o[1]] = "free" => o[1] # c
    BY <1>6 DEF InUse
  <2>2. \A o \in Obj : InUse(o) \/ state'[o[1]] = "free" =>
            flag'[o] = flag[o] /\ disposed'[o] = disposed[o] /\ type'[o[1]] = type[o[1]]
    BY <1>6, <1>10, <1>11, <2>1
  <2>3. \A o \in Obj : state'[o[1]] = "free" => state[o[1]] = "free"
    BY <1>6, <1>11, <2>1
  <2> QED
    BY <1>2, <1>5, <1>9, <1>10, <2>2, <2>3, TakeSlotIInv
<1>13. /\ store' \in [Types -> (0..NChunks) \X (0..Slots + 1)]
       /\ store_left' \in [Types -> 0..Slots]
       /\ store_chunk' \in [Types -> 0..NChunks]
  <2>1. /\ <<c, 2>> \in (0..NChunks) \X (0..Slots + 1) /\ Slots - 1 \in 0..Slots
        /\ c \in 0..NChunks
    BY <1>4 DEF Chunk
  <2> QED
    BY <1>2, <1>3, <2>1 DEF TypeOK
<1>14. TypeOK'
  BY <1>2, <1>3, <1>6, <1>10, <1>12, <1>13 DEF TypeOK
<1>15. StoreOK'
  <2>1. Slots - 1 \in 1..Slots - 1 /\ 2 = Slots + 1 - (Slots - 1) /\ Slots - 1 > 0
    BY <1>4
  <2>2. ASSUME NEW d \in Chunk, state'[d] = "store"
        PROVE  /\ store_chunk'[type'[d]] = d
               /\ store_left'[type'[d]] \in 1..Slots - 1
               /\ store'[type'[d]] = <<d, Slots + 1 - store_left'[type'[d]]>>
    <3>1. CASE d = c
      BY <1>6, <1>7, <2>1, <3>1
    <3>2. CASE d # c
      <4>1. state[d] = "store" /\ type'[d] = type[d] /\ type[d] # t /\ type[d] \in Types
        BY <1>6, <1>8, <2>2, <3>2
      <4>2. /\ store_chunk[type[d]] = d
            /\ store_left[type[d]] \in 1..Slots - 1
            /\ store[type[d]] = <<d, Slots + 1 - store_left[type[d]]>>
        BY <1>3, <4>1 DEF StoreOK
      <4> QED
        BY <1>7, <4>1, <4>2
    <3> QED
      BY <3>1, <3>2
  <2>3. ASSUME NEW u \in Types, store_left'[u] > 0
        PROVE  /\ store_chunk'[u] \in Chunk
               /\ state'[store_chunk'[u]] = "store"
               /\ type'[store_chunk'[u]] = u
    <3>1. CASE u = t
      BY <1>6, <1>7, <3>1
    <3>2. CASE u # t
      <4>1. /\ store_chunk'[u] = store_chunk[u] /\ store_chunk[u] \in Chunk
            /\ state[store_chunk[u]] = "store" /\ type[store_chunk[u]] = u
        BY <1>3, <1>7, <2>3, <3>2 DEF StoreOK
      <4> QED
        BY <1>6, <1>8, <4>1
    <3> QED
      BY <3>1, <3>2
  <2> QED
    BY <2>2, <2>3 DEF StoreOK
<1>16. FreeChunksOK'
  BY <1>6 DEF FreeChunksOK
<1> QED
  BY <1>12, <1>14, <1>15, <1>16 DEF IInv

\* gc_fsoc_get1 and gc_fsoc_get2 reuse the chunk at the head of fsocfl.
LEMMA TakeFreeChunkIInv ==
  ASSUME IInv, SafeInstance, AtRest, NEW t \in Types, NEW w \in Words,
         TakeFreeChunk(t, w), store_left[t] = 0, gc_info_nb < MaxNew
  PROVE  IInv'
<1> DEFINE c == Top(fsocfl)
<1>1. TypeOK /\ FreeChunksOK
  BY DEF IInv
<1>2. /\ fsocfl \in Seq(Chunk) /\ fsocfl # <<>> /\ Injective(fsocfl)
      /\ fsocfl' = Pop(fsocfl) /\ Carve(t, w, c)
      /\ fsoc_count' = fsoc_count /\ fsoc_count_ceil' = fsoc_count_ceil
  BY <1>1 DEF TakeFreeChunk, TypeOK, FreeChunksOK, ceilVars
<1>3. /\ c \in Chunk /\ Len(fsocfl) \in DOMAIN fsocfl /\ c = fsocfl[Len(fsocfl)]
      /\ Pop(fsocfl) \in Seq(Chunk) /\ Injective(Pop(fsocfl))
      /\ \A i \in DOMAIN Pop(fsocfl) :
           i \in DOMAIN fsocfl /\ Pop(fsocfl)[i] = fsocfl[i] /\ fsocfl[i] # c
  BY <1>2, PopFacts
<1>4. state[c] = "free"
  BY <1>1, <1>3 DEF FreeChunksOK
<1>5. \A i \in DOMAIN fsocfl' : fsocfl'[i] # c /\ state[fsocfl'[i]] = "free"
  BY <1>1, <1>2, <1>3 DEF FreeChunksOK
<1>6. fsoc_count' \in Nat /\ fsoc_count_ceil' \in Nat
  BY <1>1, <1>2 DEF TypeOK
<1> HIDE DEF c
<1> QED
  BY <1>2, <1>3, <1>4, <1>5, <1>6, CarveIInv

\* gc_fsoc_get1 and gc_fsoc_get2 obtain a chunk from se_malloc.
LEMMA MallocChunkIInv ==
  ASSUME IInv, SafeInstance, AtRest, NEW t \in Types, NEW w \in Words,
         MallocChunk(t, w), fsoc_count_ceil' \in Nat,
         store_left[t] = 0, gc_info_nb < MaxNew
  PROVE  IInv'
<1>1. TypeOK /\ FreeChunksOK
  BY DEF IInv
<1>2. PICK c \in Chunk : state[c] = "none" /\ Carve(t, w, c)
  BY DEF MallocChunk
<1>3. fsocfl' = <<>> /\ fsoc_count' = fsoc_count + 1
  BY DEF MallocChunk
<1>4. fsocfl' \in Seq(Chunk) /\ Injective(fsocfl') /\ DOMAIN fsocfl' = {}
  BY <1>3 DEF Injective
<1>5. fsoc_count \in Nat
  BY <1>1 DEF TypeOK
<1>6. fsoc_count' \in Nat
  BY <1>3, <1>5
<1> QED
  BY <1>2, <1>4, <1>6, CarveIInv

\* gc_update_ceils computes a ceiling, under every strategy.
LEMMA UpdatedCeilNat ==
  ASSUME NEW n \in Nat, fsoc_count_ceil \in Nat PROVE UpdatedCeil(n) \in Nat
<1>1. n \div 3 \in Nat
  OBVIOUS
<1>2. CASE Strategy = "low"
  BY <1>2 DEF UpdatedCeil
<1>3. CASE Strategy = "high"
  BY <1>3 DEF UpdatedCeil
<1>4. CASE Strategy = "default"
  BY <1>1, <1>4 DEF UpdatedCeil
<1> QED
  BY <1>2, <1>3, <1>4, FsoAssumption

\* The program is stopped in the middle of newXXX.
LEMMA OutOfMemoryIInv ==
  ASSUME IInv, AtRest, OutOfMemory PROVE IInv'
<1>1. /\ pc' = "halt" /\ req' = <<>>
      /\ UNCHANGED <<state, type, store, store_left, store_chunk, flag, attr,
           gc_free, fsocfl, fsoc_count, fsoc_count_ceil, gc_is_off,
           collector_counter, gc_info_nb, word, live, global, grey, cur, dead,
           old_gc_free, alloc, disposed>>
  BY DEF OutOfMemory, chunkVars, ceilVars, gcVars, progVars, sweepVars, histVars
<1>2. pc \in {"run", "resume"}
  BY DEF AtRest
<1>3. TypeOK' /\ StoreOK' /\ AllocOK' /\ FreeChunksOK' /\ DisposedOnce'
  <2>1. TypeOK'
    BY <1>1 DEF IInv, TypeOK, Pc
  <2>2. \A o : InUse(o)' <=> InUse(o)
    BY <1>1 DEF InUse
  <2> QED
    BY <1>1, <2>1, <2>2 DEF IInv, StoreOK, AllocOK, FreeChunksOK, DisposedOnce, Injective
<1>4. ControlOK' /\ MarksOK' /\ FreeListsOK' /\ ClosedOK' /\ MarkingOK' /\ SweepOK' /\ DeadOK'
  BY <1>1, <1>2 DEF IInv, ControlOK, MarksOK, FreeListsOK, ClosedOK, MarkingOK, SweepOK,
                    DeadOK, Marking, AtRest, Sweeping
<1> QED
  BY <1>3, <1>4 DEF IInv

\* Every path of newXXX that does not start a collection.
LEMMA NewIInv ==
  ASSUME IInv, SafeInstance, gc_info_nb < MaxNew, NEW t \in Types, NEW w \in Words,
         \/ NewFromStore(t, w) \/ NewFromFree(t, w) \/ NewLast(t, w)
         \/ NewFromGet1(t, w) \/ NewFails(t)
  PROVE  IInv'
<1>1. CASE NewFromStore(t, w)
  BY <1>1, NewFromStoreIInv
<1>2. CASE NewFromFree(t, w)
  BY <1>2, PopFreeIInv DEF NewFromFree, AtRest
<1>3. CASE NewLast(t, w)
  BY <1>3, NewLastIInv
<1>4. CASE NewFromGet1(t, w)
  <2>1. AtRest /\ store_left[t] = 0
    BY <1>4 DEF NewFromGet1, Exhausted, AtRest
  <2>2. CASE TakeFreeChunk(t, w)
    BY <2>1, <2>2, TakeFreeChunkIInv
  <2>3. CASE MallocChunk(t, w) /\ UNCHANGED fsoc_count_ceil
    BY <2>1, <2>3, MallocChunkIInv DEF IInv, TypeOK
  <2> QED
    BY <1>4, <2>2, <2>3 DEF NewFromGet1
<1>5. CASE NewFails(t)
  BY <1>5, OutOfMemoryIInv DEF NewFails, AtRest
<1> QED
  BY <1>1, <1>2, <1>3, <1>4, <1>5

\* newXXX goes on after gc_start.
LEMMA ResumeIInv ==
  ASSUME IInv, SafeInstance, ResumeFree \/ ResumeGet2 \/ ResumeFails
  PROVE  IInv'
<1>1. pc = "resume" /\ AtRest
  BY DEF ResumeFree, ResumeGet2, ResumeFails, AtRest
<1>2. /\ req # <<>> /\ req \in (Types \X Words) \cup {<<>>}
      /\ gc_info_nb < MaxNew /\ store_left[req[1]] = 0
  BY <1>1 DEF IInv, ControlOK, TypeOK
<1>3. PICK t \in Types, w \in Words : t = req[1] /\ w = req[2]
  BY <1>2
<1>4. CASE ResumeFree
  BY <1>1, <1>2, <1>3, <1>4, PopFreeIInv DEF ResumeFree
<1>5. CASE ResumeGet2
  <2>1. CASE TakeFreeChunk(t, w)
    BY <1>1, <1>2, <1>3, <2>1, TakeFreeChunkIInv
  <2>2. CASE MallocChunk(t, w) /\ fsoc_count_ceil' = UpdatedCeil(fsoc_count + 1)
    <3>1. fsoc_count \in Nat /\ fsoc_count_ceil \in Nat
      BY DEF IInv, TypeOK
    <3>2. fsoc_count + 1 \in Nat
      BY <3>1
    <3>3. fsoc_count_ceil' \in Nat
      BY <2>2, <3>1, <3>2, UpdatedCeilNat
    <3> QED
      BY <1>1, <1>2, <1>3, <2>2, <3>3, MallocChunkIInv
  <2> QED
    BY <1>3, <1>5, <2>1, <2>2 DEF ResumeGet2
<1>6. CASE ResumeFails
  BY <1>1, <1>6, OutOfMemoryIInv DEF ResumeFails
<1> QED
  BY <1>4, <1>5, <1>6

-----------------------------------------------------------------------------
(* The collector.                                                          *)

----------------------------------------------------------------------------
(* The mark phase. *)

\* What marking a set of slots in use does to the headers.
LEMMA MarkFacts ==
  ASSUME TypeOK, AllocOK, NEW S, NEW done, Mark(S, done), S \subseteq Obj,
         \A o \in S : InUse(o)
  PROVE  /\ flag' \in [Obj -> Flag]
         /\ ToVisit(S) \subseteq alloc
         /\ \A o \in ToVisit(S) : flag'[o] = MARKED
         /\ \A o \in Obj : o \notin ToVisit(S) => flag'[o] = flag[o]
         /\ \A o \in alloc : o \in S => flag'[o] = MARKED
         /\ \A o \in Obj : flag[o] = MARKED => flag'[o] = MARKED
         /\ \A o \in Obj : flag'[o] = NEXT <=> flag[o] = NEXT
         /\ grey' = (grey \ done) \cup ToVisit(S)
<1>1. /\ flag' = [o \in Obj |-> IF o \in ToVisit(S) THEN MARKED ELSE flag[o]]
      /\ grey' = (grey \ done) \cup ToVisit(S)
  BY DEF Mark
<1>2. flag \in [Obj -> Flag]
  BY DEF TypeOK
<1>3. MARKED \in Flag /\ UNMARKED # NEXT /\ MARKED # NEXT /\ UNMARKED # MARKED
  BY DEF Flag, MARKED, UNMARKED, NEXT
<1>4. flag' \in [Obj -> Flag]
  BY <1>1, <1>2, <1>3
<1>5. ToVisit(S) \subseteq alloc /\ \A o \in ToVisit(S) : flag[o] = UNMARKED /\ o \in Obj
  BY <1>3 DEF ToVisit, AllocOK
<1>6. \A o \in Obj : flag'[o] = IF o \in ToVisit(S) THEN MARKED ELSE flag[o]
  BY <1>1
<1>7. \A o \in alloc : o \in S => o \in ToVisit(S) \/ flag[o] = MARKED
  BY <1>2 DEF ToVisit, AllocOK, Flag
<1>8. alloc \subseteq Obj
  BY DEF AllocOK
<1> QED
  BY <1>1, <1>3, <1>4, <1>5, <1>6, <1>7, <1>8

\* gc_markXXX on objects of the heap keeps the invariant of the mark phase.
LEMMA MarkIInv ==
  ASSUME IInv, AtRest \/ Marking, NEW S, NEW done, Mark(S, done),
         S \subseteq Obj, \A o \in S : InUse(o),
         \A o \in done : Followed(o) \subseteq S,
         Marking', pc' \in Pc, req' \in (Types \X Words) \cup {<<>>}, ControlOK',
         UNCHANGED <<state, type, store, store_left, store_chunk, attr, fsocfl,
           fsoc_count, fsoc_count_ceil, gc_is_off, collector_counter, gc_info_nb,
           word, live, global, cur, dead, old_gc_free, alloc, disposed>>,
         gc_free' = [t \in Types |-> <<>>],
         \A g \in Globals : \/ global[g] = Nil \/ global[g] \in S
                            \/ Marking,
         pc' = "mark_stack" =>
           \A w \in Words : live[w] /\ word[w] # Nil =>
              word[w] \in S \/ pc = "mark_stack"
  PROVE  IInv'
<1>1. /\ TypeOK /\ StoreOK /\ AllocOK /\ MarksOK /\ FreeListsOK /\ FreeChunksOK
      /\ DisposedOnce /\ Closed(alloc) /\ WeakClosed(alloc) /\ ControlOK
      /\ MarkingOK
  BY DEF IInv, ClosedOK
<1>2. /\ flag' \in [Obj -> Flag]
      /\ ToVisit(S) \subseteq alloc
      /\ \A o \in ToVisit(S) : flag'[o] = MARKED
      /\ \A o \in Obj : o \notin ToVisit(S) => flag'[o] = flag[o]
      /\ \A o \in alloc : o \in S => flag'[o] = MARKED
      /\ \A o \in Obj : flag[o] = MARKED => flag'[o] = MARKED
      /\ \A o \in Obj : flag'[o] = NEXT <=> flag[o] = NEXT
      /\ grey' = (grey \ done) \cup ToVisit(S)
  BY <1>1, MarkFacts
<1>3. \A o : InUse(o)' <=> InUse(o)
  BY DEF InUse
<1>4. \A o : Followed(o)' = Followed(o)
  BY DEF Followed
<1>5. alloc \subseteq Obj /\ grey \subseteq alloc
  BY <1>1 DEF TypeOK, ControlOK, MarkingOK
<1>6. gc_free' \in [Types -> Seq(Obj)]
  OBVIOUS
<1>7. TypeOK'
  <2>1. grey' \in SUBSET Obj
    BY <1>2, <1>5
  <2> QED
    BY <1>1, <1>2, <1>6, <2>1 DEF TypeOK
<1>8. StoreOK' /\ FreeChunksOK'
  BY <1>1 DEF StoreOK, FreeChunksOK, Injective
<1>9. AllocOK' /\ DisposedOnce'
  BY <1>1, <1>2, <1>3 DEF AllocOK, DisposedOnce
<1>10. MarksOK' /\ SweepOK' /\ DeadOK'
  BY DEF MarksOK, SweepOK, DeadOK, Sweeping, Marking
<1>11. FreeListsOK'
  <2>1. \A t \in Types : gc_free'[t] = <<>> /\ DOMAIN gc_free'[t] = {}
    OBVIOUS
  <2>2. pc' # "sweep"
    BY DEF Marking
  <2> QED
    BY <2>1, <2>2 DEF FreeListsOK, Injective
<1>12. ClosedOK'
  BY <1>1 DEF ClosedOK, Closed, WeakClosed
<1>13. MarkingOK'
  <2>1. grey' \subseteq alloc' /\ \A o \in grey' : flag'[o] = MARKED
    <3>1. \A o \in grey : flag[o] = MARKED
      BY <1>1 DEF ControlOK, MarkingOK
    <3> QED
      BY <1>2, <1>5, <3>1
  <2>2. ASSUME NEW g \in Globals PROVE global'[g] = Nil \/ flag'[global'[g]] = MARKED
    <3>1. global[g] \in alloc \cup {Nil}
      BY <1>1 DEF Closed
    <3>2. Marking => global[g] = Nil \/ flag[global[g]] = MARKED
      BY <1>1 DEF MarkingOK
    <3> QED
      BY <1>2, <1>5, <3>1, <3>2
  <2>3. ASSUME NEW o \in alloc' \ grey', flag'[o] = MARKED, NEW x \in Followed(o)'
        PROVE  flag'[x] = MARKED
    <3>1. o \in alloc /\ o \notin ToVisit(S) /\ o \in Obj /\ flag[o] = MARKED
      BY <1>2, <1>5, <2>3
    <3>2. x \in Followed(o) /\ x \in alloc
      BY <1>1, <1>4, <2>3, <3>1 DEF Followed, Closed
    <3>3. CASE o \in done
      BY <1>2, <3>2, <3>3
    <3>4. CASE o \notin done
      <4>1. o \notin grey
        BY <1>2, <2>3, <3>4
      <4>2. Marking
        BY <1>1, <3>1 DEF MarksOK, AtRest, MARKED, UNMARKED
      <4>3. flag[x] = MARKED
        BY <1>1, <3>1, <3>2, <4>1, <4>2 DEF MarkingOK
      <4> QED
        BY <1>2, <1>5, <3>2, <4>3
    <3> QED
      BY <3>3, <3>4
  <2>4. ASSUME pc' = "mark_stack", NEW w \in Words, live'[w], word'[w] # Nil
        PROVE  flag'[word'[w]] = MARKED
    <3>1. word[w] \in alloc
      BY <1>1, <2>4 DEF Closed
    <3>2. CASE word[w] \in S
      BY <1>2, <3>1, <3>2
    <3>3. CASE pc = "mark_stack"
      <4>1. flag[word[w]] = MARKED
        BY <1>1, <2>4, <3>3 DEF MarkingOK, Marking
      <4> QED
        BY <1>2, <1>5, <3>1, <4>1
    <3> QED
      BY <2>4, <3>2, <3>3
  <2> QED
    BY <2>1, <2>2, <2>3, <2>4 DEF MarkingOK
<1> QED
  BY <1>7, <1>8, <1>9, <1>10, <1>11, <1>12, <1>13 DEF IInv

\* gc_start.
LEMMA GcStartIInv ==
  ASSUME IInv, pc = "run", NEW r \in (Types \X Words) \cup {<<>>},
         r # <<>> => gc_info_nb < MaxNew /\ store_left[r[1]] = 0,
         GcStart(r)
  PROVE  IInv'
<1>1. /\ collector_counter < MaxCollections /\ req' = r
      /\ UNCHANGED <<state, type, store, store_left, store_chunk, attr, fsocfl,
           gc_is_off, collector_counter, gc_info_nb,
           word, live, global, cur, dead, old_gc_free, alloc, disposed>>
  BY DEF GcStart, chunkVars, gcVars, progVars, sweepVars, histVars
<1>2. /\ TypeOK /\ StoreOK /\ AllocOK /\ MarksOK /\ FreeListsOK /\ FreeChunksOK
      /\ DisposedOnce /\ Closed(alloc) /\ WeakClosed(alloc) /\ ControlOK
      /\ grey = {}
  BY DEF IInv, ClosedOK, AtRest, ControlOK, Marking
<1>3. CASE StartMarking
  <2> DEFINE S == {global[g] : g \in Globals} \ {Nil}
  <2>1. /\ gc_free' = [t \in Types |-> <<>>] /\ Mark(S, {}) /\ pc' = "mark_globals"
        /\ UNCHANGED <<fsoc_count, fsoc_count_ceil>>
    BY <1>3 DEF StartMarking, FreeListsBeforeMark, ceilVars
  <2>2. S \subseteq alloc
    BY <1>2 DEF Closed
  <2>3. S \subseteq Obj /\ \A o \in S : InUse(o)
    BY <1>2, <2>2 DEF AllocOK
  <2>4. ControlOK'
    BY <1>1, <1>2, <2>1 DEF ControlOK, Marking
  <2>5. Marking' /\ pc' \in Pc /\ pc' # "mark_stack" /\ AtRest
    BY <2>1 DEF Marking, Pc, AtRest
  <2>6. \A g \in Globals : global[g] = Nil \/ global[g] \in S
    OBVIOUS
  <2> HIDE DEF S
  <2> QED
    BY <1>1, <2>1, <2>3, <2>4, <2>5, <2>6, MarkIInv
<1>4. CASE /\ pc' = IF r = <<>> THEN "run" ELSE "resume"
           /\ fsoc_count_ceil' = IF gc_is_off THEN fsoc_count_ceil
                                 ELSE fsoc_count_ceil + 1
           /\ UNCHANGED <<gc_free, flag, grey, fsoc_count>>
  <2>1. fsoc_count_ceil' \in Nat
    <3>1. fsoc_count_ceil \in Nat
      BY <1>2 DEF TypeOK
    <3> QED
      BY <1>4, <3>1
  <2>2. pc' \in {"run", "resume"}
    BY <1>4
  <2>3. TypeOK'
    BY <1>1, <1>2, <1>4, <2>1, <2>2 DEF TypeOK, Pc
  <2>4. \A o : InUse(o)' <=> InUse(o)
    BY <1>1 DEF InUse
  <2>5. StoreOK' /\ FreeChunksOK'
    BY <1>1, <1>2 DEF StoreOK, FreeChunksOK, Injective
  <2>6. AllocOK' /\ DisposedOnce'
    BY <1>1, <1>2, <1>4, <2>4 DEF AllocOK, DisposedOnce
  <2>7. MarksOK' /\ MarkingOK' /\ SweepOK' /\ DeadOK'
    BY <1>1, <1>2, <1>4, <2>2 DEF MarksOK, MarkingOK, SweepOK, DeadOK, Sweeping, Marking
  <2>8. ControlOK'
    BY <1>1, <1>2, <1>4, <2>2 DEF ControlOK, Marking
  <2>9. FreeListsOK'
    <3>1. \A o, t : FreeSlot(o, t)' <=> FreeSlot(o, t)
      BY <1>1, <1>4, <2>4 DEF FreeSlot
    <3> QED
      BY <1>2, <1>4, <2>2, <3>1 DEF FreeListsOK, Marking, Injective
  <2>10. ClosedOK'
    BY <1>1, <1>2 DEF ClosedOK, Closed, WeakClosed
  <2> QED
    BY <2>3, <2>5, <2>6, <2>7, <2>8, <2>9, <2>10 DEF IInv
<1> QED
  BY <1>3, <1>4 DEF GcStart

\* newXXX finds nothing and calls gc_start.
LEMMA NewCollectsIInv ==
  ASSUME IInv, gc_info_nb < MaxNew, NEW t \in Types, NEW w \in Words, NewCollects(t, w)
  PROVE  IInv'
<1>1. pc = "run" /\ store_left[t] = 0 /\ GcStart(<<t, w>>)
  BY DEF NewCollects, Exhausted
<1> QED
  BY <1>1, GcStartIInv

\* MEMORY.full_collect calls gc_start.
LEMMA FullCollectIInv ==
  ASSUME IInv, FullCollect PROVE IInv'
<1>1. pc = "run" /\ GcStart(<<>>)
  BY DEF FullCollect
<1> QED
  BY <1>1, GcStartIInv

\* Marking and the free lists: there are none.
LEMMA NoFreeLists ==
  ASSUME IInv, Marking PROVE gc_free = [t \in Types |-> <<>>]
<1>1. gc_free \in [Types -> Seq(Obj)] /\ \A t \in Types : DOMAIN gc_free[t] = {}
  BY DEF IInv, TypeOK, FreeListsOK, Marking
<1>2. \A t \in Types : gc_free[t] = <<>>
  BY <1>1
<1> QED
  BY <1>1, <1>2

\* gc_markXXX visits the attributes of a marked object.
LEMMA MarkAttributesIInv ==
  ASSUME IInv, MarkAttributes PROVE IInv'
<1>1. PICK o \in grey : Mark(Followed(o), {o})
  BY DEF MarkAttributes
<1>2. /\ Marking
      /\ UNCHANGED <<state, type, store, store_left, store_chunk, attr, gc_free, fsocfl,
           fsoc_count, fsoc_count_ceil, gc_is_off, collector_counter, gc_info_nb,
           word, live, global, pc, req, cur, dead, old_gc_free, alloc, disposed>>
  BY DEF MarkAttributes, Marking, chunkVars, ceilVars, gcVars, progVars, sweepVars, histVars
<1>3. TypeOK /\ AllocOK /\ ControlOK /\ Closed(alloc) /\ grey \subseteq alloc
  BY <1>2 DEF IInv, ClosedOK, MarkingOK
<1>4. Followed(o) \subseteq alloc
  BY <1>1, <1>3 DEF Followed, Closed
<1>5. Followed(o) \subseteq Obj /\ \A x \in Followed(o) : InUse(x)
  BY <1>3, <1>4 DEF AllocOK
<1>6. ControlOK' /\ Marking' /\ pc' \in Pc /\ req' \in (Types \X Words) \cup {<<>>}
  BY <1>2, <1>3 DEF ControlOK, Marking, TypeOK
<1>7. gc_free' = [t \in Types |-> <<>>]
  BY <1>2, NoFreeLists
<1> QED
  BY <1>1, <1>2, <1>5, <1>6, <1>7, MarkIInv

\* mark_stack_and_registers marks what every stack word designates.
LEMMA MarkStackIInv ==
  ASSUME IInv, MarkStack PROVE IInv'
<1> DEFINE S == {p \in {word[w] : w \in Words} : IsRoot(p)}
<1>1. /\ Marking /\ pc = "mark_globals" /\ pc' = "mark_stack" /\ Mark(S, {})
      /\ UNCHANGED <<state, type, store, store_left, store_chunk, attr, gc_free, fsocfl,
           fsoc_count, fsoc_count_ceil, gc_is_off, collector_counter, gc_info_nb,
           word, live, global, req, cur, dead, old_gc_free, alloc, disposed>>
  BY DEF MarkStack, Marking, chunkVars, ceilVars, gcVars, progVars, sweepVars, histVars
<1>2. TypeOK /\ AllocOK /\ ControlOK /\ Closed(alloc)
  BY <1>1 DEF IInv, ClosedOK
<1>3. S \subseteq Obj /\ \A x \in S : InUse(x)
  BY <1>2 DEF TypeOK, Ref, IsRoot, InUse
<1>4. ControlOK' /\ Marking' /\ pc' \in Pc /\ req' \in (Types \X Words) \cup {<<>>}
  BY <1>1, <1>2 DEF ControlOK, Marking, TypeOK, Pc
<1>5. gc_free' = [t \in Types |-> <<>>]
  BY <1>1, NoFreeLists
<1>6. \A w \in Words : live[w] /\ word[w] # Nil => word[w] \in S
  BY <1>2 DEF Closed, AllocOK, IsRoot, InUse
<1> HIDE DEF S
<1> QED
  BY <1>1, <1>3, <1>4, <1>5, <1>6, MarkIInv

----------------------------------------------------------------------------
(* The sweep. *)

\* Addresses are totally ordered, and the sweep passes them one by one.
LEMMA Order ==
  /\ \A a, b \in Obj : Below(a, b) \/ a = b \/ Below(b, a)
  /\ \A a \in Obj : ~Below(a, a)
  /\ \A a, b \in Obj : Below(a, b) => ~Below(b, a)
  /\ \A a, b \in Obj : Below(a, <<b[1], b[2] + 1>>) <=> Below(a, b) \/ a = b
<1>2. \A a \in Obj : a = <<a[1], a[2]>> /\ a[1] \in Int /\ a[2] \in Int
  <2> SUFFICES ASSUME NEW a \in Obj PROVE a = <<a[1], a[2]>> /\ a[1] \in Int /\ a[2] \in Int
    OBVIOUS
  <2> QED
    BY FsoAssumption DEF Obj, Chunk, Slot
<1>3. \A a, b \in Obj : a[1] = b[1] /\ a[2] = b[2] => a = b
  BY <1>2
<1>4. \A a, b \in Obj : Below(a, b) \/ a = b \/ Below(b, a)
  BY <1>2, <1>3 DEF Below
<1>5. \A a, b \in Obj : Below(a, <<b[1], b[2] + 1>>) <=> Below(a, b) \/ a = b
  BY <1>2, <1>3 DEF Below
<1>6. \A a, b \in Obj : Below(a, b) => ~Below(b, a)
  BY <1>2 DEF Below
<1> QED
  BY <1>4, <1>5, <1>6

\* Marking is over: the marked objects are closed under reference, which is
\* what the sweep relies on.
LEMMA BeginSweepIInv ==
  ASSUME IInv, BeginSweep PROVE IInv'
<1>1. /\ pc = "mark_stack" /\ grey = {} /\ pc' = "sweep"
      /\ cur' = <<1, 1>> /\ dead' = TRUE
      /\ old_gc_free' = IF ToSweep(1) THEN gc_free[type[1]] ELSE <<>>
      /\ UNCHANGED <<state, type, store, store_left, store_chunk, flag, attr, gc_free,
           fsocfl, fsoc_count, fsoc_count_ceil, gc_is_off, collector_counter,
           gc_info_nb, word, live, global, req, grey, alloc, disposed>>
  BY DEF BeginSweep, EnterChunk, chunkVars, ceilVars, gcVars, progVars, histVars
<1>2. Marking
  BY <1>1 DEF Marking
<1>3. /\ TypeOK /\ StoreOK /\ AllocOK /\ FreeChunksOK /\ DisposedOnce /\ ControlOK
      /\ Closed(alloc) /\ WeakClosed(alloc) /\ MarkingOK
  BY <1>2 DEF IInv, ClosedOK
<1>4. gc_free = [t \in Types |-> <<>>] /\ old_gc_free' = <<>>
  BY <1>1, <1>2, <1>3, NoFreeLists DEF ToSweep, TypeOK
<1>5. \A o \in Obj : ~Below(o, <<1, 1>>)
  <2>1. \A o \in Obj : o[1] \in Nat \ {0} /\ o[2] \in Nat \ {0}
    BY FsoAssumption DEF Obj, Chunk, Slot
  <2> QED
    BY <2>1 DEF Below
<1>6. TypeOK'
  <2>1. cur' \in (1..NChunks + 1) \X (1..Slots + 1)
    BY <1>1, FsoAssumption
  <2>2. old_gc_free' \in Seq(Obj)
    BY <1>4
  <2>3. pc' \in Pc
    BY <1>1 DEF Pc
  <2>4. dead' \in BOOLEAN
    BY <1>1
  <2> QED
    BY <1>1, <1>3, <2>1, <2>2, <2>3, <2>4 DEF TypeOK
<1>7. \A o : InUse(o)' <=> InUse(o)
  BY <1>1 DEF InUse
<1>8. StoreOK' /\ FreeChunksOK'
  BY <1>1, <1>3 DEF StoreOK, FreeChunksOK, Injective
<1>9. AllocOK' /\ DisposedOnce'
  BY <1>1, <1>3, <1>7 DEF AllocOK, DisposedOnce
<1>10. ControlOK' /\ ClosedOK' /\ MarkingOK'
  BY <1>1, <1>2, <1>3 DEF ControlOK, ClosedOK, MarkingOK, AtRest, Marking
<1>11. alloc \subseteq Obj
  BY <1>3 DEF TypeOK
<1>12. MarksOK'
  BY <1>1, <1>5, <1>11 DEF MarksOK
<1>13. DeadOK'
  <2>1. \A s \in Slot : ~(s < 1)
    BY FsoAssumption DEF Slot
  <2> QED
    BY <1>1, <2>1 DEF DeadOK
<1>14. FreeListsOK'
  BY <1>1, <1>4 DEF FreeListsOK, Injective
<1>15. SweepOK'
  <2>1. Survivors' = {o \in alloc : flag[o] = MARKED}
    BY <1>1, <1>5, <1>11 DEF Survivors
  <2> DEFINE M == {o \in alloc : flag[o] = MARKED}
  <2>2. \A w \in Words : live[w] => word[w] \in M \cup {Nil}
    BY <1>1, <1>2, <1>3 DEF Closed, MarkingOK
  <2>3. \A g \in Globals : global[g] \in M \cup {Nil}
    BY <1>2, <1>3 DEF Closed, MarkingOK
  <2>4. ASSUME NEW o \in M, NEW f \in Fields, type[o[1]] \notin WeakTypes
        PROVE  attr[o][f] \in M \cup {Nil}
    <3>1. attr[o][f] \in alloc \cup {Nil}
      BY <1>3, <2>4 DEF Closed
    <3>2. attr[o][f] # Nil => attr[o][f] \in Followed(o)
      BY <2>4 DEF Followed
    <3>3. \A x \in Followed(o) : flag[x] = MARKED
      BY <1>1, <1>2, <1>3 DEF MarkingOK
    <3> QED
      BY <3>1, <3>2, <3>3
  <2>5. Closed(Survivors)'
    BY <1>1, <2>1, <2>2, <2>3, <2>4 DEF Closed
  <2>6. \A o \in M, f \in Fields : attr[o][f] \in alloc \cup {Nil} /\ ~Below(o, cur')
    BY <1>1, <1>3, <1>5, <1>11 DEF WeakClosed
  <2> QED
    BY <1>1, <2>1, <2>5, <2>6 DEF SweepOK
<1> QED
  BY <1>6, <1>8, <1>9, <1>10, <1>12, <1>13, <1>14, <1>15 DEF IInv

\* Marks are left only for a sweep that follows marking.
LEMMA SweepMarkedInSweep ==
  ASSUME IInv, SweepMarked PROVE pc = "sweep" /\ cur \in alloc /\ cur \in Obj
<1>1. cur \in Obj
  <2>1. cur = <<cur[1], cur[2]>> /\ cur[1] \in Chunk /\ cur[2] \in Slot
    BY DEF SweepMarked, ToSweep, IInv, TypeOK
  <2> QED
    BY <2>1 DEF Obj
<1>2. cur \in alloc
  BY <1>1 DEF SweepMarked, IInv, AllocOK, MARKED, NEXT
<1>3. pc = "sweep"
  BY <1>2 DEF SweepMarked, Sweeping, IInv, MarksOK, Marking, MARKED, UNMARKED
<1> QED
  BY <1>1, <1>2, <1>3

\* gc_sweepXXX passes a marked object and repairs a weak reference.
LEMMA SweepMarkedIInv ==
  ASSUME IInv, SafeInstance, SweepMarked PROVE IInv'
<1> DEFINE fl == [flag EXCEPT ![cur] = UNMARKED]
<1>1. /\ pc = "sweep" /\ cur \in alloc /\ cur \in Obj /\ cur[1] \in Chunk /\ cur[2] \in Slot
      /\ flag[cur] = MARKED /\ InUse(cur)
  BY SweepMarkedInSweep DEF SweepMarked, ToSweep
<1>2. /\ flag' = fl
      /\ attr' = IF type[cur[1]] \in WeakTypes
                 THEN [attr EXCEPT ![cur] =
                         [f \in Fields |-> IF LostItem(attr[cur][f], cur, fl)
                                           THEN Nil ELSE attr[cur][f]]]
                 ELSE attr
      /\ dead' = FALSE
      /\ cur' = <<cur[1], cur[2] + 1>>
      /\ UNCHANGED <<state, type, store, store_left, store_chunk, gc_free, fsocfl,
           fsoc_count, fsoc_count_ceil, gc_is_off, collector_counter, gc_info_nb,
           word, live, global, pc, req, grey, old_gc_free, alloc, disposed>>
  BY DEF SweepMarked, chunkVars, ceilVars, gcVars, progVars, histVars
<1>3. /\ TypeOK /\ ControlOK /\ StoreOK /\ AllocOK /\ MarksOK /\ FreeListsOK
      /\ FreeChunksOK /\ SweepOK /\ DisposedOnce
  BY DEF IInv
<1>4. /\ flag' \in [Obj -> Flag] /\ flag'[cur] = UNMARKED
      /\ \A o \in Obj : o # cur => flag'[o] = flag[o]
      /\ \A o \in Obj : flag'[o] = NEXT <=> flag[o] = NEXT
  BY <1>1, <1>2, <1>3 DEF TypeOK, Flag, UNMARKED, MARKED, NEXT
<1>5. /\ attr' \in [Obj -> [Fields -> Ref]]
      /\ \A o \in Obj : o # cur \/ type[o[1]] \notin WeakTypes => attr'[o] = attr[o]
  <2>1. Nil \in Ref /\ attr \in [Obj -> [Fields -> Ref]]
    BY <1>3 DEF TypeOK, Ref
  <2> QED
    BY <1>1, <1>2, <2>1
<1>6. \A o \in Obj : Below(o, cur') <=> Below(o, cur) \/ o = cur
  BY <1>1, <1>2, Order
<1>7. alloc \subseteq Obj /\ ~Below(cur, cur)
  BY <1>1, <1>3, Order DEF TypeOK
<1>8. Survivors' = Survivors
  BY <1>1, <1>2, <1>4, <1>6, <1>7 DEF Survivors, UNMARKED, MARKED
<1>9. TypeOK'
  <2>1. cur' \in (1..NChunks + 1) \X (1..Slots + 1)
    BY <1>1, <1>2, FsoAssumption DEF Slot, Chunk
  <2> QED
    BY <1>2, <1>3, <1>4, <1>5, <2>1 DEF TypeOK
<1>10. \A o : InUse(o)' <=> InUse(o)
  BY <1>2 DEF InUse
<1>11. ControlOK' /\ StoreOK' /\ FreeChunksOK'
  BY <1>2, <1>3 DEF ControlOK, Marking, StoreOK, FreeChunksOK, Injective
<1>12. AllocOK' /\ DisposedOnce'
  BY <1>2, <1>3, <1>4, <1>10 DEF AllocOK, DisposedOnce
<1>13. MarksOK'
  BY <1>1, <1>2, <1>3, <1>4, <1>6, <1>7 DEF MarksOK, Marking
<1>14. ClosedOK' /\ MarkingOK' /\ DeadOK'
  BY <1>1, <1>2 DEF ClosedOK, MarkingOK, DeadOK, AtRest, Marking
<1>15. \A o \in Obj, t \in Types : FreeSlot(o, t)' <=> FreeSlot(o, t)
  BY <1>2, <1>4, <1>10 DEF FreeSlot
<1>16. FreeListsOK'
  <2>1. \A t \in Types : \A i \in DOMAIN gc_free[t] : gc_free[t][i] \in Obj
    BY <1>3 DEF TypeOK
  <2>2. \A i \in DOMAIN old_gc_free : old_gc_free[i] \in Obj
    BY <1>3 DEF TypeOK
  <2>3. \A t \in Types :
          /\ Injective(gc_free[t])
          /\ \A i \in DOMAIN gc_free[t] :
               FreeSlot(gc_free[t][i], t)' /\ Below(gc_free[t][i], cur')
    BY <1>1, <1>2, <1>3, <1>6, <1>15, <2>1 DEF FreeListsOK
  <2>4. cur'[1] = cur[1] /\ type[cur[1]] \in Types
    BY <1>1, <1>2, <1>3 DEF TypeOK
  <2>5. ToSweep(cur[1])' <=> ToSweep(cur[1])
    BY <1>2, <2>4 DEF ToSweep
  <2>6. ToSweep(cur[1]) =>
         /\ Injective(old_gc_free)
         /\ \A i \in DOMAIN old_gc_free :
              /\ FreeSlot(old_gc_free[i], type[cur[1]])'
              /\ old_gc_free[i][1] < cur'[1]
    <3>1. ToSweep(cur[1]) =>
         /\ Injective(old_gc_free)
         /\ \A i \in DOMAIN old_gc_free :
              /\ FreeSlot(old_gc_free[i], type[cur[1]])
              /\ old_gc_free[i][1] < cur[1]
      BY <1>1, <1>3 DEF FreeListsOK
    <3> QED
      BY <1>2, <1>15, <2>2, <2>4, <3>1 DEF FreeSlot
  <2>7. ~Marking'
    BY <1>1, <1>2 DEF Marking
  <2> QED
    BY <1>2, <2>3, <2>4, <2>5, <2>6, <2>7 DEF FreeListsOK
<1>17. SweepOK'
  <2>1. Closed(Survivors)'
    BY <1>1, <1>2, <1>3, <1>5, <1>7, <1>8 DEF SweepOK, Closed, Survivors
  <2>2. ASSUME NEW o \in Survivors, NEW f \in Fields, type[o[1]] \in WeakTypes,
               attr'[o][f] # Nil
        PROVE  IF Below(o, cur') THEN attr'[o][f] \in Survivors
               ELSE \/ attr'[o][f] \in alloc
                    \/ Below(attr'[o][f], cur') /\ flag'[attr'[o][f]] = NEXT
    <3>1. o \in Obj
      BY <1>7, <2>2 DEF Survivors
    <3>2. CASE o # cur
      <4> DEFINE i == attr[o][f]
      <4>1. attr'[o][f] = i /\ i \in Obj
        BY <1>3, <1>5, <2>2, <3>1, <3>2 DEF TypeOK, Ref
      <4>2. IF Below(o, cur) THEN i \in Survivors
            ELSE i \in alloc \/ (Below(i, cur) /\ flag[i] = NEXT)
        BY <1>1, <1>3, <2>2, <4>1 DEF SweepOK
      <4> QED
        BY <1>4, <1>6, <3>1, <3>2, <4>1, <4>2
    <3>3. CASE o = cur
      <4> DEFINE i == attr[cur][f]
      <4>1. attr'[cur][f] = IF LostItem(i, cur, fl) THEN Nil ELSE i
        BY <1>1, <1>2, <1>3, <2>2, <3>3 DEF TypeOK
      <4>2. ~LostItem(i, cur, fl) /\ i # Nil /\ attr'[o][f] = i /\ i \in Obj
        BY <1>1, <1>3, <2>2, <3>3, <4>1 DEF TypeOK, Ref
      <4>3. ~Monomorphic(type[cur[1]])
        BY <2>2, <3>3 DEF SafeInstance
      <4>4. ~Below(cur, i) <=> flag'[i] = UNMARKED
        BY <1>2, <4>2, <4>3 DEF LostItem, LostPolymorph, Swept
      <4>5. i \in alloc \/ (Below(i, cur) /\ flag[i] = NEXT)
        BY <1>1, <1>3, <1>7, <2>2, <3>3, <4>2 DEF SweepOK
      <4>6. CASE Below(i, cur) /\ flag[i] = NEXT
        <5>1. ~Below(cur, i) /\ flag'[i] = NEXT
          BY <1>1, <1>4, <4>2, <4>6, Order
        <5> QED
          BY <4>4, <5>1 DEF NEXT, UNMARKED
      <4>7. CASE i \in alloc
        <5>1. Below(i, cur) \/ i = cur \/ Below(cur, i)
          BY <1>1, <4>2, Order
        <5>2. ASSUME Below(cur, i) PROVE flag[i] = MARKED
          <6>1. i # cur /\ flag'[i] = flag[i] /\ flag[i] # UNMARKED
            BY <1>4, <1>7, <4>2, <4>4, <5>2
          <6> QED
            BY <1>3, <4>7, <6>1 DEF AllocOK, TypeOK, Flag
        <5>3. i \in Survivors
          BY <1>1, <4>7, <5>1, <5>2 DEF Survivors
        <5> QED
          BY <4>2, <4>7, <5>3
      <4> QED
        BY <4>5, <4>6, <4>7
    <3> QED
      BY <3>2, <3>3
  <2>3. \A o \in Survivors', f \in Fields :
          type'[o[1]] \in WeakTypes /\ attr'[o][f] # Nil =>
            IF Below(o, cur') THEN attr'[o][f] \in Survivors'
            ELSE \/ attr'[o][f] \in alloc'
                 \/ Below(attr'[o][f], cur') /\ flag'[attr'[o][f]] = NEXT
    <3>1. type' = type /\ alloc' = alloc
      BY <1>2
    <3> QED
      BY <1>8, <2>2, <3>1
  <2> QED
    BY <2>1, <2>3 DEF SweepOK
<1> QED
  BY <1>9, <1>11, <1>12, <1>13, <1>14, <1>16, <1>17 DEF IInv

\* gc_sweepXXX reclaims an unmarked slot, or passes a free one.
LEMMA SweepOtherIInv ==
  ASSUME IInv, SweepOther PROVE IInv'
<1> DEFINE T == type[cur[1]]
<1>1. /\ Sweeping /\ ToSweep(cur[1]) /\ cur[1] \in Chunk /\ cur[2] \in Slot
      /\ InUse(cur) /\ flag[cur] # MARKED
      /\ disposed' = IF flag[cur] = UNMARKED /\ T \in Disposables
                     THEN [disposed EXCEPT ![cur] = IF @ < 2 THEN @ + 1 ELSE 2]
                     ELSE disposed
      /\ alloc' = alloc \ {cur}
      /\ flag' = [flag EXCEPT ![cur] = NEXT]
      /\ attr' = [attr EXCEPT ![cur] = [f \in Fields |-> Nil]]
      /\ gc_free' = [gc_free EXCEPT ![T] = Push(@, cur)]
      /\ cur' = <<cur[1], cur[2] + 1>>
  BY DEF SweepOther, ToSweep, HoldsObject
<1>2. UNCHANGED <<state, type, store, store_left, store_chunk, fsocfl,
        fsoc_count, fsoc_count_ceil, gc_is_off, collector_counter, gc_info_nb,
        word, live, global, pc, req, grey, dead, old_gc_free>>
  BY DEF SweepOther, chunkVars, ceilVars, gcVars, progVars
<1>3. /\ TypeOK /\ ControlOK /\ StoreOK /\ AllocOK /\ MarksOK /\ FreeListsOK
      /\ FreeChunksOK /\ SweepOK /\ DisposedOnce /\ DeadOK
  BY DEF IInv
<1>4. pc \in {"sweep", "exit"} /\ ~Marking /\ ~AtRest
  BY <1>1 DEF Sweeping, Marking, AtRest
<1>5. cur \in Obj /\ T \in Types /\ cur = <<cur[1], cur[2]>>
  <2>1. cur = <<cur[1], cur[2]>>
    BY <1>3 DEF TypeOK
  <2> QED
    BY <1>1, <1>3, <2>1 DEF TypeOK, Obj
<1>6. /\ flag' \in [Obj -> Flag] /\ flag'[cur] = NEXT
      /\ \A o \in Obj : o # cur => flag'[o] = flag[o]
  BY <1>1, <1>3, <1>5 DEF TypeOK, Flag
<1>7. /\ attr' \in [Obj -> [Fields -> Ref]]
      /\ \A o \in Obj : o # cur => attr'[o] = attr[o]
  BY <1>1, <1>3, <1>5 DEF TypeOK, Ref
<1>8. \A o \in Obj : Below(o, cur') <=> Below(o, cur) \/ o = cur
  BY <1>1, <1>5, Order
<1>9. alloc \subseteq Obj /\ ~Below(cur, cur)
  BY <1>3, <1>5, Order DEF TypeOK
<1>10. /\ disposed' \in [Obj -> 0..2]
       /\ \A o \in Obj : o # cur => disposed'[o] = disposed[o]
  <2>1. disposed \in [Obj -> 0..2]
    BY <1>3 DEF TypeOK
  <2>2. (IF disposed[cur] < 2 THEN disposed[cur] + 1 ELSE 2) \in 0..2
    BY <1>5, <2>1
  <2>3. disposed' = disposed \/ disposed' = [disposed EXCEPT ![cur] = IF disposed[cur] < 2 THEN disposed[cur] + 1 ELSE 2]
    BY <1>1
  <2> QED
    BY <1>5, <2>1, <2>2, <2>3
<1>11. cur \in alloc <=> flag[cur] = UNMARKED
  BY <1>1, <1>3, <1>5 DEF AllocOK, TypeOK, Flag, UNMARKED, NEXT
<1>12. T \in Disposables => disposed'[cur] = 1
  <2>1. ASSUME T \in Disposables PROVE disposed[cur] = IF cur \in alloc THEN 0 ELSE 1
    BY <1>1, <1>3, <1>5, <2>1 DEF DisposedOnce
  <2>2. disposed \in [Obj -> 0..2]
    BY <1>3 DEF TypeOK
  <2> QED
    BY <1>1, <1>5, <1>11, <2>1, <2>2
<1>13. gc_free' \in [Types -> Seq(Obj)]
  <2>1. gc_free \in [Types -> Seq(Obj)] /\ Push(gc_free[T], cur) \in Seq(Obj)
    BY <1>3, <1>5 DEF TypeOK, Push
  <2> QED
    BY <1>1, <1>5, <2>1
<1>14. TypeOK'
  <2>1. cur' \in (1..NChunks + 1) \X (1..Slots + 1)
    BY <1>1, FsoAssumption DEF Slot, Chunk
  <2>2. alloc' \in SUBSET Obj
    BY <1>1, <1>9
  <2> QED
    BY <1>2, <1>3, <1>6, <1>7, <1>10, <1>13, <2>1, <2>2 DEF TypeOK
<1>15. \A o : InUse(o)' <=> InUse(o)
  BY <1>2 DEF InUse
<1>16. ControlOK' /\ StoreOK' /\ FreeChunksOK'
  BY <1>2, <1>3 DEF ControlOK, Marking, StoreOK, FreeChunksOK, Injective
<1>17. AllocOK'
  BY <1>1, <1>3, <1>6, <1>15 DEF AllocOK
<1>18. DisposedOnce'
  BY <1>1, <1>2, <1>3, <1>10, <1>12, <1>15 DEF DisposedOnce
<1>19. MarksOK'
  BY <1>1, <1>2, <1>3, <1>4, <1>6, <1>8, <1>9 DEF MarksOK, Marking
<1>20. ClosedOK' /\ MarkingOK'
  BY <1>2, <1>4 DEF ClosedOK, MarkingOK, AtRest, Marking
<1>21. DeadOK'
  <2>1. \A s \in Slot : s < cur[2] + 1 => s < cur[2] \/ s = cur[2]
    BY <1>1, FsoAssumption DEF Slot
  <2>2. cur'[1] = cur[1] /\ cur'[2] = cur[2] + 1
    BY <1>1
  <2>3. \A s \in Slot : <<cur[1], s>> \in Obj
    BY <1>1 DEF Obj
  <2>4. dead => \A s \in Slot : s < cur[2] => flag[<<cur[1], s>>] = NEXT
    BY <1>1, <1>3 DEF DeadOK
  <2>5. dead => \A s \in Slot : s < cur[2] + 1 => flag'[<<cur[1], s>>] = NEXT
    BY <1>5, <1>6, <2>1, <2>3, <2>4
  <2> QED
    BY <1>2, <2>2, <2>5 DEF DeadOK
<1>22. \A o \in Obj, t \in Types :
         FreeSlot(o, t) \/ (o = cur /\ t = T) => FreeSlot(o, t)'
  <2>1. \A o \in Obj, t \in Types : FreeSlot(o, t) => FreeSlot(o, t)'
    BY <1>2, <1>6, <1>15 DEF FreeSlot
  <2>2. \A o \in Obj, t \in Types : o = cur /\ t = T => FreeSlot(o, t)'
    BY <1>1, <1>2, <1>6, <1>15 DEF FreeSlot
  <2> QED
    BY <2>1, <2>2
<1>23. ASSUME pc = "sweep" PROVE FreeListsOK'
  <2>1. ASSUME NEW t \in Types
        PROVE  /\ Injective(gc_free[t])
               /\ \A i \in DOMAIN gc_free[t] :
                    /\ gc_free[t][i] \in Obj /\ FreeSlot(gc_free[t][i], t)
                    /\ Below(gc_free[t][i], cur) /\ gc_free[t][i] # cur
    BY <1>3, <1>9, <1>23 DEF FreeListsOK, TypeOK
  <2>2. ASSUME NEW t \in Types
        PROVE  /\ Injective(gc_free'[t])
               /\ \A i \in DOMAIN gc_free'[t] :
                    FreeSlot(gc_free[t][i], t)' /\ Below(gc_free'[t][i], cur')
    <3>1. CASE t # T
      <4>1. gc_free'[t] = gc_free[t]
        BY <1>1, <1>3, <3>1 DEF TypeOK
      <4> QED
        BY <1>8, <1>22, <2>1, <4>1
    <3>2. CASE t = T
      <4> DEFINE s == gc_free[T]
      <4>1. gc_free'[t] = Push(s, cur) /\ s \in Seq(Obj)
        BY <1>1, <1>3, <1>5, <3>2 DEF TypeOK
      <4>2. Injective(s) /\ \A i \in DOMAIN s : s[i] # cur
        BY <1>5, <2>1
      <4> HIDE DEF s
      <4>3. /\ Injective(Push(s, cur))
            /\ \A i \in DOMAIN Push(s, cur) :
                 Push(s, cur)[i] = cur \/ (i \in DOMAIN s /\ Push(s, cur)[i] = s[i])
        BY <1>5, <4>1, <4>2, PushFacts
      <4>4. ASSUME NEW i \in DOMAIN gc_free'[t]
            PROVE  FreeSlot(gc_free[t][i], t)' /\ Below(gc_free'[t][i], cur')
        <5>1. /\ gc_free'[t][i] \in Obj
              /\ \/ gc_free'[t][i] = cur
                 \/ FreeSlot(gc_free'[t][i], t) /\ Below(gc_free'[t][i], cur)
          <6>1. CASE gc_free'[t][i] = cur
            BY <1>5, <6>1
          <6>2. CASE i \in DOMAIN s /\ gc_free'[t][i] = s[i]
            BY <2>1, <3>2, <6>2 DEF s
          <6> QED
            BY <4>1, <4>3, <4>4, <6>1, <6>2
        <5> QED
          BY <1>8, <1>22, <3>2, <5>1
      <4> QED
        BY <4>1, <4>3, <4>4
    <3> QED
      BY <3>1, <3>2
  <2>3. cur'[1] = cur[1] /\ ToSweep(cur[1])'
    BY <1>1, <1>2 DEF ToSweep
  <2>4. /\ Injective(old_gc_free)
        /\ \A i \in DOMAIN old_gc_free :
             /\ FreeSlot(old_gc_free[i], T) /\ old_gc_free[i] \in Obj
             /\ old_gc_free[i][1] < cur[1]
    BY <1>1, <1>3, <1>23 DEF FreeListsOK, TypeOK
  <2>5. \A i \in DOMAIN old_gc_free : FreeSlot(old_gc_free[i], type[cur[1]])'
    BY <1>2, <1>5, <1>6, <1>15, <2>3, <2>4 DEF FreeSlot
  <2>6. ~Marking'
    BY <1>2, <1>4 DEF Marking
  <2> QED
    BY <1>2, <2>2, <2>3, <2>4, <2>5, <2>6 DEF FreeListsOK
<1>24. ASSUME pc = "sweep" PROVE SweepOK'
  <2>1. cur \notin Survivors /\ Survivors \subseteq Obj
    BY <1>1, <1>9 DEF Survivors
  <2>2. Survivors' = Survivors
    BY <1>1, <1>6, <1>8, <1>9 DEF Survivors, NEXT, MARKED
  <2>3. Closed(Survivors)'
    <3>1. Closed(Survivors)
      BY <1>3, <1>24 DEF SweepOK
    <3>2. \A o \in Survivors : attr'[o] = attr[o]
      BY <1>7, <2>1
    <3> QED
      BY <1>2, <2>2, <3>1, <3>2 DEF Closed
  <2>4. ASSUME NEW o \in Survivors, NEW f \in Fields, type[o[1]] \in WeakTypes,
               attr'[o][f] # Nil
        PROVE  IF Below(o, cur') THEN attr'[o][f] \in Survivors
               ELSE \/ attr'[o][f] \in alloc'
                    \/ Below(attr'[o][f], cur') /\ flag'[attr'[o][f]] = NEXT
    <3> DEFINE i == attr[o][f]
    <3>1. attr'[o][f] = i /\ o \in Obj /\ o # cur
      BY <1>7, <2>1, <2>4
    <3>2. i \in Obj
      BY <1>3, <2>4, <3>1 DEF TypeOK, Ref
    <3>3. IF Below(o, cur) THEN i \in Survivors
          ELSE i \in alloc \/ (Below(i, cur) /\ flag[i] = NEXT)
      BY <1>3, <1>24, <2>4, <3>1 DEF SweepOK
    <3> QED
      BY <1>1, <1>6, <1>8, <3>1, <3>2, <3>3
  <2>5. \A o \in Survivors', f \in Fields :
          type'[o[1]] \in WeakTypes /\ attr'[o][f] # Nil =>
            IF Below(o, cur') THEN attr'[o][f] \in Survivors'
            ELSE \/ attr'[o][f] \in alloc'
                 \/ Below(attr'[o][f], cur') /\ flag'[attr'[o][f]] = NEXT
    BY <1>2, <2>2, <2>4
  <2> QED
    BY <2>3, <2>5 DEF SweepOK
<1>25. FreeListsOK' /\ SweepOK'
  <2>1. CASE pc = "sweep"
    BY <1>23, <1>24, <2>1
  <2>2. CASE pc = "exit"
    BY <1>2, <2>2 DEF FreeListsOK, SweepOK
  <2> QED
    BY <1>4, <2>1, <2>2
<1> QED
  BY <1>14, <1>16, <1>17, <1>18, <1>19, <1>20, <1>21, <1>25 DEF IInv

\* Moving on to the next chunk, when every slot in use of this one was visited.
LEMMA NextChunkFacts ==
  ASSUME IInv, Sweeping, cur[1] \in Chunk, cur' = <<cur[1] + 1, 1>>, dead' = TRUE,
         \A o \in Obj : InUse(o) => (Below(o, cur') <=> Below(o, cur)),
         \A o \in Obj : Below(o, cur) => Below(o, cur'),
         UNCHANGED <<type, store, store_left, store_chunk, flag, attr, fsoc_count,
           fsoc_count_ceil, gc_is_off, collector_counter, gc_info_nb,
           word, live, global, pc, req, grey, alloc, disposed>>
  PROVE  /\ ControlOK' /\ ClosedOK' /\ MarkingOK' /\ MarksOK' /\ SweepOK' /\ DeadOK'
         /\ cur' \in (1..NChunks + 1) \X (1..Slots + 1)
<1>1. TypeOK /\ ControlOK /\ AllocOK /\ MarksOK /\ SweepOK
  BY DEF IInv
<1>2. pc \in {"sweep", "exit"} /\ ~Marking /\ ~AtRest
  BY DEF Sweeping, Marking, AtRest
<1>3. alloc \subseteq Obj /\ \A o \in alloc : Below(o, cur') <=> Below(o, cur)
  BY <1>1 DEF AllocOK
<1>4. ControlOK' /\ ClosedOK' /\ MarkingOK'
  BY <1>1, <1>2 DEF ControlOK, ClosedOK, MarkingOK, Marking, AtRest
<1>5. MarksOK'
  BY <1>1, <1>2, <1>3 DEF MarksOK, Marking
<1>6. cur' \in (1..NChunks + 1) \X (1..Slots + 1)
  BY FsoAssumption DEF Chunk
<1>7. DeadOK'
  <2>1. \A s \in Slot : ~(s < 1)
    BY FsoAssumption DEF Slot
  <2> QED
    BY <2>1 DEF DeadOK
<1>8. ASSUME pc = "sweep" PROVE SweepOK'
  <2>1. Survivors' = Survivors
    BY <1>3 DEF Survivors
  <2>2. Closed(Survivors)'
    BY <1>1, <1>8, <2>1 DEF SweepOK, Closed
  <2>3. ASSUME NEW o \in Survivors, NEW f \in Fields, type[o[1]] \in WeakTypes,
               attr[o][f] # Nil
        PROVE  IF Below(o, cur') THEN attr[o][f] \in Survivors
               ELSE \/ attr[o][f] \in alloc
                    \/ Below(attr[o][f], cur') /\ flag[attr[o][f]] = NEXT
    <3>1. o \in alloc /\ attr[o][f] \in Obj
      BY <1>1, <1>3, <2>3 DEF Survivors, TypeOK, Ref
    <3>2. IF Below(o, cur) THEN attr[o][f] \in Survivors
          ELSE \/ attr[o][f] \in alloc
               \/ Below(attr[o][f], cur) /\ flag[attr[o][f]] = NEXT
      BY <1>1, <1>8, <2>3 DEF SweepOK
    <3> QED
      BY <1>3, <3>1, <3>2
  <2>4. \A o \in Survivors', f \in Fields :
          type'[o[1]] \in WeakTypes /\ attr'[o][f] # Nil =>
            IF Below(o, cur') THEN attr'[o][f] \in Survivors'
            ELSE \/ attr'[o][f] \in alloc'
                 \/ Below(attr'[o][f], cur') /\ flag'[attr'[o][f]] = NEXT
    BY <2>1, <2>3
  <2> QED
    BY <2>2, <2>4 DEF SweepOK
<1>9. SweepOK'
  <2>1. CASE pc = "exit"
    BY <2>1 DEF SweepOK
  <2> QED
    BY <1>2, <1>8, <2>1
<1> QED
  BY <1>4, <1>5, <1>6, <1>7, <1>9

\* The slots of a chunk lie below the first of the next one.
LEMMA ChunkOrder ==
  ASSUME TypeOK, cur[1] \in Chunk
  PROVE  /\ cur[1] \in Int /\ cur[2] \in Int /\ Slots \in Int
         /\ cur = <<cur[1], cur[2]>>
         /\ \A o \in Obj : /\ o = <<o[1], o[2]>> /\ o[1] \in Chunk
                           /\ o[1] \in Int /\ o[2] \in 1..Slots
         /\ \A o \in Obj : Below(o, <<cur[1] + 1, 1>>) <=> o[1] <= cur[1]
         /\ \A o \in Obj : Below(o, cur) => Below(o, <<cur[1] + 1, 1>>)
         /\ \A o \in Obj : o[1] # cur[1] => (Below(o, <<cur[1] + 1, 1>>) <=> Below(o, cur))
         /\ \A o \in Obj : Below(o, cur) => o[1] < cur[1] + 1
<1>1. Slots \in Int /\ NChunks \in Int
  BY FsoAssumption
<1>2. cur[1] \in Int /\ cur[2] \in Int /\ cur = <<cur[1], cur[2]>>
  BY <1>1 DEF TypeOK
<1>3. \A o \in Obj : /\ o = <<o[1], o[2]>> /\ o[1] \in Chunk
                     /\ o[1] \in Int /\ o[2] \in 1..Slots
  <2> SUFFICES ASSUME NEW o \in Obj
               PROVE  /\ o = <<o[1], o[2]>> /\ o[1] \in Chunk
                      /\ o[1] \in Int /\ o[2] \in 1..Slots
    OBVIOUS
  <2> QED
    BY <1>1 DEF Obj, Chunk, Slot
<1>4. \A o \in Obj : Below(o, <<cur[1] + 1, 1>>) <=> o[1] <= cur[1]
  <2> SUFFICES ASSUME NEW o \in Obj
               PROVE  Below(o, <<cur[1] + 1, 1>>) <=> o[1] <= cur[1]
    OBVIOUS
  <2>1. o[1] \in Int /\ o[2] \in Int /\ o[2] >= 1
    BY <1>1, <1>3
  <2> QED
    BY <1>2, <2>1 DEF Below
<1>5. \A o \in Obj : /\ Below(o, cur) => o[1] <= cur[1] /\ o[1] < cur[1] + 1
                     /\ o[1] # cur[1] => (o[1] <= cur[1] <=> Below(o, cur))
  <2> SUFFICES ASSUME NEW o \in Obj
               PROVE  /\ Below(o, cur) => o[1] <= cur[1] /\ o[1] < cur[1] + 1
                      /\ o[1] # cur[1] => (o[1] <= cur[1] <=> Below(o, cur))
    OBVIOUS
  <2>1. o[1] \in Int
    BY <1>3
  <2> QED
    BY <1>2, <2>1 DEF Below
<1> QED
  BY <1>1, <1>2, <1>3, <1>4, <1>5

\* gc_sweepXXX gives a used chunk without survivors back to fsocfl.
LEMMA SweptDeadIInv ==
  ASSUME IInv, SweptDead PROVE IInv'
<1> DEFINE c == cur[1]
<1> DEFINE T == type[c]
<1>1. /\ Sweeping /\ ToSweep(c) /\ c \in Chunk /\ AllSwept /\ state[c] = "used" /\ dead
      /\ gc_free' = [gc_free EXCEPT ![T] = old_gc_free]
      /\ fsocfl' = Push(fsocfl, c)
      /\ state' = [state EXCEPT ![c] = "free"]
      /\ alloc' = {o \in alloc : o[1] # c}
      /\ cur' = <<c + 1, 1>> /\ dead' = TRUE
      /\ old_gc_free' = IF ToSweep(c + 1) THEN gc_free'[type[c + 1]] ELSE <<>>
  BY DEF SweptDead, FreeListRestored, ToSweep, ChunkIsDead, EnterChunk
<1>2. UNCHANGED <<type, store, store_left, store_chunk, flag, attr,
        fsoc_count, fsoc_count_ceil, gc_is_off, collector_counter, gc_info_nb,
        word, live, global, pc, req, grey, disposed>>
  BY DEF SweptDead, FreeListRestored, ceilVars, gcVars, progVars
<1>3. /\ TypeOK /\ StoreOK /\ AllocOK /\ FreeListsOK /\ FreeChunksOK
      /\ DisposedOnce /\ DeadOK
  BY DEF IInv
<1>4. /\ c \in Int /\ cur[2] \in Int /\ Slots \in Int /\ cur = <<c, cur[2]>>
      /\ \A o \in Obj : /\ o = <<o[1], o[2]>> /\ o[1] \in Chunk
                        /\ o[1] \in Int /\ o[2] \in 1..Slots
      /\ \A o \in Obj : Below(o, <<c + 1, 1>>) <=> o[1] <= c
      /\ \A o \in Obj : Below(o, cur) => Below(o, <<c + 1, 1>>)
      /\ \A o \in Obj : o[1] # c => (Below(o, <<c + 1, 1>>) <=> Below(o, cur))
      /\ \A o \in Obj : Below(o, cur) => o[1] < c + 1
  BY <1>1, <1>3, ChunkOrder
<1>5. T \in Types
  BY <1>1, <1>3 DEF TypeOK
<1>6. cur[2] = Slots + 1
  BY <1>1 DEF AllSwept, InUse
<1>7. \A o \in Obj : o[1] = c => flag[o] = NEXT /\ Below(o, cur)
  <2> SUFFICES ASSUME NEW o \in Obj, o[1] = c PROVE flag[o] = NEXT /\ Below(o, cur)
    OBVIOUS
  <2>1. o = <<c, o[2]>> /\ o[2] \in 1..Slots /\ o[2] \in Slot /\ o[2] < cur[2]
    BY <1>4, <1>6 DEF Slot
  <2>2. flag[<<c, o[2]>>] = NEXT
    BY <1>1, <1>3, <2>1 DEF DeadOK
  <2> QED
    BY <2>1, <2>2 DEF Below
<1>8. alloc' = alloc
  BY <1>1, <1>3, <1>7 DEF AllocOK
<1>9. /\ state' \in [Chunk -> {"none", "store", "used", "free"}]
      /\ state'[c] = "free" /\ \A d \in Chunk : d # c => state'[d] = state[d]
  BY <1>1, <1>3 DEF TypeOK
<1>10. \A o \in Obj : /\ o[1] # c => (InUse(o)' <=> InUse(o))
                      /\ o[1] = c => ~InUse(o)' /\ InUse(o)
  <2>1. \A o \in Obj : o[1] # c => (InUse(o)' <=> InUse(o))
    BY <1>2, <1>4, <1>9 DEF InUse
  <2>2. \A o \in Obj : o[1] = c => ~InUse(o)' /\ InUse(o)
    BY <1>1, <1>9 DEF InUse
  <2> QED
    BY <2>1, <2>2
<1>11. /\ ControlOK' /\ ClosedOK' /\ MarkingOK' /\ MarksOK' /\ SweepOK' /\ DeadOK'
       /\ cur' \in (1..NChunks + 1) \X (1..Slots + 1)
  <2>1. \A o \in Obj : InUse(o) => (Below(o, cur') <=> Below(o, cur))
    BY <1>1, <1>4, <1>7
  <2>2. \A o \in Obj : Below(o, cur) => Below(o, cur')
    BY <1>1, <1>4
  <2> QED
    BY <1>1, <1>2, <1>8, <2>1, <2>2, NextChunkFacts
<1>12. AllocOK'
  BY <1>2, <1>3, <1>7, <1>8, <1>10 DEF AllocOK
<1>13. DisposedOnce'
  <2>1. \A o \in Obj : InUse(o)' \/ state'[o[1]] = "free" => InUse(o) \/ state[o[1]] = "free"
    BY <1>4, <1>9, <1>10
  <2> QED
    BY <1>2, <1>3, <1>8, <2>1 DEF DisposedOnce
<1>14. StoreOK'
  <2>1. \A d \in Chunk : state'[d] = "store" => state[d] = "store"
    BY <1>9
  <2>2. \A t \in Types : store_left[t] > 0 =>
          store_chunk[t] \in Chunk /\ state'[store_chunk[t]] = "store" /\ type[store_chunk[t]] = t
    BY <1>1, <1>3, <1>9 DEF StoreOK
  <2> QED
    BY <1>2, <1>3, <2>1, <2>2 DEF StoreOK
<1>15. FreeChunksOK' /\ fsocfl' \in Seq(Chunk)
  <2>1. fsocfl \in Seq(Chunk) /\ Injective(fsocfl)
    BY <1>3 DEF TypeOK, FreeChunksOK
  <2>2. \A i \in DOMAIN fsocfl : fsocfl[i] \in Chunk /\ state[fsocfl[i]] = "free" /\ fsocfl[i] # c
    BY <1>1, <1>3 DEF TypeOK, FreeChunksOK
  <2> HIDE DEF c
  <2>3. /\ Push(fsocfl, c) \in Seq(Chunk) /\ Injective(Push(fsocfl, c))
        /\ \A i \in DOMAIN Push(fsocfl, c) :
             Push(fsocfl, c)[i] = c \/ (i \in DOMAIN fsocfl /\ Push(fsocfl, c)[i] = fsocfl[i])
    BY <1>1, <2>1, <2>2, PushFacts
  <2>4. \A i \in DOMAIN fsocfl' : state'[fsocfl'[i]] = "free"
    BY <1>1, <1>9, <2>2, <2>3
  <2> QED
    BY <1>1, <2>3, <2>4 DEF FreeChunksOK
<1>16. gc_free' \in [Types -> Seq(Obj)] /\ old_gc_free' \in Seq(Obj)
  <2>1. gc_free' \in [Types -> Seq(Obj)]
    BY <1>1, <1>3 DEF TypeOK
  <2>2. ToSweep(c + 1) => type[c + 1] \in Types
    BY <1>3 DEF TypeOK, ToSweep
  <2> QED
    BY <1>1, <2>1, <2>2
<1>17. TypeOK'
  <2>1. alloc' \in SUBSET Obj
    BY <1>3, <1>8 DEF TypeOK
  <2>2. dead' \in BOOLEAN
    BY <1>1
  <2> QED
    BY <1>2, <1>3, <1>9, <1>11, <1>15, <1>16, <2>1, <2>2 DEF TypeOK
<1>18. ASSUME pc = "sweep" PROVE FreeListsOK'
  <2>1. \A o \in Obj, t \in Types : FreeSlot(o, t) /\ o[1] # c => FreeSlot(o, t)'
    BY <1>2, <1>10 DEF FreeSlot
  <2>2. ASSUME NEW t \in Types
        PROVE  /\ Injective(gc_free'[t])
               /\ \A i \in DOMAIN gc_free'[t] :
                    /\ gc_free'[t][i] \in Obj /\ FreeSlot(gc_free'[t][i], t)
                    /\ gc_free'[t][i][1] # c
                    /\ Below(gc_free'[t][i], cur') /\ gc_free'[t][i][1] < c + 1
    <3>1. CASE t = T
      <4>1. gc_free'[t] = old_gc_free
        BY <1>1, <1>3, <3>1 DEF TypeOK
      <4>2. /\ Injective(old_gc_free)
            /\ \A i \in DOMAIN old_gc_free :
                 FreeSlot(old_gc_free[i], t) /\ old_gc_free[i][1] < c /\ old_gc_free[i] \in Obj
        BY <1>1, <1>3, <1>18, <3>1 DEF FreeListsOK, TypeOK
      <4>3. \A o \in Obj : o[1] < c => o[1] # c /\ o[1] <= c /\ o[1] < c + 1
        BY <1>4
      <4> QED
        BY <1>1, <1>4, <4>1, <4>2, <4>3
    <3>2. CASE t # T
      <4>1. gc_free'[t] = gc_free[t]
        BY <1>1, <1>3, <3>2 DEF TypeOK
      <4>2. /\ Injective(gc_free[t])
            /\ \A i \in DOMAIN gc_free[t] :
                 /\ FreeSlot(gc_free[t][i], t) /\ gc_free[t][i] \in Obj
                 /\ Below(gc_free[t][i], cur)
        BY <1>3, <1>18 DEF FreeListsOK, TypeOK
      <4>3. \A i \in DOMAIN gc_free[t] : gc_free[t][i][1] # c
        BY <3>2, <4>2 DEF FreeSlot
      <4> QED
        BY <1>1, <1>4, <4>1, <4>2, <4>3
    <3> QED
      BY <3>1, <3>2
  <2>3. \A t \in Types : \A i \in DOMAIN gc_free'[t] : FreeSlot(gc_free[t][i], t)'
    BY <2>1, <2>2
  <2>4. ASSUME ToSweep(cur[1])'
        PROVE  /\ Injective(old_gc_free')
               /\ \A i \in DOMAIN old_gc_free' :
                    FreeSlot(old_gc_free[i], type[cur[1]])' /\ old_gc_free'[i][1] < cur'[1]
    <3>1. cur'[1] = c + 1 /\ c + 1 \in Chunk /\ c + 1 # c
      BY <1>1, <1>4, <2>4 DEF ToSweep
    <3>2. ToSweep(c + 1)
      BY <1>9, <2>4, <3>1 DEF ToSweep
    <3>3. PICK u \in Types : u = type[c + 1]
      BY <1>3, <3>1 DEF TypeOK
    <3>4. old_gc_free' = gc_free'[u] /\ type'[cur'[1]] = u
      BY <1>1, <1>2, <3>1, <3>2, <3>3
    <3>5. Injective(old_gc_free') /\ \A i \in DOMAIN old_gc_free' : old_gc_free'[i][1] < cur'[1]
      BY <2>2, <3>1, <3>4
    <3>6. ASSUME NEW i \in DOMAIN old_gc_free' PROVE FreeSlot(old_gc_free[i], u)'
      BY <2>1, <2>2, <3>4
    <3> QED
      BY <3>4, <3>5, <3>6 DEF FreeSlot
  <2>5. ~Marking'
    BY <1>2, <1>18 DEF Marking
  <2> QED
    BY <2>2, <2>3, <2>4, <2>5 DEF FreeListsOK
<1>19. FreeListsOK'
  <2>1. CASE pc = "exit"
    BY <1>2, <2>1 DEF FreeListsOK
  <2> QED
    BY <1>1, <1>18, <2>1 DEF Sweeping
<1> QED
  BY <1>11, <1>12, <1>13, <1>14, <1>15, <1>17, <1>19 DEF IInv

\* gc_sweepXXX leaves any other chunk to its type.
LEMMA SweptOtherIInv ==
  ASSUME IInv, SafeInstance, SweptOther PROVE IInv'
<1> DEFINE c == cur[1]
<1>1. /\ Sweeping /\ c \in Chunk /\ (ToSweep(c) => AllSwept)
      /\ cur' = <<c + 1, 1>> /\ dead' = TRUE
      /\ old_gc_free' = IF ToSweep(c + 1) THEN gc_free[type[c + 1]] ELSE <<>>
  BY DEF SweptOther, EnterChunk
<1>2. UNCHANGED <<state, type, store, store_left, store_chunk, flag, attr, gc_free, fsocfl,
        fsoc_count, fsoc_count_ceil, gc_is_off, collector_counter, gc_info_nb,
        word, live, global, pc, req, grey, alloc, disposed>>
  BY DEF SweptOther, chunkVars, ceilVars, gcVars, progVars, histVars
<1>3. TypeOK /\ StoreOK /\ AllocOK /\ FreeListsOK /\ FreeChunksOK /\ DisposedOnce
  BY DEF IInv
<1>4. /\ c \in Int /\ cur[2] \in Int /\ Slots \in Int /\ cur = <<c, cur[2]>>
      /\ \A o \in Obj : /\ o = <<o[1], o[2]>> /\ o[1] \in Chunk
                        /\ o[1] \in Int /\ o[2] \in 1..Slots
      /\ \A o \in Obj : Below(o, <<c + 1, 1>>) <=> o[1] <= c
      /\ \A o \in Obj : Below(o, cur) => Below(o, <<c + 1, 1>>)
      /\ \A o \in Obj : o[1] # c => (Below(o, <<c + 1, 1>>) <=> Below(o, cur))
      /\ \A o \in Obj : Below(o, cur) => o[1] < c + 1
  BY <1>1, <1>3, ChunkOrder
<1>5. ASSUME NEW o \in Obj, InUse(o), o[1] = c PROVE Below(o, cur)
  <2>1. o = <<c, o[2]>> /\ o[2] \in Int /\ o[2] <= Slots
    BY <1>4, <1>5
  <2>2. AllSwept
    BY <1>1, <1>5 DEF ToSweep, InUse
  <2>3. CASE cur[2] = Slots + 1
    BY <1>4, <2>1, <2>3 DEF Below
  <2>4. CASE ~InUse(cur)
    <3>1. state[c] = "store"
      BY <1>5, <2>4 DEF InUse
    <3>2. PICK k \in Int : store[type[c]] = <<c, k>>
      <4>1. /\ store_left[type[c]] \in 1..Slots - 1
            /\ store[type[c]] = <<c, Slots + 1 - store_left[type[c]]>>
        BY <1>1, <1>3, <3>1 DEF StoreOK
      <4>2. Slots + 1 - store_left[type[c]] \in Int
        BY <1>4, <4>1
      <4> QED
        BY <4>1, <4>2
    <3>3. Below(o, <<c, k>>) /\ ~Below(cur, <<c, k>>)
      BY <1>5, <2>4, <3>1, <3>2 DEF InUse
    <3>4. o[2] < k /\ ~(cur[2] < k)
      BY <1>4, <2>1, <3>3 DEF Below
    <3> QED
      BY <1>4, <2>1, <3>4 DEF Below
  <2> QED
    BY <2>2, <2>3, <2>4 DEF AllSwept
<1>6. /\ ControlOK' /\ ClosedOK' /\ MarkingOK' /\ MarksOK' /\ SweepOK' /\ DeadOK'
      /\ cur' \in (1..NChunks + 1) \X (1..Slots + 1)
  <2>1. \A o \in Obj : InUse(o) => (Below(o, cur') <=> Below(o, cur))
    BY <1>1, <1>4, <1>5
  <2>2. \A o \in Obj : Below(o, cur) => Below(o, cur')
    BY <1>1, <1>4
  <2> QED
    BY <1>1, <1>2, <2>1, <2>2, NextChunkFacts
<1>7. \A o : InUse(o)' <=> InUse(o)
  BY <1>2 DEF InUse
<1>8. AllocOK' /\ DisposedOnce'
  BY <1>2, <1>3, <1>7 DEF AllocOK, DisposedOnce
<1>9. StoreOK' /\ FreeChunksOK'
  BY <1>2, <1>3 DEF StoreOK, FreeChunksOK, Injective
<1>10. old_gc_free' \in Seq(Obj)
  BY <1>1, <1>3 DEF TypeOK, ToSweep
<1>11. TypeOK'
  <2>1. dead' \in BOOLEAN
    BY <1>1
  <2> QED
    BY <1>2, <1>3, <1>6, <1>10, <2>1 DEF TypeOK
<1>12. ASSUME pc = "sweep" PROVE FreeListsOK'
  <2>1. \A o \in Obj, t \in Types : FreeSlot(o, t) => FreeSlot(o, t)'
    BY <1>2, <1>7 DEF FreeSlot
  <2>2. ASSUME NEW t \in Types
        PROVE  /\ Injective(gc_free[t])
               /\ \A i \in DOMAIN gc_free[t] :
                    /\ gc_free[t][i] \in Obj /\ FreeSlot(gc_free[t][i], t)
                    /\ Below(gc_free[t][i], cur') /\ gc_free[t][i][1] < c + 1
    <3>1. /\ Injective(gc_free[t])
          /\ \A i \in DOMAIN gc_free[t] :
               /\ FreeSlot(gc_free[t][i], t) /\ gc_free[t][i] \in Obj
               /\ Below(gc_free[t][i], cur)
      BY <1>3, <1>12 DEF FreeListsOK, TypeOK
    <3> QED
      BY <1>1, <1>4, <3>1
  <2>3. \A t \in Types : \A i \in DOMAIN gc_free'[t] : FreeSlot(gc_free[t][i], t)'
    BY <1>2, <2>1, <2>2
  <2>4. ASSUME ToSweep(cur[1])'
        PROVE  /\ Injective(old_gc_free')
               /\ \A i \in DOMAIN old_gc_free' :
                    FreeSlot(old_gc_free[i], type[cur[1]])' /\ old_gc_free'[i][1] < cur'[1]
    <3>1. cur'[1] = c + 1 /\ c + 1 \in Chunk
      BY <1>1, <1>4, <2>4 DEF ToSweep
    <3>2. ToSweep(c + 1)
      BY <1>2, <2>4, <3>1 DEF ToSweep
    <3>3. PICK u \in Types : u = type[c + 1]
      BY <1>3, <3>1 DEF TypeOK
    <3>4. old_gc_free' = gc_free[u] /\ type'[cur'[1]] = u
      BY <1>1, <1>2, <3>1, <3>2, <3>3
    <3>5. Injective(old_gc_free') /\ \A i \in DOMAIN old_gc_free' : old_gc_free'[i][1] < cur'[1]
      BY <2>2, <3>1, <3>4
    <3>6. ASSUME NEW i \in DOMAIN old_gc_free' PROVE FreeSlot(old_gc_free[i], u)'
      BY <2>1, <2>2, <3>4
    <3> QED
      BY <3>4, <3>5, <3>6 DEF FreeSlot
  <2>5. ~Marking'
    BY <1>2, <1>12 DEF Marking
  <2> QED
    BY <1>2, <2>2, <2>3, <2>4, <2>5 DEF FreeListsOK
<1>13. FreeListsOK'
  <2>1. CASE pc = "exit"
    BY <1>2, <2>1 DEF FreeListsOK
  <2> QED
    BY <1>1, <1>12, <2>1 DEF Sweeping
<1> QED
  BY <1>6, <1>8, <1>9, <1>11, <1>13 DEF IInv

\* gc_sweep, or gc_dispose_before_exit, returns.
LEMMA EndSweepIInv ==
  ASSUME IInv, EndSweep PROVE IInv'
<1>1. /\ Sweeping /\ cur[1] = NChunks + 1
      /\ pc' = IF pc = "exit" THEN "halt" ELSE IF req = <<>> THEN "run" ELSE "resume"
      /\ collector_counter' = IF pc = "exit" THEN collector_counter ELSE collector_counter + 1
      /\ cur' = <<1, 1>>
      /\ UNCHANGED <<state, type, store, store_left, store_chunk, flag, attr, gc_free,
           fsocfl, fsoc_count, fsoc_count_ceil, gc_is_off, gc_info_nb, word, live, global,
           req, grey, dead, old_gc_free, alloc, disposed>>
  BY DEF EndSweep, chunkVars, ceilVars, progVars, histVars
<1>2. /\ TypeOK /\ ControlOK /\ StoreOK /\ AllocOK /\ MarksOK /\ FreeListsOK
      /\ FreeChunksOK /\ DisposedOnce /\ SweepOK
  BY DEF IInv
<1>3. pc \in {"sweep", "exit"} /\ ~Marking /\ grey = {}
  BY <1>1, <1>2 DEF Sweeping, Marking, ControlOK
<1>4. alloc \subseteq Obj /\ \A o \in Obj : Below(o, cur)
  <2>1. NChunks \in Int /\ \A o \in Obj : o[1] \in 1..NChunks
    BY FsoAssumption DEF Obj, Chunk
  <2>2. \A o \in Obj : o[1] < NChunks + 1
    BY <2>1
  <2> QED
    BY <1>1, <1>2, <2>2 DEF Below, TypeOK
<1>5. pc' \in {"run", "resume", "halt"} /\ ~Marking' /\ ~Sweeping'
  BY <1>1 DEF Marking, Sweeping
<1>6. collector_counter' \in 0..MaxCollections
  BY <1>1, <1>2, <1>3, FsoAssumption DEF TypeOK, ControlOK
<1>7. TypeOK'
  <2>1. cur' \in (1..NChunks + 1) \X (1..Slots + 1)
    BY <1>1, FsoAssumption
  <2>2. pc' \in Pc
    BY <1>5 DEF Pc
  <2> QED
    BY <1>1, <1>2, <1>6, <2>1, <2>2 DEF TypeOK
<1>8. \A o : InUse(o)' <=> InUse(o)
  BY <1>1 DEF InUse
<1>9. AllocOK' /\ DisposedOnce'
  BY <1>1, <1>2, <1>8 DEF AllocOK, DisposedOnce
<1>10. StoreOK' /\ FreeChunksOK'
  BY <1>1, <1>2 DEF StoreOK, FreeChunksOK, Injective
<1>11. ControlOK'
  <2>1. req # <<>> => gc_info_nb < MaxNew /\ store_left[req[1]] = 0
    BY <1>2 DEF ControlOK
  <2>2. pc' # "sweep" /\ (pc' = "run" => req = <<>>) /\ (pc' = "resume" => req # <<>>)
    BY <1>1
  <2> QED
    BY <1>1, <1>3, <1>5, <2>1, <2>2 DEF ControlOK
<1>12. MarksOK'
  BY <1>1, <1>2, <1>3, <1>4, <1>5 DEF MarksOK
<1>13. MarkingOK' /\ SweepOK' /\ DeadOK'
  BY <1>5 DEF MarkingOK, SweepOK, DeadOK, Sweeping
<1>14. FreeListsOK'
  <2>1. CASE pc = "exit"
    BY <1>1, <2>1 DEF FreeListsOK
  <2>2. CASE pc = "sweep"
    <3>1. \A o, t : FreeSlot(o, t)' <=> FreeSlot(o, t)
      BY <1>1, <1>8 DEF FreeSlot
    <3>2. \A t \in Types :
            /\ Injective(gc_free[t])
            /\ \A i \in DOMAIN gc_free[t] : FreeSlot(gc_free[t][i], t)
      BY <1>2, <2>2 DEF FreeListsOK
    <3>3. pc' # "sweep"
      BY <1>5
    <3>4. \A t \in Types : \A i \in DOMAIN gc_free'[t] : FreeSlot(gc_free[t][i], t)'
      BY <1>1, <3>1, <3>2
    <3> QED
      BY <1>1, <1>5, <3>2, <3>3, <3>4 DEF FreeListsOK
  <2> QED
    BY <1>3, <2>1, <2>2
<1>15. ClosedOK'
  <2>1. CASE pc = "exit"
    BY <1>1, <1>5, <2>1 DEF ClosedOK, AtRest
  <2>2. CASE pc = "sweep"
    <3>1. Survivors = alloc
      BY <1>4 DEF Survivors
    <3>2. Closed(alloc)
      BY <1>2, <2>2, <3>1 DEF SweepOK
    <3>3. WeakClosed(alloc)
      <4> SUFFICES ASSUME NEW o \in alloc, NEW f \in Fields
                   PROVE  attr[o][f] \in alloc \cup {Nil}
        BY DEF WeakClosed
      <4>1. CASE type[o[1]] \notin WeakTypes
        BY <3>2, <4>1 DEF Closed
      <4>2. CASE type[o[1]] \in WeakTypes
        BY <1>2, <1>4, <2>2, <3>1, <4>2 DEF SweepOK
      <4> QED
        BY <4>1, <4>2
    <3> QED
      BY <1>1, <3>2, <3>3 DEF ClosedOK, Closed, WeakClosed
  <2> QED
    BY <1>3, <2>1, <2>2
<1> QED
  BY <1>7, <1>9, <1>10, <1>11, <1>12, <1>13, <1>14, <1>15 DEF IInv

\* The program ends: gc_dispose_before_exit starts.
LEMMA ExitIInv ==
  ASSUME IInv, Exit PROVE IInv'
<1>1. /\ pc = "run" /\ pc' \in {"exit", "halt"}
      /\ cur' = <<1, 1>> /\ dead' = TRUE
      /\ old_gc_free' = IF ToSweep(1) THEN gc_free[type[1]] ELSE <<>>
      /\ UNCHANGED <<state, type, store, store_left, store_chunk, flag, attr, gc_free,
           fsocfl, fsoc_count, fsoc_count_ceil, gc_is_off, collector_counter,
           gc_info_nb, word, live, global, req, grey, alloc, disposed>>
  BY DEF Exit, EnterChunk, chunkVars, ceilVars, gcVars, progVars, histVars
<1>2. /\ TypeOK /\ ControlOK /\ StoreOK /\ AllocOK /\ MarksOK
      /\ FreeChunksOK /\ DisposedOnce
  BY DEF IInv
<1>3. TypeOK'
  <2>1. cur' \in (1..NChunks + 1) \X (1..Slots + 1)
    BY <1>1, FsoAssumption
  <2>2. pc' \in Pc
    BY <1>1 DEF Pc
  <2>3. old_gc_free' \in Seq(Obj)
    BY <1>1, <1>2 DEF TypeOK, ToSweep
  <2>4. dead' \in BOOLEAN
    BY <1>1
  <2> QED
    BY <1>1, <1>2, <2>1, <2>2, <2>3, <2>4 DEF TypeOK
<1>4. \A o : InUse(o)' <=> InUse(o)
  BY <1>1 DEF InUse
<1>5. AllocOK' /\ DisposedOnce'
  BY <1>1, <1>2, <1>4 DEF AllocOK, DisposedOnce
<1>6. StoreOK' /\ FreeChunksOK'
  BY <1>1, <1>2 DEF StoreOK, FreeChunksOK, Injective
<1>7. ControlOK' /\ MarksOK' /\ FreeListsOK' /\ ClosedOK' /\ MarkingOK' /\ SweepOK'
  BY <1>1, <1>2 DEF ControlOK, MarksOK, FreeListsOK, ClosedOK, MarkingOK, SweepOK,
                    Marking, AtRest
<1>8. DeadOK'
  <2>1. \A s \in Slot : ~(s < 1)
    BY FsoAssumption DEF Slot
  <2> QED
    BY <1>1, <2>1 DEF DeadOK
<1> QED
  BY <1>3, <1>5, <1>6, <1>7, <1>8 DEF IInv

----------------------------------------------------------------------------
(* The theorems. *)

\* IInv does not depend on anything but the variables.
LEMMA StutterIInv ==
  ASSUME IInv, UNCHANGED vars PROVE IInv'
<1>1. UNCHANGED <<state, type, store, store_left, store_chunk, flag, attr, gc_free,
        fsocfl, fsoc_count, fsoc_count_ceil, gc_is_off, collector_counter,
        gc_info_nb, word, live, global, pc, req, grey, cur, dead, old_gc_free,
        alloc, disposed>>
  BY DEF vars, chunkVars, ceilVars, gcVars, progVars, sweepVars, histVars
<1>2. \A o : InUse(o)' <=> InUse(o)
  BY <1>1 DEF InUse
<1>3. TypeOK'
  BY <1>1 DEF IInv, TypeOK
<1>4. ControlOK' /\ StoreOK' /\ AllocOK' /\ MarksOK' /\ FreeChunksOK' /\ DisposedOnce'
  BY <1>1, <1>2 DEF IInv, ControlOK, StoreOK, AllocOK, MarksOK, FreeChunksOK,
                    DisposedOnce, Marking, Injective
<1>5. ClosedOK' /\ MarkingOK' /\ SweepOK' /\ DeadOK'
  BY <1>1 DEF IInv, ClosedOK, MarkingOK, SweepOK, DeadOK, Closed, WeakClosed, Followed,
              Survivors, AtRest, Marking, Sweeping, ToSweep
<1>6. FreeListsOK'
  BY <1>1, <1>2 DEF IInv, FreeListsOK, FreeSlot, Injective, Marking, ToSweep
<1> QED
  BY <1>3, <1>4, <1>5, <1>6 DEF IInv

\* The invariant is inductive.
LEMMA NextIInv ==
  ASSUME SafeInstance, IInv, [Next]_vars PROVE IInv'
<1>1. CASE Program
  BY <1>1, ProgramIInv
<1>2. CASE Allocate
  BY <1>2, NewIInv, NewCollectsIInv DEF Allocate
<1>3. CASE FullCollect
  BY <1>3, FullCollectIInv
<1>4. CASE Collector
  BY <1>4, MarkAttributesIInv, MarkStackIInv, BeginSweepIInv, SweepMarkedIInv,
     SweepOtherIInv, SweptDeadIInv, SweptOtherIInv, EndSweepIInv, ResumeIInv DEF Collector
<1>5. CASE Exit
  BY <1>5, ExitIInv
<1>6. CASE Halted \/ UNCHANGED vars
  BY <1>6, StutterIInv DEF Halted
<1> QED
  BY <1>1, <1>2, <1>3, <1>4, <1>5, <1>6 DEF Next

\* For every number and size of chunks, type system and program: on the instances
\* the code is right for, gc_lib.c and the generated functions keep IInv.
THEOREM Invariance == SafeInstance /\ Spec => []IInv
<1>1. ASSUME SafeInstance PROVE Spec => []IInv
  <2>1. Init => IInv
    BY InitIInv
  <2>2. IInv /\ [Next]_vars => IInv'
    BY <1>1, NextIInv
  <2> QED
    BY <2>1, <2>2, PTL DEF Spec
<1> QED
  BY <1>1

\* newXXX, gc_start and the sweep functions keep the heap's variables in range.
THEOREM TypeCorrect == SafeInstance /\ Spec => []TypeOK
<1>1. IInv => TypeOK
  BY DEF IInv
<1> QED
  BY <1>1, Invariance, PTL

\* Memory the program can reach is never recycled, whatever the program does and
\* whenever it collects.
THEOREM NothingDangles == SafeInstance /\ Spec => []NoDangling
<1>1. IInv => NoDangling
  BY DEF IInv, ClosedOK, Closed, WeakClosed, NoDangling
<1> QED
  BY <1>1, Invariance, PTL

\* dispose runs exactly once on every reclaimed object.
THEOREM DisposeOnce == SafeInstance /\ Spec => []DisposedOnce
<1>1. IInv => DisposedOnce
  BY DEF IInv
<1> QED
  BY <1>1, Invariance, PTL

-----------------------------------------------------------------------------
(* The free lists, the ceiling and the abstract heap.                      *)

heapState == <<state, type, flag, gc_free, store, fsocfl, fsoc_count>>
-----------------------------------------------------------------------------
LEMMA AllocatedFinite == IsFiniteSet(Allocated)
<1>1. NChunks \in Int /\ 1 \in Int
  BY FsoAssumption
<1>2. IsFiniteSet(Chunk)
  BY <1>1, FS_Interval DEF Chunk
<1>3. Allocated \subseteq Chunk
  BY DEF Allocated
<1> QED
  BY <1>2, <1>3, FS_Subset

LEMMA InitPart == Init => PartInv
<1> SUFFICES ASSUME Init PROVE PartInv
  OBVIOUS
<1>1. \A c \in Chunk : state[c] = "none"
  BY DEF Init
<1>2. \A o \in Obj : ~InUse(o)
  BY <1>1 DEF InUse, Obj
<1>3. FreeListsFull /\ FreeChunksFull
  BY <1>1, <1>2 DEF Init, FreeListsFull, FreeChunksFull, FreeSlot
<1>4. Allocated = {} /\ fsoc_count = 0
  BY <1>1 DEF Allocated, Init
<1> QED
  BY <1>3, <1>4, FS_EmptySet DEF PartInv, CountExact

(* A step that leaves the heap's bookkeeping alone.                        *)
LEMMA SameHeap ==
  ASSUME PartInv, UNCHANGED heapState, AtRest' => AtRest,
         pc' = "sweep" => pc = "sweep" /\ UNCHANGED <<cur, old_gc_free>>
  PROVE  PartInv'
<1>1. UNCHANGED <<state, type, flag, gc_free, store, fsocfl, fsoc_count>>
  BY DEF heapState
<1>2. \A o, t : FreeSlot(o, t)' <=> FreeSlot(o, t)
  BY <1>1 DEF FreeSlot, InUse
<1>4. FreeChunksFull' /\ CountExact'
  BY <1>1 DEF PartInv, FreeChunksFull, CountExact, Allocated, Members
<1>5. FreeListsFull'
  <2>1. ASSUME AtRest', NEW t \in Types, NEW o \in Obj, FreeSlot(o, t)'
        PROVE  o \in Members(gc_free'[t])
    BY <1>1, <1>2, <2>1 DEF PartInv, FreeListsFull
  <2>2. ASSUME pc' = "sweep", NEW t \in Types, NEW o \in Obj, FreeSlot(o, t)', Below(o, cur')
        PROVE  o \in Members(gc_free'[t])
    BY <1>1, <1>2, <2>2 DEF PartInv, FreeListsFull
  <2>3. ASSUME pc' = "sweep", ToSweep(cur[1])', NEW o \in Obj,
               FreeSlot(o, type[cur[1]])', o[1] < cur'[1]
        PROVE  o \in Members(old_gc_free')
    BY <1>1, <1>2, <2>3 DEF PartInv, FreeListsFull, ToSweep
  <2> QED
    BY <2>1, <2>2, <2>3 DEF FreeListsFull
<1> QED
  BY <1>4, <1>5 DEF PartInv
LEMMA PopMembers ==
  ASSUME NEW S, NEW s \in Seq(S), s # <<>>
  PROVE  \A x \in Members(s) : x = Top(s) \/ x \in Members(Pop(s))
<1>1. Len(s) \in Nat /\ Len(s) > 0 /\ DOMAIN s = 1 .. Len(s)
  OBVIOUS
<1>2. DOMAIN Pop(s) = 1 .. Len(s) - 1 /\ \A i \in 1 .. Len(s) - 1 : Pop(s)[i] = s[i]
  BY <1>1 DEF Pop
<1> QED
  BY <1>1, <1>2 DEF Members, Top

LEMMA PushMembers ==
  ASSUME NEW S, NEW s \in Seq(S), NEW x \in S
  PROVE  x \in Members(Push(s, x)) /\ Members(s) \subseteq Members(Push(s, x))
<1>1. Len(s) \in Nat /\ DOMAIN s = 1 .. Len(s) /\ DOMAIN Push(s, x) = 1 .. Len(s) + 1
  BY DEF Push
<1>2. Push(s, x)[Len(s) + 1] = x /\ \A i \in 1 .. Len(s) : Push(s, x)[i] = s[i]
  BY DEF Push
<1> QED
  BY <1>1, <1>2 DEF Members
-----------------------------------------------------------------------------
(* newXXX *)

(* A step to a state of rest that frees no slot and keeps the lists.       *)
LEMMA FewerFree ==
  ASSUME PartInv, AtRest, pc' = "run", gc_free' = gc_free,
         \A o \in Obj, u \in Types : FreeSlot(o, u)' => FreeSlot(o, u)
  PROVE  FreeListsFull'
BY DEF PartInv, FreeListsFull, AtRest

LEMMA NewFromStorePart ==
  ASSUME IInv, SafeInstance, PartInv, NEW t \in Types, NEW w \in Words, NewFromStore(t, w)
  PROVE  PartInv'
<1>1. /\ pc = "run" /\ store_left[t] > 1 /\ pc' = "run"
      /\ store' = [store EXCEPT ![t] = <<@[1], @[2] + 1>>]
      /\ flag' = [flag EXCEPT ![store[t]] = UNMARKED]
      /\ UNCHANGED <<state, type, gc_free, fsocfl, fsoc_count>>
  BY DEF NewFromStore, StoreHasMany, ceilVars, Return
<1>2. TypeOK /\ StoreOK
  BY DEF IInv
<1>3. Slots \in Int /\ store_left[t] \in Int
  BY <1>2, FsoAssumption DEF TypeOK
<1>4. PICK c \in Chunk : store[t] = <<c, Slots + 1 - store_left[t]>> /\ store[t] \in Obj
  BY <1>1, <1>2, <1>3, StoreFacts
<1>5. /\ store'[t] = <<store[t][1], store[t][2] + 1>> /\ flag'[store[t]] = UNMARKED
      /\ \A u \in Types : u # t => store'[u] = store[u]
      /\ \A o \in Obj : o # store[t] => flag'[o] = flag[o]
  BY <1>1, <1>2, <1>4 DEF TypeOK
<1>6. ASSUME NEW o \in Obj, NEW u \in Types, FreeSlot(o, u)' PROVE FreeSlot(o, u)
  <2>1. o # store[t] /\ flag'[o] = flag[o]
    BY <1>5, <1>6 DEF FreeSlot, NEXT, UNMARKED
  <2>2. Below(o, store'[t]) => Below(o, store[t])
    BY <1>4, <1>5, <2>1, Order
  <2>3. InUse(o)
    <3>1. state[o[1]] = "store" => type[o[1]] \in Types
      BY <1>2 DEF TypeOK, Obj
    <3> QED
      BY <1>1, <1>5, <1>6, <2>2, <3>1 DEF FreeSlot, InUse
  <2> QED
    BY <1>1, <1>6, <2>1, <2>3 DEF FreeSlot
<1>7. FreeListsFull'
  BY <1>1, <1>6, FewerFree DEF AtRest
<1> QED
  BY <1>1, <1>7 DEF PartInv, FreeChunksFull, CountExact, Allocated

LEMMA NewLastPart ==
  ASSUME IInv, SafeInstance, PartInv, NEW t \in Types, NEW w \in Words, NewLast(t, w)
  PROVE  PartInv'
<1>1. /\ pc = "run" /\ store_left[t] = 1 /\ pc' = "run"
      /\ state' = [state EXCEPT ![store_chunk[t]] = "used"]
      /\ store' = [store EXCEPT ![t] = <<@[1], @[2] + 1>>]
      /\ flag' = [flag EXCEPT ![store[t]] = UNMARKED]
      /\ UNCHANGED <<type, gc_free, fsocfl, fsoc_count>>
  BY DEF NewLast, ceilVars, Return
<1>2. TypeOK /\ StoreOK
  BY DEF IInv
<1>3. Slots \in Int
  BY FsoAssumption
<1>4. PICK c \in Chunk : /\ c = store_chunk[t] /\ state[c] = "store" /\ type[c] = t
                         /\ store[t] = <<c, Slots>> /\ store[t] \in Obj
  BY <1>1, <1>2, <1>3, StoreFacts
<1>5. /\ state'[c] = "used" /\ \A d \in Chunk : d # c => state'[d] = state[d]
      /\ flag'[store[t]] = UNMARKED
      /\ \A u \in Types : u # t => store'[u] = store[u]
      /\ \A o \in Obj : o # store[t] => flag'[o] = flag[o]
  BY <1>1, <1>2, <1>4 DEF TypeOK
<1>6. ASSUME NEW o \in Obj, NEW u \in Types, FreeSlot(o, u)' PROVE FreeSlot(o, u)
  <2>1. o # store[t] /\ flag'[o] = flag[o]
    BY <1>5, <1>6 DEF FreeSlot, NEXT, UNMARKED
  <2>2. /\ o = <<o[1], o[2]>> /\ o[1] \in Chunk /\ o[1] \in Int /\ o[2] \in Int
        /\ o[2] <= Slots
    BY <1>3, FsoAssumption DEF Obj, Chunk, Slot
  <2>3. CASE o[1] = c
    <3>1. Below(o, store[t])
      BY <1>3, <1>4, <2>1, <2>2, <2>3 DEF Below
    <3> QED
      BY <1>1, <1>4, <1>6, <2>1, <2>3, <3>1 DEF FreeSlot, InUse
  <2>4. CASE o[1] # c
    <3>1. state'[o[1]] = state[o[1]] /\ type[o[1]] \in Types
      BY <1>2, <1>5, <2>2, <2>4 DEF TypeOK
    <3>2. state[o[1]] = "store" => type[o[1]] # t
      BY <1>2, <1>4, <2>2, <2>4 DEF StoreOK
    <3> QED
      BY <1>1, <1>5, <1>6, <2>1, <3>1, <3>2 DEF FreeSlot, InUse
  <2> QED
    BY <2>3, <2>4
<1>7. FreeListsFull'
  BY <1>1, <1>6, FewerFree DEF AtRest
<1>8. FreeChunksFull' /\ Allocated' = Allocated
  BY <1>1, <1>2, <1>4, <1>5 DEF PartInv, FreeChunksFull, Allocated
<1> QED
  BY <1>1, <1>7, <1>8 DEF PartInv, CountExact

LEMMA PopFreePart ==
  ASSUME IInv, PartInv, AtRest, NEW t \in Types, NEW w \in Words, PopFree(t, w)
  PROVE  PartInv'
<1>1. /\ gc_free[t] # <<>> /\ gc_free' = [gc_free EXCEPT ![t] = Pop(@)] /\ pc' = "run"
      /\ flag' = [flag EXCEPT ![Top(gc_free[t])] = UNMARKED]
      /\ UNCHANGED <<state, type, store, fsocfl, fsoc_count>>
  BY DEF PopFree, Return, chunkVars, ceilVars
<1>2. gc_free \in [Types -> Seq(Obj)] /\ flag \in [Obj -> Flag]
  BY DEF IInv, TypeOK
<1>3. gc_free[t] \in Seq(Obj) /\ Injective(gc_free[t])
  BY <1>2 DEF AtRest, IInv, FreeListsOK
<1>4. Top(gc_free[t]) \in Obj
  BY <1>1, <1>3, PopFacts
<1>5. ASSUME NEW o \in Obj, NEW u \in Types, FreeSlot(o, u)' PROVE o \in Members(gc_free'[u])
  <2>1. o # Top(gc_free[t])
    BY <1>1, <1>2, <1>4, <1>5 DEF FreeSlot, NEXT, UNMARKED
  <2>2. FreeSlot(o, u)
    BY <1>1, <1>2, <1>5, <2>1 DEF FreeSlot, InUse
  <2>3. o \in Members(gc_free[u])
    BY <2>2 DEF PartInv, FreeListsFull
  <2>4. CASE u = t
    BY <1>1, <1>2, <1>3, <2>1, <2>3, <2>4, PopMembers
  <2>5. CASE u # t
    BY <1>1, <1>2, <2>3, <2>5
  <2> QED
    BY <2>4, <2>5
<1>6. FreeListsFull'
  BY <1>1, <1>5 DEF FreeListsFull
<1> QED
  BY <1>1, <1>6 DEF PartInv, FreeChunksFull, CountExact, Allocated
(* A new store chunk has one slot in use, which is not free.               *)
LEMMA CarvePart ==
  ASSUME IInv, SafeInstance, PartInv, AtRest, NEW t \in Types, NEW w \in Words,
         NEW c \in Chunk, Carve(t, w, c), store_left[t] = 0, state[c] \in {"none", "free"}
  PROVE  /\ FreeListsFull'
         /\ state'[c] = "store" /\ \A d \in Chunk : d # c => state'[d] = state[d]
<1>1. PICK g \in Garbage :
        flag' = [o \in Obj |-> IF o = <<c, 1>> THEN UNMARKED
                               ELSE IF o[1] = c THEN g ELSE flag[o]]
  BY DEF Carve
<1>2. /\ state' = [state EXCEPT ![c] = "store"]
      /\ type' = [type EXCEPT ![c] = t]
      /\ store' = [store EXCEPT ![t] = <<c, 2>>]
      /\ gc_free' = gc_free /\ pc' = "run"
  BY DEF Carve, Return
<1>3. TypeOK /\ StoreOK
  BY DEF IInv
<1>4. /\ state'[c] = "store" /\ type'[c] = t /\ store'[t] = <<c, 2>>
      /\ \A d \in Chunk : d # c => state'[d] = state[d] /\ type'[d] = type[d]
      /\ \A u \in Types : u # t => store'[u] = store[u]
  BY <1>2, <1>3 DEF TypeOK
<1>5. ASSUME NEW o \in Obj, NEW u \in Types, FreeSlot(o, u)' PROVE FreeSlot(o, u)
  <2>1. /\ o = <<o[1], o[2]>> /\ o[1] \in Chunk /\ o[1] \in Int /\ o[2] \in Int
        /\ o[2] >= 1
    BY FsoAssumption DEF Obj, Chunk, Slot
  <2>2. o # <<c, 1>>
    BY <1>1, <1>5 DEF FreeSlot, NEXT, UNMARKED
  <2>3. o[1] # c
    <3> SUFFICES ASSUME o[1] = c PROVE FALSE
      OBVIOUS
    <3>1. Below(o, <<c, 2>>)
      BY <1>4, <1>5 DEF FreeSlot, InUse
    <3>2. o[2] < 2
      BY <2>1, <3>1 DEF Below
    <3> QED
      BY <2>1, <2>2, <3>2
  <2>4. /\ state'[o[1]] = state[o[1]] /\ type'[o[1]] = type[o[1]]
        /\ type[o[1]] \in Types /\ flag'[o] = flag[o]
    BY <1>1, <1>3, <1>4, <2>1, <2>2, <2>3 DEF TypeOK
  <2>5. state[o[1]] = "store" => type[o[1]] # t
    <3> SUFFICES ASSUME state[o[1]] = "store" PROVE store_left[type[o[1]]] # 0
      OBVIOUS
    <3>1. store_left[type[o[1]]] \in 1 .. Slots - 1
      BY <1>3, <2>1 DEF StoreOK
    <3> QED
      BY <3>1, FsoAssumption
  <2> QED
    BY <1>4, <1>5, <2>4, <2>5 DEF FreeSlot, InUse
<1>6. FreeListsFull'
  BY <1>2, <1>5, FewerFree
<1> QED
  BY <1>4, <1>6

LEMMA TakeFreeChunkPart ==
  ASSUME IInv, SafeInstance, PartInv, AtRest, NEW t \in Types, NEW w \in Words,
         TakeFreeChunk(t, w), store_left[t] = 0
  PROVE  PartInv'
<1> DEFINE c == Top(fsocfl)
<1>1. /\ fsocfl \in Seq(Chunk) /\ fsocfl # <<>> /\ Injective(fsocfl)
      /\ fsocfl' = Pop(fsocfl) /\ Carve(t, w, c) /\ fsoc_count' = fsoc_count
  BY DEF TakeFreeChunk, IInv, TypeOK, FreeChunksOK, ceilVars
<1>2. c \in Chunk /\ state[c] = "free"
  BY <1>1, PopFacts DEF IInv, FreeChunksOK
<1> HIDE DEF c
<1>3. /\ FreeListsFull' /\ state'[c] = "store"
      /\ \A d \in Chunk : d # c => state'[d] = state[d]
  BY <1>1, <1>2, CarvePart
<1>4. ASSUME NEW d \in Chunk, state'[d] = "free" PROVE d \in Members(fsocfl')
  <2>1. d # c /\ d \in Members(fsocfl)
    BY <1>3, <1>4 DEF PartInv, FreeChunksFull
  <2> QED
    BY <1>1, <2>1, PopMembers DEF c
<1>5. Allocated' = Allocated
  BY <1>2, <1>3 DEF Allocated
<1> QED
  BY <1>1, <1>3, <1>4, <1>5 DEF PartInv, FreeChunksFull, CountExact

LEMMA MallocChunkPart ==
  ASSUME IInv, SafeInstance, PartInv, AtRest, NEW t \in Types, NEW w \in Words,
         MallocChunk(t, w), store_left[t] = 0
  PROVE  PartInv'
<1>1. PICK c \in Chunk : state[c] = "none" /\ Carve(t, w, c)
  BY DEF MallocChunk
<1>2. fsocfl' = fsocfl /\ fsoc_count' = fsoc_count + 1
  BY DEF MallocChunk
<1>3. /\ FreeListsFull' /\ state'[c] = "store"
      /\ \A d \in Chunk : d # c => state'[d] = state[d]
  BY <1>1, CarvePart
<1>4. FreeChunksFull'
  BY <1>2, <1>3 DEF PartInv, FreeChunksFull
<1>5. Allocated' = Allocated \cup {c} /\ c \notin Allocated
  BY <1>1, <1>3 DEF Allocated
<1>6. Cardinality(Allocated') = Cardinality(Allocated) + 1
  BY <1>5, AllocatedFinite, FS_AddElement
<1> QED
  BY <1>2, <1>3, <1>4, <1>6 DEF PartInv, CountExact

LEMMA OutOfMemoryPart ==
  ASSUME PartInv, OutOfMemory PROVE PartInv'
BY SameHeap DEF OutOfMemory, heapState, chunkVars, ceilVars, AtRest

(* gc_start: the lists are emptied, or left alone.                         *)
LEMMA GcStartPart ==
  ASSUME PartInv, AtRest, NEW r, GcStart(r) PROVE PartInv'
<1>1. UNCHANGED <<state, type, store, fsocfl>>
  BY DEF GcStart, chunkVars
<1>2. CASE /\ pc' \in {"run", "resume"}
           /\ UNCHANGED <<gc_free, flag, fsoc_count>>
  BY <1>1, <1>2, SameHeap DEF heapState
<1>3. CASE StartMarking
  <2>1. pc' = "mark_globals" /\ fsoc_count' = fsoc_count
    BY <1>3 DEF StartMarking, ceilVars
  <2>2. FreeListsFull'
    BY <2>1 DEF FreeListsFull, AtRest
  <2> QED
    BY <1>1, <2>1, <2>2 DEF PartInv, FreeChunksFull, CountExact, Allocated
<1> QED
  BY <1>2, <1>3 DEF GcStart

LEMMA AllocatePart ==
  ASSUME IInv, SafeInstance, PartInv, Allocate PROVE PartInv'
<1>1. PICK t \in Types, w \in Words :
        \/ NewFromStore(t, w) \/ NewFromFree(t, w) \/ NewLast(t, w)
        \/ NewFromGet1(t, w) \/ NewCollects(t, w) \/ NewFails(t)
  BY DEF Allocate
<1>2. CASE NewFromStore(t, w)
  BY <1>2, NewFromStorePart
<1>3. CASE NewFromFree(t, w)
  BY <1>3, PopFreePart DEF NewFromFree, AtRest
<1>4. CASE NewLast(t, w)
  BY <1>4, NewLastPart
<1>5. CASE NewFromGet1(t, w)
  BY <1>5, TakeFreeChunkPart, MallocChunkPart DEF NewFromGet1, Exhausted, AtRest
<1>6. CASE NewCollects(t, w)
  BY <1>6, GcStartPart DEF NewCollects, AtRest
<1>7. CASE NewFails(t)
  BY <1>7, OutOfMemoryPart DEF NewFails
<1> QED
  BY <1>1, <1>2, <1>3, <1>4, <1>5, <1>6, <1>7

LEMMA ResumePart ==
  ASSUME IInv, SafeInstance, PartInv, ResumeFree \/ ResumeGet2 \/ ResumeFails
  PROVE  PartInv'
<1>1. pc = "resume" /\ AtRest
  BY DEF ResumeFree, ResumeGet2, ResumeFails, AtRest
<1>2. /\ req # <<>> /\ req \in (Types \X Words) \cup {<<>>}
      /\ store_left[req[1]] = 0
  BY <1>1 DEF IInv, ControlOK, TypeOK
<1>3. PICK t \in Types, w \in Words : t = req[1] /\ w = req[2]
  BY <1>2
<1>4. CASE ResumeFree
  BY <1>1, <1>3, <1>4, PopFreePart DEF ResumeFree
<1>5. CASE ResumeGet2
  BY <1>1, <1>2, <1>3, <1>5, TakeFreeChunkPart, MallocChunkPart DEF ResumeGet2
<1>6. CASE ResumeFails
  BY <1>6, OutOfMemoryPart DEF ResumeFails
<1> QED
  BY <1>4, <1>5, <1>6
-----------------------------------------------------------------------------
(* The mark phase: nothing is asked of the lists of slots.                 *)
LEMMA MarkPart ==
  ASSUME PartInv, MarkAttributes \/ MarkStack PROVE PartInv'
<1>1. pc' \in {"mark_globals", "mark_stack"} /\ UNCHANGED <<state, fsocfl, fsoc_count>>
  BY DEF MarkAttributes, MarkStack, chunkVars, ceilVars
<1>2. FreeListsFull'
  BY <1>1 DEF FreeListsFull, AtRest
<1> QED
  BY <1>1, <1>2 DEF PartInv, FreeChunksFull, CountExact, Allocated

(* Nothing lies before the first slot of the first chunk.                  *)
LEMMA BeginSweepPart ==
  ASSUME PartInv, BeginSweep PROVE PartInv'
<1>1. /\ pc' = "sweep" /\ cur' = <<1, 1>> /\ UNCHANGED <<state, fsocfl, fsoc_count>>
  BY DEF BeginSweep, EnterChunk, chunkVars, ceilVars
<1>2. \A o \in Obj : ~Below(o, <<1, 1>>) /\ ~(o[1] < 1)
  <2> SUFFICES ASSUME NEW o \in Obj PROVE ~Below(o, <<1, 1>>) /\ ~(o[1] < 1)
    OBVIOUS
  <2>1. o[1] \in Int /\ o[1] >= 1 /\ o[2] \in Int /\ o[2] >= 1
    BY FsoAssumption DEF Obj, Chunk, Slot
  <2> QED
    BY <2>1 DEF Below
<1>3. FreeListsFull'
  BY <1>1, <1>2 DEF FreeListsFull, AtRest
<1> QED
  BY <1>1, <1>3 DEF PartInv, FreeChunksFull, CountExact, Allocated

(* The object at cur stays.                                                *)
LEMMA SweepMarkedPart ==
  ASSUME IInv, PartInv, SweepMarked PROVE PartInv'
<1>1. /\ pc \in {"sweep", "exit"} /\ cur[1] \in Chunk /\ cur[2] \in Slot
      /\ flag' = [flag EXCEPT ![cur] = UNMARKED] /\ cur' = <<cur[1], cur[2] + 1>>
      /\ UNCHANGED <<state, type, store, gc_free, fsocfl, fsoc_count, pc, old_gc_free>>
  BY DEF SweepMarked, Sweeping, ToSweep, chunkVars, ceilVars
<1>2. TypeOK
  BY DEF IInv
<1>3. cur = <<cur[1], cur[2]>> /\ cur \in Obj
  BY <1>1, <1>2 DEF TypeOK, Obj
<1>4. ASSUME NEW o \in Obj, NEW u, FreeSlot(o, u)' PROVE FreeSlot(o, u) /\ o # cur
  BY <1>1, <1>2, <1>3, <1>4 DEF FreeSlot, InUse, TypeOK, NEXT, UNMARKED
<1>5. \A o \in Obj : Below(o, cur') <=> Below(o, cur) \/ o = cur
  BY <1>1, <1>3, Order
<1>6. FreeListsFull'
  <2>1. ASSUME pc' = "sweep", NEW u \in Types, NEW o \in Obj, FreeSlot(o, u)', Below(o, cur')
        PROVE  o \in Members(gc_free'[u])
    BY <1>1, <1>4, <1>5, <2>1 DEF PartInv, FreeListsFull
  <2>2. ASSUME pc' = "sweep", ToSweep(cur[1])', NEW o \in Obj,
               FreeSlot(o, type[cur[1]])', o[1] < cur'[1]
        PROVE  o \in Members(old_gc_free')
    <3>1. cur'[1] = cur[1] /\ ToSweep(cur[1])
      BY <1>1, <2>2 DEF ToSweep
    <3>2. FreeSlot(o, type[cur[1]])
      BY <1>1, <1>4, <2>2, <3>1
    <3> QED
      BY <1>1, <2>2, <3>1, <3>2 DEF PartInv, FreeListsFull
  <2> QED
    BY <1>1, <2>1, <2>2 DEF FreeListsFull, AtRest
<1> QED
  BY <1>1, <1>6 DEF PartInv, FreeChunksFull, CountExact, Allocated

(* The slot at cur joins the list of its type.                             *)
LEMMA SweepOtherPart ==
  ASSUME IInv, PartInv, SweepOther PROVE PartInv'
<1> DEFINE T == type[cur[1]]
<1>1. /\ pc \in {"sweep", "exit"} /\ cur[1] \in Chunk /\ cur[2] \in Slot
      /\ flag' = [flag EXCEPT ![cur] = NEXT] /\ cur' = <<cur[1], cur[2] + 1>>
      /\ gc_free' = [gc_free EXCEPT ![T] = Push(@, cur)]
      /\ UNCHANGED <<state, type, store, fsocfl, fsoc_count, pc, old_gc_free>>
  BY DEF SweepOther, Sweeping, ToSweep, chunkVars, ceilVars
<1>2. TypeOK
  BY DEF IInv
<1>3. cur = <<cur[1], cur[2]>> /\ cur \in Obj /\ T \in Types
  BY <1>1, <1>2 DEF TypeOK, Obj
<1>4. ASSUME NEW o \in Obj, NEW u, FreeSlot(o, u)' PROVE o = cur \/ FreeSlot(o, u)
  BY <1>1, <1>2, <1>3, <1>4 DEF FreeSlot, InUse, TypeOK
<1>5. \A o \in Obj : Below(o, cur') <=> Below(o, cur) \/ o = cur
  BY <1>1, <1>3, Order
<1>6. /\ cur \in Members(gc_free'[T])
      /\ \A u \in Types : Members(gc_free[u]) \subseteq Members(gc_free'[u])
  <2>1. gc_free \in [Types -> Seq(Obj)]
    BY <1>2 DEF TypeOK
  <2>2. gc_free'[T] = Push(gc_free[T], cur) /\ \A u \in Types : u # T => gc_free'[u] = gc_free[u]
    BY <1>1, <1>3, <2>1
  <2>3. cur \in Members(gc_free'[T]) /\ Members(gc_free[T]) \subseteq Members(gc_free'[T])
    BY <1>3, <2>1, <2>2, PushMembers
  <2> QED
    BY <2>2, <2>3
<1>7. FreeListsFull'
  <2>1. ASSUME pc' = "sweep", NEW u \in Types, NEW o \in Obj, FreeSlot(o, u)', Below(o, cur')
        PROVE  o \in Members(gc_free'[u])
    <3>1. CASE o = cur
      BY <1>1, <1>6, <2>1, <3>1 DEF FreeSlot
    <3>2. CASE o # cur
      <4>1. o \in Members(gc_free[u])
        BY <1>1, <1>4, <1>5, <2>1, <3>2 DEF PartInv, FreeListsFull
      <4> QED
        BY <1>6, <4>1
    <3> QED
      BY <3>1, <3>2
  <2>2. ASSUME pc' = "sweep", ToSweep(cur[1])', NEW o \in Obj,
               FreeSlot(o, type[cur[1]])', o[1] < cur'[1]
        PROVE  o \in Members(old_gc_free')
    <3>1. cur'[1] = cur[1] /\ ToSweep(cur[1])
      BY <1>1, <2>2 DEF ToSweep
    <3>2. o # cur
      BY <1>1, <1>2, <2>2, <3>1 DEF TypeOK
    <3>3. FreeSlot(o, type[cur[1]])
      BY <1>1, <1>4, <2>2, <3>1, <3>2
    <3> QED
      BY <1>1, <2>2, <3>1, <3>3 DEF PartInv, FreeListsFull
  <2> QED
    BY <1>1, <2>1, <2>2 DEF FreeListsFull, AtRest
<1> QED
  BY <1>1, <1>7 DEF PartInv, FreeChunksFull, CountExact, Allocated
(* From one chunk to the next: the free slots at hand are the same ones.   *)
LEMMA NextChunkPart ==
  ASSUME IInv, pc \in {"sweep", "exit"}, cur[1] \in Chunk, pc' = pc,
         cur' = <<cur[1] + 1, 1>>,
         cur[1] + 1 \in Chunk /\ state'[cur[1] + 1] \in {"store", "used"} =>
           old_gc_free' = gc_free'[type[cur[1] + 1]],
         type' = type,
         pc = "sweep" => \A o \in Obj, u \in Types :
           FreeSlot(o, u)' /\ o[1] <= cur[1] => o \in Members(gc_free'[u])
  PROVE  FreeListsFull'
<1>1. TypeOK
  BY DEF IInv
<1>2. cur[1] \in Int /\ \A o \in Obj : o[1] \in Int
  BY <1>1, ChunkOrder
<1>3. \A o \in Obj : Below(o, cur') <=> o[1] <= cur[1]
  BY <1>1, ChunkOrder
<1>4. \A o \in Obj : o[1] < cur'[1] <=> o[1] <= cur[1]
  BY <1>2
<1>5. ASSUME pc' = "sweep", ToSweep(cur[1])', NEW o \in Obj,
             FreeSlot(o, type[cur[1]])', o[1] < cur'[1]
      PROVE  o \in Members(old_gc_free')
  <2>1. old_gc_free' = gc_free'[type'[cur'[1]]]
    BY <1>5 DEF ToSweep
  <2>2. type'[cur'[1]] \in Types
    BY <1>1, <1>5 DEF TypeOK, ToSweep
  <2> QED
    BY <1>4, <1>5, <2>1, <2>2
<1> QED
  BY <1>3, <1>5 DEF FreeListsFull, AtRest

(* A chunk without survivors leaves its type with all its slots.           *)
LEMMA SweptDeadPart ==
  ASSUME IInv, PartInv, SweptDead PROVE PartInv'
<1> DEFINE c == cur[1]
<1> DEFINE T == type[c]
<1>1. /\ pc \in {"sweep", "exit"} /\ ToSweep(c) /\ c \in Chunk /\ state[c] = "used"
      /\ gc_free' = [gc_free EXCEPT ![T] = old_gc_free]
      /\ fsocfl' = Push(fsocfl, c) /\ state' = [state EXCEPT ![c] = "free"]
      /\ cur' = <<c + 1, 1>>
      /\ UNCHANGED <<type, flag, store, fsoc_count, pc>>
  BY DEF SweptDead, Sweeping, FreeListRestored, ToSweep, ChunkIsDead, EnterChunk, ceilVars
<1>2. TypeOK
  BY DEF IInv
<1>3. /\ state'[c] = "free" /\ \A d \in Chunk : d # c => state'[d] = state[d]
      /\ gc_free'[T] = old_gc_free /\ T \in Types
      /\ \A u \in Types : u # T => gc_free'[u] = gc_free[u]
  BY <1>1, <1>2 DEF TypeOK
<1>4. /\ c \in Int
      /\ \A o \in Obj : o[1] \in Chunk /\ o[1] \in Int
      /\ \A o \in Obj : Below(o, <<c + 1, 1>>) <=> o[1] <= c
      /\ \A o \in Obj : o[1] # c => (Below(o, <<c + 1, 1>>) <=> Below(o, cur))
  BY <1>1, <1>2, ChunkOrder
<1>5. ASSUME pc = "sweep", NEW o \in Obj, NEW u \in Types, FreeSlot(o, u)', o[1] <= c
      PROVE  o \in Members(gc_free'[u])
  <2>1. o[1] # c
    BY <1>3, <1>5 DEF FreeSlot, InUse
  <2>2. FreeSlot(o, u)
    BY <1>1, <1>3, <1>4, <1>5, <2>1 DEF FreeSlot, InUse
  <2>3. o[1] < c /\ Below(o, cur)
    BY <1>4, <1>5, <2>1
  <2>4. CASE u = T
    BY <1>1, <1>3, <1>5, <2>2, <2>3, <2>4 DEF PartInv, FreeListsFull
  <2>5. CASE u # T
    BY <1>3, <1>5, <2>2, <2>3, <2>5 DEF PartInv, FreeListsFull
  <2> QED
    BY <2>4, <2>5
<1>6. c + 1 \in Chunk /\ state'[c + 1] \in {"store", "used"} =>
        old_gc_free' = gc_free'[type[c + 1]]
  <2>1. c + 1 # c
    BY <1>4
  <2> QED
    BY <1>3, <2>1 DEF SweptDead, EnterChunk, ToSweep
<1>7. FreeListsFull'
  BY <1>1, <1>5, <1>6, NextChunkPart
<1>8. FreeChunksFull'
  <2>1. fsocfl \in Seq(Chunk)
    BY <1>2 DEF TypeOK
  <2>2. c \in Members(fsocfl') /\ Members(fsocfl) \subseteq Members(fsocfl')
    BY <1>1, <2>1, PushMembers
  <2> QED
    BY <1>3, <2>2 DEF PartInv, FreeChunksFull
<1>9. Allocated' = Allocated
  BY <1>1, <1>3 DEF Allocated
<1> QED
  BY <1>1, <1>7, <1>8, <1>9 DEF PartInv, CountExact

(* The slots in use of a chunk that is swept are all behind.               *)
LEMMA ChunkPassed ==
  ASSUME IInv, cur[1] \in Chunk, AllSwept
  PROVE  \A o \in Obj : InUse(o) /\ o[1] = cur[1] => Below(o, cur)
<1>1. TypeOK /\ StoreOK
  BY DEF IInv
<1> DEFINE c == cur[1]
<1>2. /\ c \in Int /\ cur[2] \in Int /\ Slots \in Int /\ cur = <<c, cur[2]>>
      /\ \A o \in Obj : o = <<o[1], o[2]>> /\ o[1] \in Int /\ o[2] \in 1 .. Slots
  BY <1>1, ChunkOrder
<1>3. ASSUME NEW o \in Obj, InUse(o), o[1] = c PROVE Below(o, cur)
  <2>1. CASE cur[2] = Slots + 1
    BY <1>2, <1>3, <2>1 DEF Below
  <2>2. CASE ~InUse(cur)
    <3>1. state[c] = "store" /\ Below(o, store[type[c]]) /\ ~Below(cur, store[type[c]])
      BY <1>3, <2>2 DEF InUse
    <3>2. store[type[c]] = <<c, Slots + 1 - store_left[type[c]]>> /\ store_left[type[c]] \in Int
      BY <1>1, <3>1 DEF StoreOK, TypeOK
    <3>3. PICK e \in Int : store[type[c]] = <<c, e>>
      BY <1>2, <3>2
    <3>4. o[2] < e /\ ~(cur[2] < e)
      BY <1>2, <1>3, <3>1, <3>3 DEF Below
    <3> QED
      BY <1>2, <1>3, <3>4 DEF Below
  <2> QED
    BY <2>1, <2>2 DEF AllSwept
<1> QED
  BY <1>3

(* The sweep of any other chunk has come past all its slots in use.        *)
LEMMA SweptOtherPart ==
  ASSUME IInv, PartInv, SweptOther PROVE PartInv'
<1> DEFINE c == cur[1]
<1>1. /\ pc \in {"sweep", "exit"} /\ c \in Chunk
      /\ ToSweep(c) => AllSwept
      /\ cur' = <<c + 1, 1>>
      /\ old_gc_free' = IF ToSweep(c + 1) THEN gc_free[type[c + 1]] ELSE <<>>
      /\ UNCHANGED <<state, type, flag, store, gc_free, fsocfl, fsoc_count, pc>>
  BY DEF SweptOther, Sweeping, EnterChunk, chunkVars, ceilVars
<1>2. TypeOK /\ StoreOK
  BY DEF IInv
<1>3. /\ c \in Int /\ cur[2] \in Int /\ Slots \in Int /\ cur = <<c, cur[2]>>
      /\ \A o \in Obj : /\ o = <<o[1], o[2]>> /\ o[1] \in Chunk
                        /\ o[1] \in Int /\ o[2] \in 1 .. Slots
      /\ \A o \in Obj : Below(o, <<c + 1, 1>>) <=> o[1] <= c
      /\ \A o \in Obj : o[1] # c => (Below(o, <<c + 1, 1>>) <=> Below(o, cur))
  BY <1>1, <1>2, ChunkOrder
<1>4. ASSUME NEW o \in Obj, InUse(o), o[1] = c PROVE Below(o, cur)
  BY <1>1, <1>4, ChunkPassed DEF InUse, ToSweep
<1>5. ASSUME pc = "sweep", NEW o \in Obj, NEW u \in Types, FreeSlot(o, u)', o[1] <= c
      PROVE  o \in Members(gc_free'[u])
  <2>1. FreeSlot(o, u) /\ InUse(o)
    BY <1>1, <1>5 DEF FreeSlot, InUse
  <2>2. Below(o, cur)
    BY <1>3, <1>4, <1>5, <2>1
  <2> QED
    BY <1>1, <1>5, <2>1, <2>2 DEF PartInv, FreeListsFull
<1>6. c + 1 \in Chunk /\ state'[c + 1] \in {"store", "used"} =>
        old_gc_free' = gc_free'[type[c + 1]]
  BY <1>1 DEF ToSweep
<1>7. FreeListsFull'
  BY <1>1, <1>5, <1>6, NextChunkPart
<1> QED
  BY <1>1, <1>7 DEF PartInv, FreeChunksFull, CountExact, Allocated

(* The sweep has passed everything.                                        *)
LEMMA EndSweepPart ==
  ASSUME IInv, PartInv, EndSweep PROVE PartInv'
<1>1. /\ pc \in {"sweep", "exit"} /\ cur[1] = NChunks + 1
      /\ pc' = IF pc = "exit" THEN "halt" ELSE IF req = <<>> THEN "run" ELSE "resume"
      /\ UNCHANGED <<state, type, flag, store, gc_free, fsocfl, fsoc_count>>
  BY DEF EndSweep, Sweeping, chunkVars, ceilVars
<1>2. \A o \in Obj : Below(o, cur)
  <2> SUFFICES ASSUME NEW o \in Obj PROVE Below(o, cur)
    OBVIOUS
  <2>1. o[1] \in Int /\ o[1] <= NChunks /\ NChunks \in Int
    BY FsoAssumption DEF Obj, Chunk
  <2> QED
    BY <1>1, <2>1 DEF Below
<1>3. \A o \in Obj, u \in Types : FreeSlot(o, u)' <=> FreeSlot(o, u)
  BY <1>1 DEF FreeSlot, InUse
<1>4. FreeListsFull'
  BY <1>1, <1>2, <1>3 DEF PartInv, FreeListsFull, AtRest
<1> QED
  BY <1>1, <1>4 DEF PartInv, FreeChunksFull, CountExact, Allocated
-----------------------------------------------------------------------------
LEMMA OtherPart ==
  ASSUME PartInv, Program \/ Exit \/ Halted \/ UNCHANGED vars PROVE PartInv'
<1>1. CASE Program
  <2>1. UNCHANGED heapVars
    BY <1>1 DEF Program, Assign, Load, LeaveScope, OnceResult, Switch
  <2> QED
    BY <2>1, SameHeap DEF heapVars, chunkVars, ceilVars, sweepVars, heapState, AtRest
<1>2. CASE Exit
  <2>1. pc' \in {"exit", "halt"} /\ UNCHANGED heapState
    BY <1>2 DEF Exit, heapState, chunkVars, ceilVars
  <2> QED
    BY <2>1, SameHeap DEF AtRest
<1>3. CASE Halted \/ UNCHANGED vars
  <2>1. UNCHANGED vars
    BY <1>3 DEF Halted
  <2> QED
    BY <2>1, SameHeap DEF vars, chunkVars, ceilVars, sweepVars, heapState, AtRest
<1> QED
  BY <1>1, <1>2, <1>3

LEMMA NextPart ==
  ASSUME SafeInstance, IInv, PartInv, [Next]_vars PROVE PartInv'
<1>1. CASE Allocate
  BY <1>1, AllocatePart
<1>2. CASE FullCollect
  BY <1>2, GcStartPart DEF FullCollect, AtRest
<1>3. CASE Collector
  BY <1>3, MarkPart, BeginSweepPart, SweepMarkedPart, SweepOtherPart, SweptDeadPart,
     SweptOtherPart, EndSweepPart, ResumePart DEF Collector
<1>4. CASE Program \/ Exit \/ Halted \/ UNCHANGED vars
  BY <1>4, OtherPart
<1> QED
  BY <1>1, <1>2, <1>3, <1>4 DEF Next

(* newXXX and gc_start together lose no slot and no chunk, and put none    *)
(* in two places: after every collection, whatever was allocated, the      *)
(* heap is exactly its objects, its free lists and its store chunks.       *)
THEOREM Partition == SafeInstance /\ Spec => []HeapPartition
<1>1. SafeInstance /\ Spec => [](IInv /\ PartInv)
  <2>1. ASSUME SafeInstance PROVE Spec => [](IInv /\ PartInv)
    <3>1. Init => IInv /\ PartInv
      BY InitIInv, InitPart
    <3>2. IInv /\ PartInv /\ [Next]_vars => (IInv /\ PartInv)'
      BY <2>1, NextIInv, NextPart
    <3> QED
      BY <3>1, <3>2, PTL DEF Spec
  <2> QED
    BY <2>1
<1>2. IInv /\ PartInv => HeapPartition
  <2> SUFFICES ASSUME IInv, PartInv, AtRest PROVE HeapPartition
    BY DEF HeapPartition
  <2>1. ~Marking /\ pc # "sweep"
    BY DEF AtRest, Marking
  <2>2. (\A o \in alloc : flag[o] = UNMARKED) /\ alloc = {o \in Obj : InUse(o) /\ flag[o] # NEXT}
    BY <2>1 DEF IInv, MarksOK, AllocOK
  <2>3. ASSUME NEW t \in Types
        PROVE  /\ Injective(gc_free[t])
               /\ Members(gc_free[t]) =
                    {o \in Obj : InUse(o) /\ flag[o] = NEXT /\ type[o[1]] = t}
    <3>1. gc_free[t] \in Seq(Obj)
      BY DEF IInv, TypeOK
    <3>2. /\ Injective(gc_free[t])
          /\ \A i \in DOMAIN gc_free[t] : FreeSlot(gc_free[t][i], t)
      BY <2>1 DEF IInv, FreeListsOK, AtRest
    <3>3. \A o \in Obj : FreeSlot(o, t) => o \in Members(gc_free[t])
      BY DEF PartInv, FreeListsFull
    <3> QED
      BY <3>1, <3>2, <3>3 DEF FreeSlot, Members
  <2>4. Injective(fsocfl) /\ Members(fsocfl) = {c \in Chunk : state[c] = "free"}
    <3>1. fsocfl \in Seq(Chunk) /\ Injective(fsocfl)
          /\ \A i \in DOMAIN fsocfl : state[fsocfl[i]] = "free"
      BY DEF IInv, TypeOK, FreeChunksOK
    <3> QED
      BY <3>1 DEF PartInv, FreeChunksFull, Members
  <2>5. ASSUME NEW c \in Chunk, state[c] = "store"
        PROVE  /\ store_chunk[type[c]] = c
               /\ store[type[c]] = <<c, Slots + 1 - store_left[type[c]]>>
               /\ store_left[type[c]] > 0
    BY <2>5, FsoAssumption DEF IInv, StoreOK
  <2>6. fsoc_count = Cardinality({c \in Chunk : state[c] # "none"})
    BY DEF PartInv, CountExact, Allocated
  <2> QED
    BY <2>2, <2>3, <2>4, <2>5, <2>6 DEF HeapPartition
<1> QED
  BY <1>1, <1>2, PTL
-----------------------------------------------------------------------------
(* The ceiling is positive: a doubled one has room for one chunk more.     *)
CeilInv == fsoc_count \in Nat /\ fsoc_count_ceil \in Nat \ {0} /\ FsocWithinCeil

LEMMA UpdatedCeilHigher ==
  ASSUME CeilInv
  PROVE  /\ UpdatedCeil(fsoc_count + 1) \in Nat \ {0}
         /\ fsoc_count + 1 <= UpdatedCeil(fsoc_count + 1)
<1> DEFINE n == fsoc_count + 1
<1>1. n \in Nat \ {0} /\ fsoc_count_ceil \in Nat \ {0} /\ n <= fsoc_count_ceil + 1
  BY DEF CeilInv, FsocWithinCeil
<1>2. n \div 3 \in Nat
  BY <1>1
<1>3. UpdatedCeil(n) \in Nat \ {0} /\ n <= UpdatedCeil(n)
  <2> HIDE DEF n
  <2>1. CASE Strategy = "low"
    BY <1>1, <2>1 DEF UpdatedCeil
  <2>2. CASE Strategy = "high"
    BY <1>1, <2>2 DEF UpdatedCeil
  <2>3. CASE Strategy = "default"
    <3> DEFINE third == n \div 3
    <3>1. third \in Nat
      BY <1>2
    <3>2. UpdatedCeil(n) = IF n < fsoc_count_ceil THEN fsoc_count_ceil
                           ELSE IF fsoc_count_ceil < FsocLimit THEN 2 * fsoc_count_ceil
                           ELSE IF fsoc_count_ceil < n + third THEN n + third
                           ELSE fsoc_count_ceil
      BY <2>3 DEF UpdatedCeil
    <3> HIDE DEF third
    <3> QED
      BY <1>1, <3>1, <3>2, FsoAssumption
  <2> QED
    BY <2>1, <2>2, <2>3, FsoAssumption
<1> QED
  BY <1>3

LEMMA NextCeil ==
  ASSUME CeilInv, [Next]_vars PROVE CeilInv'
<1>1. CASE UNCHANGED ceilVars
  BY <1>1 DEF CeilInv, FsocWithinCeil, ceilVars
<1>2. ASSUME NEW t, NEW w, NewFromGet1(t, w) PROVE CeilInv'
  <2>1. CASE TakeFreeChunk(t, w)
    BY <1>1, <2>1 DEF TakeFreeChunk
  <2>2. CASE fsoc_count_ceil > fsoc_count /\ MallocChunk(t, w) /\ UNCHANGED fsoc_count_ceil
    BY <2>2 DEF CeilInv, FsocWithinCeil, MallocChunk
  <2> QED
    BY <1>2, <2>1, <2>2 DEF NewFromGet1
<1>3. CASE ResumeGet2
  <2>1. CASE TakeFreeChunk(req[1], req[2])
    BY <1>1, <2>1 DEF TakeFreeChunk
  <2>2. CASE MallocChunk(req[1], req[2]) /\ fsoc_count_ceil' = UpdatedCeil(fsoc_count + 1)
    BY <2>2, UpdatedCeilHigher DEF CeilInv, FsocWithinCeil, MallocChunk
  <2> QED
    BY <1>3, <2>1, <2>2 DEF ResumeGet2
<1>4. ASSUME NEW r, GcStart(r) PROVE CeilInv'
  <2>1. fsoc_count' = fsoc_count /\ fsoc_count_ceil' \in {fsoc_count_ceil, fsoc_count_ceil + 1}
    BY <1>4 DEF GcStart, StartMarking, ceilVars
  <2> QED
    BY <2>1 DEF CeilInv, FsocWithinCeil
<1>5. CASE Allocate
  BY <1>1, <1>2, <1>4, <1>5 DEF Allocate, NewFromStore, NewFromFree, PopFree, NewLast,
                               NewCollects, NewFails, OutOfMemory
<1>6. CASE FullCollect
  BY <1>4, <1>6 DEF FullCollect
<1>7. CASE Collector
  BY <1>1, <1>3, <1>7 DEF Collector, MarkAttributes, MarkStack, BeginSweep, SweepMarked,
     SweepOther, SweptDead, SweptOther, EndSweep, ResumeFree, PopFree, ResumeFails, OutOfMemory
<1>8. CASE Program
  BY <1>1, <1>8 DEF Program, Assign, Load, LeaveScope, OnceResult, Switch, heapVars
<1>9. CASE Exit \/ Halted \/ UNCHANGED vars
  BY <1>1, <1>9 DEF Exit, Halted, vars
<1> QED
  BY <1>5, <1>6, <1>7, <1>8, <1>9 DEF Next

(* gc_fsoc_get2 makes a chunk whatever the ceiling, but gc_update_ceils    *)
(* follows: fsoc_count is within fsoc_count_ceil under every strategy.     *)
THEOREM WithinCeil == Spec => []FsocWithinCeil
<1>1. Init => CeilInv
  BY FsoAssumption DEF Init, CeilInv, FsocWithinCeil
<1>2. CeilInv /\ [Next]_vars => CeilInv'
  BY NextCeil
<1>3. CeilInv => FsocWithinCeil
  BY DEF CeilInv
<1> QED
  BY <1>1, <1>2, <1>3, PTL DEF Spec
-----------------------------------------------------------------------------
(* FsoHeap implements ManagedHeap.                                         *)
LEMMA NilFresh == Nil \notin Obj
BY FsoAssumption DEF Nil, Obj, Chunk

(* What the program sees is the same, if the objects that stay are.        *)
LEMMA SameView ==
  ASSUME Alive' = Alive, Ended' = Ended, UNCHANGED <<word, live, global>>,
         \A o \in Alive : type'[o[1]] = type[o[1]],
         \A o \in Alive, f \in Fields :
           \/ attr'[o][f] = attr[o][f]
           \/ attr[o][f] \notin Alive /\ attr'[o][f] = Nil
  PROVE  UNCHANGED Abstract!vars
<1>1. AbstractWeak' = AbstractWeak
  BY DEF AbstractWeak
<1>2. AbstractWord' = AbstractWord
  BY DEF AbstractWord
<1>3. AbstractAttr' = AbstractAttr
  <2>1. ASSUME NEW o \in Obj, NEW f \in Fields
        PROVE  (IF o \in Alive' /\ attr'[o][f] \in Alive' THEN attr'[o][f] ELSE Nil)
               = (IF o \in Alive /\ attr[o][f] \in Alive THEN attr[o][f] ELSE Nil)
    OBVIOUS
  <2> QED
    BY <2>1 DEF AbstractAttr
<1> QED
  BY <1>1, <1>2, <1>3 DEF Abstract!vars

(* newXXX has put the new object n in w.                                   *)
LEMMA CreateStep ==
  ASSUME IInv, AtRest, NEW n \in Obj, NEW w \in Words, n \notin alloc, Return(n, w),
         \A o \in alloc : type'[o[1]] = type[o[1]]
  PROVE  \E W \in {{}, {n}} : Abstract!Create(n, w, W)
<1>1. /\ attr' = [attr EXCEPT ![n] = [f \in Fields |-> Nil]]
      /\ word' = [word EXCEPT ![w] = n] /\ live' = [live EXCEPT ![w] = TRUE]
      /\ alloc' = alloc \cup {n} /\ pc' = "run" /\ global' = global
  BY DEF Return
<1>2. /\ attr \in [Obj -> [Fields -> Ref]] /\ alloc \in SUBSET Obj
      /\ word \in [Words -> Ref] /\ live \in [Words -> BOOLEAN]
  BY DEF IInv, TypeOK
<1>3. Alive = alloc /\ Alive' = alloc \cup {n} /\ ~Ended /\ ~Ended'
  BY <1>1 DEF Alive, Ended, AtRest
<1>4. AbstractWord' = [AbstractWord EXCEPT ![w] = n]
  BY <1>1, <1>2 DEF AbstractWord
<1>5. AbstractAttr' = AbstractAttr
  <2>1. ASSUME NEW o \in Obj, NEW f \in Fields
        PROVE  (IF o \in Alive' /\ attr'[o][f] \in Alive' THEN attr'[o][f] ELSE Nil)
               = (IF o \in Alive /\ attr[o][f] \in Alive THEN attr[o][f] ELSE Nil)
    <3>1. CASE o = n
      BY <1>1, <1>2, <1>3, <3>1
    <3>2. CASE o \in alloc
      <4>1. attr'[o][f] = attr[o][f] /\ attr[o][f] \in alloc \cup {Nil}
        BY <1>1, <1>2, <3>2 DEF IInv, ClosedOK, WeakClosed
      <4> QED
        BY <1>3, <3>2, <4>1
    <3>3. CASE o # n /\ o \notin alloc
      BY <1>3, <3>3
    <3> QED
      BY <3>1, <3>2, <3>3
  <2> QED
    BY <2>1 DEF AbstractAttr
<1> DEFINE W == IF type'[n[1]] \in WeakTypes THEN {n} ELSE {}
<1>6. AbstractWeak' = AbstractWeak \cup W
  BY <1>3 DEF AbstractWeak
<1>7. Abstract!Create(n, w, W)
  BY <1>1, <1>3, <1>4, <1>5, <1>6 DEF Abstract!Create
<1> QED
  BY <1>7

(* Every path of newXXX that returns an object creates one.                *)
LEMMA CreateNext ==
  ASSUME NEW n \in Obj, NEW w \in Words, \E W \in {{}, {n}} : Abstract!Create(n, w, W)
  PROVE  Abstract!Next
BY DEF Abstract!Next

LEMMA NewStep ==
  ASSUME IInv, SafeInstance, NEW t \in Types, NEW w \in Words,
         NewFromStore(t, w) \/ NewLast(t, w)
  PROVE  Abstract!Next
<1>1. TypeOK /\ StoreOK /\ AllocOK
  BY DEF IInv
<1>2. store_left[t] \in Int /\ Slots \in Int
  BY <1>1, FsoAssumption DEF TypeOK
<1>3. /\ pc = "run" /\ store_left[t] > 0 /\ Return(store[t], w) /\ type' = type
  <2>1. CASE NewFromStore(t, w)
    BY <1>2, <2>1 DEF NewFromStore, StoreHasMany
  <2>2. CASE NewLast(t, w)
    BY <1>2, <2>2 DEF NewLast
  <2> QED
    BY <2>1, <2>2
<1>4. /\ state[store_chunk[t]] = "store" /\ type[store_chunk[t]] = t
      /\ store[t] = <<store_chunk[t], Slots + 1 - store_left[t]>> /\ store[t] \in Obj
  BY <1>1, <1>3, StoreFacts
<1>5. store[t] \notin alloc
  <2>1. ~Below(store[t], store[t])
    BY <1>4, Order
  <2> QED
    BY <1>1, <1>4, <2>1 DEF AllocOK, InUse
<1> QED
  BY <1>3, <1>4, <1>5, CreateStep, CreateNext DEF AtRest

LEMMA PopFreeStep ==
  ASSUME IInv, AtRest, NEW t \in Types, NEW w \in Words, PopFree(t, w)
  PROVE  Abstract!Next
<1> DEFINE n == Top(gc_free[t])
<1>1. gc_free[t] # <<>> /\ Return(n, w) /\ type' = type
  BY DEF PopFree, chunkVars
<1>2. /\ gc_free[t] \in Seq(Obj) /\ Injective(gc_free[t])
      /\ \A i \in DOMAIN gc_free[t] : FreeSlot(gc_free[t][i], t)
  BY DEF IInv, TypeOK, FreeListsOK, AtRest
<1>3. n \in Obj /\ FreeSlot(n, t)
  <2>1. n \in Obj /\ Len(gc_free[t]) \in DOMAIN gc_free[t] /\ n = gc_free[t][Len(gc_free[t])]
    BY <1>1, <1>2, PopFacts
  <2> QED
    BY <1>2, <2>1
<1>4. n \notin alloc
  BY <1>3 DEF IInv, AllocOK, FreeSlot
<1> HIDE DEF n
<1> QED
  BY <1>1, <1>3, <1>4, CreateStep, CreateNext

LEMMA CarveStep ==
  ASSUME IInv, AtRest, NEW t \in Types, NEW w \in Words, NEW c \in Chunk,
         Carve(t, w, c), state[c] \in {"none", "free"}
  PROVE  Abstract!Next
<1>1. type' = [type EXCEPT ![c] = t] /\ Return(<<c, 1>>, w)
  BY DEF Carve
<1>2. \A o \in alloc : o \in Obj /\ o[1] \in Chunk /\ o[1] # c
  BY DEF IInv, AllocOK, InUse, Obj
<1>3. <<c, 1>> \in Obj /\ <<c, 1>> \notin alloc
  BY <1>2, FsoAssumption DEF Obj, Slot
<1>4. \A o \in alloc : type'[o[1]] = type[o[1]]
  BY <1>1, <1>2 DEF IInv, TypeOK
<1> QED
  BY <1>1, <1>3, <1>4, CreateStep, CreateNext

LEMMA TakeFreeChunkStep ==
  ASSUME IInv, AtRest, NEW t \in Types, NEW w \in Words, TakeFreeChunk(t, w)
  PROVE  Abstract!Next
<1> DEFINE c == Top(fsocfl)
<1>1. fsocfl \in Seq(Chunk) /\ fsocfl # <<>> /\ Injective(fsocfl) /\ Carve(t, w, c)
  BY DEF TakeFreeChunk, IInv, TypeOK, FreeChunksOK
<1>2. c \in Chunk /\ state[c] = "free"
  <2>1. c \in Chunk /\ Len(fsocfl) \in DOMAIN fsocfl /\ c = fsocfl[Len(fsocfl)]
    BY <1>1, PopFacts
  <2> QED
    BY <2>1 DEF IInv, FreeChunksOK
<1> HIDE DEF c
<1> QED
  BY <1>1, <1>2, CarveStep

LEMMA MallocChunkStep ==
  ASSUME IInv, AtRest, NEW t \in Types, NEW w \in Words, MallocChunk(t, w)
  PROVE  Abstract!Next
BY CarveStep DEF MallocChunk

(* The program ends, in the middle of newXXX or by itself.                 *)
LEMMA TerminateStep ==
  ASSUME pc' \in {"exit", "halt"}, UNCHANGED <<word, live, global>>
  PROVE  Abstract!Next
<1>1. Ended' /\ Alive' = {}
  BY DEF Ended, Alive
<1>2. AbstractWeak' = {} /\ AbstractWord' = AbstractWord
  BY <1>1 DEF AbstractWeak, AbstractWord
<1>3. AbstractAttr' = [o \in Obj |-> [f \in Fields |-> Nil]]
  BY <1>1 DEF AbstractAttr
<1>4. Abstract!Terminate
  BY <1>1, <1>2, <1>3 DEF Abstract!Terminate, Abstract!NoAttributes
<1> QED
  BY <1>4 DEF Abstract!Next

(* gc_start and the mark phase are invisible.                              *)
LEMMA InvisibleStep ==
  ASSUME pc \in {"run", "resume", "mark_globals", "mark_stack"},
         pc' \in {"run", "resume", "mark_globals", "mark_stack"},
         UNCHANGED <<type, attr, word, live, global, alloc>>
  PROVE  UNCHANGED Abstract!vars
<1>1. Alive' = Alive /\ Ended' = Ended
  BY DEF Alive, Ended
<1> QED
  BY <1>1, SameView

LEMMA GcStartStep ==
  ASSUME AtRest, NEW r, GcStart(r) PROVE UNCHANGED Abstract!vars
<1>1. pc' \in {"run", "resume", "mark_globals"}
  BY DEF GcStart, StartMarking
<1> QED
  BY <1>1, InvisibleStep DEF AtRest, GcStart, chunkVars, progVars, histVars

LEMMA AllocateStep ==
  ASSUME IInv, SafeInstance, Allocate
  PROVE  Abstract!Next \/ UNCHANGED Abstract!vars
<1>1. PICK t \in Types, w \in Words :
        \/ NewFromStore(t, w) \/ NewFromFree(t, w) \/ NewLast(t, w)
        \/ NewFromGet1(t, w) \/ NewCollects(t, w) \/ NewFails(t)
  BY DEF Allocate
<1>2. CASE NewFromStore(t, w) \/ NewLast(t, w)
  BY <1>2, NewStep
<1>3. CASE NewFromFree(t, w)
  BY <1>3, PopFreeStep DEF NewFromFree, AtRest
<1>4. CASE NewFromGet1(t, w)
  BY <1>4, TakeFreeChunkStep, MallocChunkStep DEF NewFromGet1, AtRest
<1>5. CASE NewCollects(t, w)
  BY <1>5, GcStartStep DEF NewCollects, AtRest
<1>6. CASE NewFails(t)
  BY <1>6, TerminateStep DEF NewFails, OutOfMemory, progVars
<1> QED
  BY <1>1, <1>2, <1>3, <1>4, <1>5, <1>6

LEMMA ResumeStep ==
  ASSUME IInv, ResumeFree \/ ResumeGet2 \/ ResumeFails PROVE Abstract!Next
<1>1. pc = "resume" /\ AtRest
  BY DEF ResumeFree, ResumeGet2, ResumeFails, AtRest
<1>2. req # <<>> /\ req \in (Types \X Words) \cup {<<>>}
  BY <1>1 DEF IInv, ControlOK, TypeOK
<1>3. PICK t \in Types, w \in Words : t = req[1] /\ w = req[2]
  BY <1>2
<1>4. CASE ResumeFree
  BY <1>1, <1>3, <1>4, PopFreeStep DEF ResumeFree
<1>5. CASE ResumeGet2
  BY <1>1, <1>3, <1>5, TakeFreeChunkStep, MallocChunkStep DEF ResumeGet2
<1>6. CASE ResumeFails
  BY <1>6, TerminateStep DEF ResumeFails, OutOfMemory, progVars
<1> QED
  BY <1>4, <1>5, <1>6

(* The program's own steps are those of the abstract program.              *)
LEMMA ProgramView ==
  ASSUME IInv, pc = "run"
  PROVE  /\ Alive = alloc /\ ~Ended /\ alloc \in SUBSET Obj
         /\ \A w \in Words : AbstractWord[w] \in alloc \cup {Nil}
         /\ \A o \in alloc, f \in Fields : AbstractAttr[o][f] = attr[o][f]
         /\ Held = Abstract!Held /\ Held \subseteq alloc
<1>1. Alive = alloc /\ ~Ended /\ Closed(alloc) /\ WeakClosed(alloc) /\ alloc \in SUBSET Obj
  BY DEF Alive, Ended, IInv, ClosedOK, AtRest, TypeOK
<1>2. \A w \in Words : AbstractWord[w] \in alloc \cup {Nil}
  BY <1>1 DEF AbstractWord, Closed
<1>3. \A o \in alloc, f \in Fields : AbstractAttr[o][f] = attr[o][f]
  BY <1>1 DEF AbstractAttr, WeakClosed
<1>4. Held = Abstract!Held
  <2>1. {word[w] : w \in {v \in Words : live[v]}} \ {Nil}
        = {AbstractWord[w] : w \in Words} \ {Nil}
    BY DEF AbstractWord
  <2> QED
    BY <2>1 DEF Held, Abstract!Held
<1>5. Held \subseteq alloc
  BY <1>1 DEF Held, Closed
<1> QED
  BY <1>1, <1>2, <1>3, <1>4, <1>5

LEMMA AssignStep ==
  ASSUME IInv, NEW o \in Held, NEW f \in Fields, NEW x \in Held \cup {Nil}, Assign(o, f, x)
  PROVE  Abstract!Next
<1>1. /\ pc = "run" /\ attr' = [attr EXCEPT ![o][f] = x]
      /\ UNCHANGED <<type, alloc, pc, word, live, global>>
  BY DEF Assign, heapVars, chunkVars, histVars, progVars
<1>2. /\ Alive = alloc /\ ~Ended /\ alloc \in SUBSET Obj
      /\ Held = Abstract!Held /\ Held \subseteq alloc
  BY <1>1, ProgramView
<1>3. Alive' = Alive /\ Ended' = Ended
  BY <1>1 DEF Alive, Ended
<1>4. AbstractAttr' = [AbstractAttr EXCEPT ![o][f] = x]
  <2>1. attr \in [Obj -> [Fields -> Ref]]
    BY DEF IInv, TypeOK
  <2>2. ASSUME NEW p \in Obj, NEW g \in Fields
        PROVE  AbstractAttr'[p][g] = [AbstractAttr EXCEPT ![o][f] = x][p][g]
    <3>1. CASE p = o /\ g = f
      <4>1. attr'[p][g] = x /\ [AbstractAttr EXCEPT ![o][f] = x][p][g] = x
        BY <1>1, <2>1, <3>1 DEF AbstractAttr
      <4>2. p \in Alive /\ (x \in Alive \/ x = Nil)
        BY <1>2, <3>1
      <4> QED
        BY <1>3, <4>1, <4>2 DEF AbstractAttr
    <3>2. CASE ~(p = o /\ g = f)
      <4>1. attr'[p][g] = attr[p][g]
        BY <1>1, <2>1, <3>2
      <4>2. [AbstractAttr EXCEPT ![o][f] = x][p][g] = AbstractAttr[p][g]
        BY <3>2 DEF AbstractAttr
      <4> QED
        BY <1>3, <4>1, <4>2 DEF AbstractAttr
    <3> QED
      BY <3>1, <3>2
  <2>3. /\ AbstractAttr' = [p \in Obj |-> [g \in Fields |-> AbstractAttr'[p][g]]]
        /\ [AbstractAttr EXCEPT ![o][f] = x]
           = [p \in Obj |-> [g \in Fields |-> [AbstractAttr EXCEPT ![o][f] = x][p][g]]]
    BY DEF AbstractAttr
  <2> QED
    BY <2>2, <2>3
<1>5. AbstractWeak' = AbstractWeak /\ AbstractWord' = AbstractWord
  BY <1>1, <1>3 DEF AbstractWeak, AbstractWord
<1>6. Abstract!Assign(o, f, x)
  BY <1>1, <1>2, <1>3, <1>4, <1>5 DEF Abstract!Assign
<1> QED
  BY <1>2, <1>6 DEF Abstract!Next

LEMMA WordStep ==
  ASSUME IInv, NEW w \in Words,
         \/ \E v \in Words, f \in Fields : Load(w, f, v)
         \/ LeaveScope(w)
         \/ \E g \in Globals : OnceResult(g, w)
  PROVE  Abstract!Next
<1>1. pc = "run" /\ UNCHANGED <<type, alloc, pc, attr>>
  BY DEF Load, LeaveScope, OnceResult, heapVars, chunkVars, histVars
<1>2. /\ Alive = alloc /\ ~Ended
      /\ \A o \in alloc, f \in Fields : AbstractAttr[o][f] = attr[o][f]
      /\ \A u \in Words : AbstractWord[u] \in alloc \cup {Nil}
  BY <1>1, ProgramView
<1>3. /\ Alive' = Alive /\ Ended' = Ended
      /\ AbstractWeak' = AbstractWeak /\ AbstractAttr' = AbstractAttr
  BY <1>1 DEF Alive, Ended, AbstractWeak, AbstractAttr
<1>4. word \in [Words -> Ref] /\ live \in [Words -> BOOLEAN]
  BY DEF IInv, TypeOK
<1>5. ASSUME NEW v \in Words, NEW f \in Fields, Load(w, f, v) PROVE Abstract!Load(w, f, v)
  <2>1. /\ live[w] /\ word[w] # Nil /\ word' = [word EXCEPT ![v] = attr[word[w]][f]]
        /\ live' = [live EXCEPT ![v] = TRUE] /\ global' = global
    BY <1>5 DEF Load
  <2>2. AbstractWord[w] = word[w] /\ word[w] \in alloc
    BY <1>2, <2>1 DEF AbstractWord
  <2>3. AbstractAttr[word[w]][f] = attr[word[w]][f]
    BY <1>2, <2>2
  <2>4. AbstractWord' = [AbstractWord EXCEPT ![v] = attr[word[w]][f]]
    BY <1>4, <2>1 DEF AbstractWord
  <2> QED
    BY <1>2, <1>3, <2>1, <2>2, <2>3, <2>4 DEF Abstract!Load
<1>6. ASSUME LeaveScope(w) PROVE Abstract!Forget(w)
  <2>1. AbstractWord' = [AbstractWord EXCEPT ![w] = Nil]
    BY <1>4, <1>6 DEF LeaveScope, AbstractWord
  <2> QED
    BY <1>2, <1>3, <1>6, <2>1 DEF LeaveScope, Abstract!Forget
<1>7. ASSUME NEW g \in Globals, OnceResult(g, w) PROVE Abstract!OnceResult(g, w)
  <2>1. AbstractWord' = AbstractWord /\ AbstractWord[w] = word[w]
    BY <1>7 DEF OnceResult, AbstractWord
  <2> QED
    BY <1>2, <1>3, <1>7, <2>1 DEF OnceResult, Abstract!OnceResult
<1> QED
  BY <1>5, <1>6, <1>7 DEF Abstract!Next

LEMMA ProgramStep ==
  ASSUME IInv, Program PROVE Abstract!Next \/ UNCHANGED Abstract!vars
<1>1. CASE Switch
  <2>1. pc = "run" /\ UNCHANGED <<type, attr, word, live, global, alloc, pc>>
    BY <1>1 DEF Switch, heapVars, chunkVars, histVars, progVars
  <2> QED
    BY <2>1, InvisibleStep
<1> QED
  BY <1>1, AssignStep, WordStep DEF Program

(* When the sweep begins, what is not marked disappears.                   *)
LEMMA BeginSweepStep ==
  ASSUME IInv, BeginSweep PROVE Abstract!Next
<1>1. /\ pc = "mark_stack" /\ pc' = "sweep" /\ cur' = <<1, 1>>
      /\ UNCHANGED <<type, flag, attr, word, live, global, alloc>>
  BY DEF BeginSweep, EnterChunk, chunkVars, progVars, histVars
<1>2. Alive = alloc /\ alloc \in SUBSET Obj /\ WeakClosed(alloc) /\ ~Ended /\ ~Ended'
  BY <1>1 DEF Alive, Ended, IInv, ClosedOK, Marking, TypeOK
<1>3. \A o \in Obj : ~Below(o, cur')
  <2> SUFFICES ASSUME NEW o \in Obj PROVE ~Below(o, <<1, 1>>)
    BY <1>1
  <2>1. o[1] \in Int /\ o[1] >= 1 /\ o[2] \in Int /\ o[2] >= 1
    BY FsoAssumption DEF Obj, Chunk, Slot
  <2> QED
    BY <2>1 DEF Below
<1> DEFINE S == {o \in alloc : flag[o] = MARKED}
<1>4. Alive' = S /\ Survivors' = S
  BY <1>1, <1>2, <1>3 DEF Alive, Ended, Survives, Survivors
<1>5. Closed(S)
  <2>1. Closed(Survivors)'
    BY <1>1, BeginSweepIInv DEF IInv, SweepOK
  <2> QED
    BY <1>1, <1>4, <2>1 DEF Closed
<1>6. S \subseteq Alive /\ Nil \notin S
  BY <1>2, NilFresh
<1> HIDE DEF S
<1>7. \A o \in Alive, f \in Fields : AbstractAttr[o][f] = attr[o][f]
  BY <1>2 DEF AbstractAttr, WeakClosed
<1>8. Abstract!Keeps(S)
  <2>1. \A w \in Words : AbstractWord[w] \in S \cup {Nil}
    BY <1>5 DEF Closed, AbstractWord
  <2>2. \A g \in Globals : global[g] \in S \cup {Nil}
    BY <1>5 DEF Closed
  <2>3. \A o \in S \ AbstractWeak, f \in Fields : AbstractAttr[o][f] \in S \cup {Nil}
    BY <1>5, <1>6, <1>7 DEF Closed, AbstractWeak
  <2> QED
    BY <2>1, <2>2, <2>3 DEF Abstract!Keeps
<1>9. AbstractWeak' = AbstractWeak \cap S /\ AbstractWord' = AbstractWord
  BY <1>1, <1>4, <1>6 DEF AbstractWeak, AbstractWord
<1>10. AbstractAttr' = [o \in Obj |-> [f \in Fields |->
         IF o \in S /\ AbstractAttr[o][f] \in S THEN AbstractAttr[o][f] ELSE Nil]]
  <2>1. ASSUME NEW o \in Obj, NEW f \in Fields
        PROVE  (IF o \in Alive' /\ attr'[o][f] \in Alive' THEN attr'[o][f] ELSE Nil)
               = (IF o \in S /\ AbstractAttr[o][f] \in S THEN AbstractAttr[o][f] ELSE Nil)
    BY <1>1, <1>4, <1>6, <1>7
  <2> QED
    BY <2>1 DEF AbstractAttr
<1>11. Abstract!Reclaim(S)
  BY <1>1, <1>2, <1>4, <1>6, <1>8, <1>9, <1>10 DEF Abstract!Reclaim
<1> QED
  BY <1>6, <1>11 DEF Abstract!Next

(* A step of the sweep is invisible if it changes nothing of the objects   *)
(* that stay.                                                              *)
LEMMA SweepView ==
  ASSUME pc \in {"sweep", "exit"}, pc' = pc, UNCHANGED <<type, word, live, global>>,
         pc = "sweep" =>
           /\ Survivors' = Survivors
           /\ \A o \in Survivors, f \in Fields :
                \/ attr'[o][f] = attr[o][f]
                \/ attr[o][f] \notin Survivors /\ attr'[o][f] = Nil
  PROVE  UNCHANGED Abstract!vars
<1>1. pc = "sweep" => Alive = Survivors /\ Alive' = Survivors'
  BY DEF Alive, Ended, Survives, Survivors
<1>2. pc = "exit" => Alive = {} /\ Alive' = {}
  BY DEF Alive, Ended
<1>3. Alive' = Alive /\ Ended' = Ended
  BY <1>1, <1>2 DEF Ended
<1> QED
  BY <1>1, <1>2, <1>3, SameView

(* A step of the sweep takes no object away but those that do not stay,    *)
(* and changes nothing of the others but weak references to what goes.     *)
SweepKeeps ==
  /\ pc \in {"sweep", "exit"} /\ pc' = pc /\ UNCHANGED <<type, word, live, global>>
  /\ Survivors' = Survivors /\ alloc' \subseteq alloc
  /\ \A o \in Survivors, f \in Fields :
       \/ attr'[o][f] = attr[o][f]
       \/ /\ attr[o][f] \notin Survivors /\ attr'[o][f] = Nil
          /\ type[o[1]] \in WeakTypes
  /\ pc = "exit" => \A o \in alloc' : Below(o, cur') => Below(o, cur)

(* The repair of a weak reference: its item is lost only if it is not one  *)
(* of those that stay.                                                     *)
LEMMA SweepMarkedKeeps ==
  ASSUME IInv, SafeInstance, SweepMarked PROVE SweepKeeps
<1> DEFINE fl == [flag EXCEPT ![cur] = UNMARKED]
<1>1. /\ pc \in {"sweep", "exit"} /\ pc' = pc /\ cur[1] \in Chunk /\ cur[2] \in Slot
      /\ InUse(cur) /\ flag[cur] = MARKED /\ flag' = fl
      /\ attr' = IF type[cur[1]] \in WeakTypes
                 THEN [attr EXCEPT ![cur] =
                         [f \in Fields |-> IF LostItem(attr[cur][f], cur, fl)
                                           THEN Nil ELSE attr[cur][f]]]
                 ELSE attr
      /\ cur' = <<cur[1], cur[2] + 1>>
      /\ UNCHANGED <<type, word, live, global, alloc>>
  BY DEF SweepMarked, Sweeping, ToSweep, chunkVars, progVars, histVars
<1>0. pc = "sweep"
  BY SweepMarkedInSweep
<1>2. TypeOK /\ AllocOK /\ MarksOK
  BY DEF IInv
<1>3. cur = <<cur[1], cur[2]>> /\ cur \in Obj /\ cur \in alloc /\ alloc \in SUBSET Obj
  BY <1>1, <1>2 DEF TypeOK, Obj, AllocOK, MARKED, NEXT
<1>4. /\ fl[cur] = UNMARKED /\ \A o \in Obj : o # cur => fl[o] = flag[o]
  BY <1>2, <1>3 DEF TypeOK
<1>5. \A o \in Obj : Below(o, cur') <=> Below(o, cur) \/ o = cur
  BY <1>1, <1>3, Order
<1>6. Survivors' = Survivors
  BY <1>1, <1>3, <1>4, <1>5 DEF Survivors
<1>7. ASSUME type[cur[1]] \in WeakTypes, NEW i \in Survivors
      PROVE  ~LostItem(i, cur, fl)
  <2>1. i \in Obj /\ i \in alloc
    BY <1>3 DEF Survivors
  <2>2. ~Monomorphic(type[cur[1]])
    BY <1>7 DEF SafeInstance
  <2>3. CASE Below(i, cur)
    <3>1. flag[i] = UNMARKED
      BY <1>0, <1>2, <1>7, <2>1, <2>3 DEF MarksOK, Marking
    <3>2. fl[i] = UNMARKED /\ ~Below(cur, i)
      BY <1>3, <1>4, <2>1, <2>3, <3>1, Order
    <3> QED
      BY <2>2, <3>2 DEF LostItem, LostPolymorph, Swept
  <2>4. CASE i = cur
    <3>1. ~Below(cur, i)
      BY <1>3, <2>4, Order
    <3> QED
      BY <1>4, <2>2, <2>4, <3>1 DEF LostItem, LostPolymorph, Swept
  <2>5. CASE Below(cur, i)
    <3>1. ~Below(i, cur) /\ i # cur
      BY <1>3, <2>1, <2>5, Order
    <3>2. fl[i] = MARKED
      BY <1>4, <1>7, <2>1, <3>1 DEF Survivors
    <3> QED
      BY <2>2, <2>5, <3>2 DEF LostItem, LostPolymorph, Swept, MARKED, UNMARKED
  <2> QED
    BY <1>3, <2>1, <2>3, <2>4, <2>5, Order
<1> HIDE DEF fl
<1>8. ASSUME NEW o \in Survivors, NEW f \in Fields
      PROVE  \/ attr'[o][f] = attr[o][f]
             \/ /\ attr[o][f] \notin Survivors /\ attr'[o][f] = Nil
                /\ type[o[1]] \in WeakTypes
  <2>1. o \in Obj /\ attr \in [Obj -> [Fields -> Ref]]
    BY <1>2, <1>3 DEF Survivors, TypeOK
  <2>2. CASE o # cur \/ type[cur[1]] \notin WeakTypes
    BY <1>1, <2>1, <2>2
  <2>3. CASE o = cur /\ type[cur[1]] \in WeakTypes
    <3>1. attr'[o][f] = IF LostItem(attr[o][f], cur, fl) THEN Nil ELSE attr[o][f]
      BY <1>1, <2>1, <2>3
    <3> QED
      BY <1>7, <2>3, <3>1
  <2> QED
    BY <2>2, <2>3
<1> QED
  BY <1>0, <1>1, <1>6, <1>8 DEF SweepKeeps

LEMMA SweepOtherKeeps ==
  ASSUME IInv, SweepOther PROVE SweepKeeps
<1>1. /\ pc \in {"sweep", "exit"} /\ pc' = pc /\ cur[1] \in Chunk /\ cur[2] \in Slot
      /\ flag[cur] # MARKED /\ alloc' = alloc \ {cur}
      /\ flag' = [flag EXCEPT ![cur] = NEXT]
      /\ attr' = [attr EXCEPT ![cur] = [f \in Fields |-> Nil]]
      /\ cur' = <<cur[1], cur[2] + 1>>
      /\ UNCHANGED <<type, word, live, global>>
  BY DEF SweepOther, Sweeping, ToSweep, chunkVars, progVars
<1>2. TypeOK
  BY DEF IInv
<1>3. cur = <<cur[1], cur[2]>> /\ cur \in Obj /\ alloc \in SUBSET Obj
  BY <1>1, <1>2 DEF TypeOK, Obj
<1>4. \A o \in Obj : Below(o, cur') <=> Below(o, cur) \/ o = cur
  BY <1>1, <1>3, Order
<1>5. cur \notin Survivors
  BY <1>1, <1>3, Order DEF Survivors
<1>6. /\ \A o \in Obj : o # cur => flag'[o] = flag[o]
      /\ \A o \in Obj : o # cur => attr'[o] = attr[o]
  BY <1>1, <1>2 DEF TypeOK
<1>7. Survivors' = Survivors
  BY <1>1, <1>3, <1>4, <1>5, <1>6 DEF Survivors
<1>8. \A o \in Survivors : attr'[o] = attr[o]
  BY <1>3, <1>5, <1>6 DEF Survivors
<1> QED
  BY <1>1, <1>3, <1>4, <1>7, <1>8 DEF SweepKeeps

(* A dead chunk has no object left, and the others keep theirs.            *)
LEMMA NextChunkKeeps ==
  ASSUME IInv, SweptDead \/ SweptOther PROVE SweepKeeps
<1> DEFINE c == cur[1]
<1>1. /\ pc \in {"sweep", "exit"} /\ pc' = pc /\ c \in Chunk /\ cur' = <<c + 1, 1>>
      /\ ToSweep(c) => AllSwept
      /\ UNCHANGED <<type, flag, attr, word, live, global>>
  BY DEF SweptDead, SweptOther, Sweeping, ToSweep, EnterChunk, chunkVars, progVars
<1>2. TypeOK /\ AllocOK /\ DeadOK
  BY DEF IInv
<1>3. /\ c \in Int /\ cur[2] \in Int /\ Slots \in Int /\ cur = <<c, cur[2]>>
      /\ \A o \in Obj : o = <<o[1], o[2]>> /\ o[1] \in Int /\ o[2] \in 1 .. Slots
      /\ \A o \in Obj : Below(o, <<c + 1, 1>>) <=> o[1] <= c
      /\ \A o \in Obj : o[1] # c => (Below(o, <<c + 1, 1>>) <=> Below(o, cur))
  BY <1>1, <1>2, ChunkOrder
<1>4. \A o \in alloc : o \in Obj /\ InUse(o) /\ flag[o] # NEXT
  BY <1>2 DEF AllocOK
<1>5. ASSUME NEW o \in alloc PROVE Below(o, cur') <=> Below(o, cur)
  <2>1. CASE o[1] = c
    <3>1. Below(o, cur)
      BY <1>1, <1>4, <2>1, ChunkPassed DEF InUse, ToSweep
    <3> QED
      BY <1>1, <1>3, <1>4, <2>1, <3>1
  <2> QED
    BY <1>1, <1>3, <1>4, <2>1
<1>6. alloc' = alloc
  <2>1. CASE SweptDead
    <3>1. /\ ToSweep(c) /\ AllSwept /\ state[c] = "used" /\ dead /\ Sweeping
          /\ alloc' = {o \in alloc : o[1] # c}
      BY <2>1 DEF SweptDead, ChunkIsDead
    <3>2. cur[2] = Slots + 1
      BY <3>1 DEF AllSwept, InUse
    <3>3. \A s \in Slot : flag[<<c, s>>] = NEXT
      BY <1>2, <1>3, <3>1, <3>2 DEF DeadOK, Slot
    <3>4. \A o \in alloc : o[1] # c
      BY <1>3, <1>4, <3>3 DEF Slot
    <3> QED
      BY <3>1, <3>4
  <2>2. CASE SweptOther
    BY <2>2 DEF SweptOther, histVars
  <2> QED
    BY <2>1, <2>2
<1>7. Survivors' = Survivors
  BY <1>1, <1>5, <1>6 DEF Survivors
<1> QED
  BY <1>1, <1>5, <1>6, <1>7 DEF SweepKeeps

LEMMA SweepKeepsStep == ASSUME SweepKeeps PROVE UNCHANGED Abstract!vars
BY SweepView DEF SweepKeeps

LEMMA EndSweepStep ==
  ASSUME IInv, EndSweep PROVE UNCHANGED Abstract!vars
<1>1. /\ pc \in {"sweep", "exit"} /\ cur[1] = NChunks + 1
      /\ pc' = IF pc = "exit" THEN "halt" ELSE IF req = <<>> THEN "run" ELSE "resume"
      /\ UNCHANGED <<type, attr, word, live, global, alloc>>
  BY DEF EndSweep, Sweeping, chunkVars, progVars, histVars
<1>2. \A o \in Obj : Below(o, cur)
  <2> SUFFICES ASSUME NEW o \in Obj PROVE Below(o, cur)
    OBVIOUS
  <2>1. o[1] \in Int /\ o[1] <= NChunks /\ NChunks \in Int
    BY FsoAssumption DEF Obj, Chunk
  <2> QED
    BY <1>1, <2>1 DEF Below
<1>3. alloc \in SUBSET Obj
  BY DEF IInv, TypeOK
<1>4. Alive' = Alive /\ Ended' = Ended
  <2>1. CASE pc = "exit"
    BY <1>1, <2>1 DEF Alive, Ended
  <2>2. CASE pc = "sweep"
    <3>1. {o \in alloc : Survives(o)} = alloc
      BY <1>2, <1>3 DEF Survives
    <3> QED
      BY <1>1, <2>2, <3>1 DEF Alive, Ended
  <2> QED
    BY <1>1, <2>1, <2>2
<1> QED
  BY <1>1, <1>4, SameView

LEMMA CollectorStep ==
  ASSUME IInv, SafeInstance, Collector PROVE Abstract!Next \/ UNCHANGED Abstract!vars
<1>1. CASE MarkAttributes \/ MarkStack
  BY <1>1, InvisibleStep DEF MarkAttributes, MarkStack, chunkVars, progVars, histVars
<1> QED
  BY <1>1, BeginSweepStep, SweepMarkedKeeps, SweepOtherKeeps, NextChunkKeeps, SweepKeepsStep,
     EndSweepStep, ResumeStep DEF Collector

(* The allocator and the collector are a memory manager: an object         *)
(* disappears only when the program cannot reach it, and weak references   *)
(* to it become Void, whatever the program, the types and the heap.        *)
THEOREM Implements == SafeInstance /\ Spec => ImplementsManagedHeap
<1>1. Init => Abstract!Init
  <2> SUFFICES ASSUME Init PROVE Abstract!Init
    OBVIOUS
  <2>1. Alive = {} /\ ~Ended
    BY DEF Init, Alive, Ended
  <2>2. AbstractWeak = {} /\ AbstractWord = [w \in Words |-> Nil]
    BY <2>1 DEF Init, AbstractWeak, AbstractWord
  <2>3. AbstractAttr = [o \in Obj |-> [f \in Fields |-> Nil]]
    BY <2>1 DEF AbstractAttr
  <2> QED
    BY <2>1, <2>2, <2>3 DEF Init, Abstract!Init, Abstract!NoAttributes
<1>2. ASSUME SafeInstance, IInv, [Next]_vars PROVE Abstract!Next \/ UNCHANGED Abstract!vars
  <2>1. CASE FullCollect
    BY <2>1, GcStartStep DEF FullCollect, AtRest
  <2>2. CASE Exit
    BY <2>2, TerminateStep DEF Exit, progVars
  <2>3. CASE Halted \/ UNCHANGED vars
    <3>1. UNCHANGED vars
      BY <2>3 DEF Halted
    <3>2. Alive' = Alive /\ Ended' = Ended
      BY <3>1 DEF vars, sweepVars, histVars, Alive, Ended, Survives
    <3> QED
      BY <3>1, <3>2, SameView DEF vars, chunkVars, progVars
  <2> QED
    BY <1>2, <2>1, <2>2, <2>3, ProgramStep, AllocateStep, CollectorStep DEF Next
<1>3. SafeInstance /\ Spec => [][Abstract!Next]_(Abstract!vars)
  <2>1. ASSUME SafeInstance PROVE Spec => [][Abstract!Next]_(Abstract!vars)
    <3>1. Init => IInv
      BY InitIInv
    <3>2. IInv /\ [Next]_vars => IInv'
      BY <2>1, NextIInv
    <3>3. IInv /\ [Next]_vars => [Abstract!Next]_(Abstract!vars)
      BY <1>2, <2>1
    <3> QED
      BY <3>1, <3>2, <3>3, PTL DEF Spec
  <2> QED
    BY <2>1
<1> QED
  BY <1>1, <1>3, PTL DEF Spec, ImplementsManagedHeap, Abstract!Spec
-----------------------------------------------------------------------------
(* A collection is exact.                                                  *)

(* The roots of a collection: see Reached.                                 *)
Roots == ({global[g] : g \in Globals} \ {Nil}) \cup {word[w] : w \in {x \in Words : word[x] \in alloc}}

FollowClosed(S) == \A o \in S : Followed(o) \subseteq S

(* S is the least set that has the roots and what its objects refer to.    *)
Least(S) ==
  /\ S \subseteq Obj /\ Roots \subseteq S /\ FollowClosed(S)
  /\ \A A \in SUBSET Obj : Roots \subseteq A /\ FollowClosed(A) => S \subseteq A

(* One round: S and what its objects refer to.                             *)
Wider(S) == S \cup {x \in Obj : \E o \in S : x \in Followed(o)}

LEMMA ObjFinite == IsFiniteSet(Obj) /\ Cardinality(Obj) \in Nat
<1>1. NChunks \in Int /\ Slots \in Int /\ 1 \in Int
  BY FsoAssumption
<1>2. IsFiniteSet(Chunk) /\ IsFiniteSet(Slot)
  BY <1>1, FS_Interval DEF Chunk, Slot
<1>3. IsFiniteSet(Obj)
  BY <1>2, FS_Product DEF Obj
<1> QED
  BY <1>3, FS_CardinalityType

LEMMA FollowedObj ==
  ASSUME TypeOK, NEW o \in Obj PROVE Followed(o) \subseteq Obj
BY DEF TypeOK, Followed, Ref

LEMMA RootsObj == ASSUME TypeOK PROVE Roots \in SUBSET Obj
BY DEF TypeOK, Roots, Ref

(* Reached runs as many rounds as there are objects.                       *)
LEMMA ReachedRounds ==
  ASSUME TypeOK
  PROVE  \E k \in [0 .. Cardinality(Obj) -> SUBSET Obj] :
           /\ k[0] = Roots /\ \A n \in 1 .. Cardinality(Obj) : k[n] = Wider(k[n - 1])
           /\ Reached = k[Cardinality(Obj)]
<1> DEFINE N == Cardinality(Obj)
           T == SUBSET Obj
           h == [n \in 1 .. N |-> [S \in T |-> Wider(S)]]
           Targets(o) == {attr[o][f] : f \in Fields} \ {Nil}
           Strong(S) == S \cup UNION {Targets(o) : o \in {p \in S : type[p[1]] \notin WeakTypes}}
           K(k) == [n \in 0 .. N |-> IF n = 0
                      THEN ({global[g] : g \in Globals} \ {Nil})
                           \cup {word[w] : w \in {x \in Words : word[x] \in alloc}}
                      ELSE Strong(k[n - 1])]
           k0 == CHOOSE k : k = K(k)
<1>1. N \in Nat
  BY ObjFinite
<1>2. \A S \in T : Strong(S) = Wider(S)
  <2> SUFFICES ASSUME NEW S \in T PROVE Strong(S) = Wider(S)
    OBVIOUS
  <2>1. \A o \in S : IF type[o[1]] \in WeakTypes THEN Followed(o) = {}
                     ELSE Followed(o) = Targets(o)
    BY DEF Followed
  <2>2. \A o \in S : Followed(o) \subseteq Obj
    BY FollowedObj
  <2> HIDE DEF Targets
  <2>3. ASSUME NEW x PROVE x \in Strong(S) <=> x \in Wider(S)
    BY <2>1, <2>2 DEF Wider
  <2> QED
    BY <2>3
<1>3. h \in [1 .. N -> [T -> T]] /\ Roots \in T
  <2>1. \A S \in T : Wider(S) \in T
    BY DEF Wider
  <2> QED
    BY <2>1, RootsObj
<1>4. PICK f \in [0 .. N -> T] : f[0] = Roots /\ \A n \in 1 .. N : f[n] = h[n][f[n - 1]]
  <2> HIDE DEF N, T, h, K, k0
  <2>1. StepsOf(h, N, T)
    BY <1>3 DEF StepsOf
  <2>2. \E f : Outcome(f, Roots, h, N, T)
    BY <1>1, <1>3, <2>1, RecursionUpTo
  <2> QED
    BY <2>2 DEF Outcome
<1>5. \A n \in 1 .. N : n - 1 \in 0 .. N /\ f[n - 1] \in T /\ f[n] = Wider(f[n - 1])
  <2> SUFFICES ASSUME NEW n \in 1 .. N
               PROVE  n - 1 \in 0 .. N /\ f[n - 1] \in T /\ f[n] = Wider(f[n - 1])
    OBVIOUS
  <2>1. n - 1 \in 0 .. N
    BY <1>1
  <2> QED
    BY <1>4, <2>1
<1> HIDE DEF T, h
<1>6. f = K(f)
  <2> HIDE DEF Strong
  <2>1. ASSUME NEW n \in 0 .. N, n # 0 PROVE f[n] = Strong(f[n - 1])
    <3>1. n \in 1 .. N
      BY <2>1
    <3> QED
      BY <1>2, <1>5, <3>1
  <2>2. f[0] = ({global[g] : g \in Globals} \ {Nil})
               \cup {word[w] : w \in {x \in Words : word[x] \in alloc}}
    BY <1>4 DEF Roots
  <2> QED
    BY <1>4, <2>1, <2>2
<1>7. k0 = K(k0)
  <2> HIDE DEF K
  <2> QED
    BY <1>6
<1>8. Reached = k0[N]
  BY DEF Reached
<1>9. \A n \in 0 .. N : k0[n] = f[n]
  <2> DEFINE G == {n \in 0 .. N : k0[n] = f[n]}
  <2> HIDE DEF k0
  <2>1. k0[0] = f[0]
    <3>1. 0 \in 0 .. N
      BY <1>1
    <3>2. K(f)[0] = K(k0)[0]
      BY <3>1
    <3> QED
      BY <1>6, <1>7, <3>2
  <2>2. ASSUME NEW n \in 1 .. N, k0[n - 1] = f[n - 1] PROVE k0[n] = f[n]
    <3>1. n \in 0 .. N /\ n # 0
      BY <1>1
    <3> HIDE DEF Strong
    <3>2. K(f)[n] = Strong(f[n - 1]) /\ K(k0)[n] = Strong(k0[n - 1])
      BY <3>1
    <3> QED
      BY <1>6, <1>7, <2>2, <3>2
  <2> HIDE DEF K
  <2>3. 0 \in G /\ \A n \in 1 .. N : n - 1 \in G => n \in G
    BY <1>1, <2>1, <2>2
  <2> HIDE DEF G
  <2>4. \A n \in 0 .. N : n \in G
    BY <1>1, <2>3, UpTo
  <2> QED
    BY <2>4 DEF G
<1>10. Reached = f[N]
  <2>1. N \in 0 .. N
    BY <1>1
  <2> HIDE DEF k0
  <2> QED
    BY <1>8, <1>9, <2>1
<1> QED
  BY <1>4, <1>5, <1>10 DEF T

(* Each round finds one more object, or there is no other: after as many   *)
(* rounds as there are objects, nothing is left to find.                   *)
LEMMA ReachedLeast == TypeOK => Least(Reached)
<1> SUFFICES ASSUME TypeOK PROVE Least(Reached)
  OBVIOUS
<1> DEFINE N == Cardinality(Obj)
<1>1. PICK k \in [0 .. N -> SUBSET Obj] :
        k[0] = Roots /\ (\A n \in 1 .. N : k[n] = Wider(k[n - 1])) /\ Reached = k[N]
  BY ReachedRounds
<1>2. N \in Nat /\ IsFiniteSet(Obj)
  BY ObjFinite
<1>3. \A n \in 0 .. N : k[n] \subseteq Obj /\ IsFiniteSet(k[n]) /\ Cardinality(k[n]) \in Nat
  BY <1>2, FS_Subset, FS_CardinalityType
<1> HIDE DEF N
<1>4. \A n \in 1 .. N : n \in 0 .. N /\ n - 1 \in 0 .. N /\ n \in Nat /\ k[n] = Wider(k[n - 1])
  BY <1>1, <1>2
<1>5. Roots \subseteq Reached
  <2> DEFINE G == {n \in 0 .. N : Roots \subseteq k[n]}
  <2>1. 0 \in G
    BY <1>1, <1>2
  <2>2. ASSUME NEW n \in 1 .. N, n - 1 \in G PROVE n \in G
    BY <1>4, <2>2 DEF Wider
  <2> HIDE DEF G
  <2>3. \A n \in 0 .. N : n \in G
    BY <1>2, <2>1, <2>2, UpTo
  <2>4. N \in G
    BY <1>2, <2>3
  <2> QED
    BY <1>1, <2>4 DEF G
<1>6. FollowClosed(Reached)
  <2> DEFINE G == {n \in 0 .. N : FollowClosed(k[n]) \/ n <= Cardinality(k[n])}
  <2>1. 0 \in G
    BY <1>2, <1>3
  <2>2. ASSUME NEW n \in 1 .. N, n - 1 \in G PROVE n \in G
    <3>1. n \in 0 .. N /\ n - 1 \in 0 .. N /\ k[n] = Wider(k[n - 1])
      BY <1>4
    <3>2. CASE FollowClosed(k[n - 1])
      <4>1. k[n] = k[n - 1]
        BY <3>1, <3>2 DEF Wider, FollowClosed
      <4> QED
        BY <3>1, <3>2, <4>1
    <3>3. CASE ~FollowClosed(k[n - 1])
      <4>0. PICK o \in k[n - 1] : \E x \in Followed(o) : x \notin k[n - 1]
        BY <3>3 DEF FollowClosed
      <4>1. PICK x \in Followed(o) : x \notin k[n - 1]
        BY <4>0
      <4>2. x \in Obj
        BY <1>3, <3>1, <4>1, FollowedObj
      <4>3. k[n - 1] \cup {x} \subseteq k[n]
        BY <3>1, <4>1, <4>2 DEF Wider
      <4>4. Cardinality(k[n - 1] \cup {x}) = Cardinality(k[n - 1]) + 1
        <5>1. IsFiniteSet(k[n - 1])
          BY <1>3, <3>1
        <5> QED
          BY <4>1, <5>1, FS_AddElement
      <4>5. Cardinality(k[n - 1] \cup {x}) <= Cardinality(k[n])
        BY <1>3, <3>1, <4>3, FS_Subset
      <4>6. n - 1 <= Cardinality(k[n - 1])
        BY <2>2, <3>3
      <4>7. Cardinality(k[n - 1]) \in Nat /\ Cardinality(k[n]) \in Nat /\ n \in Nat
        BY <1>3, <1>4, <3>1
      <4>8. n <= Cardinality(k[n])
        BY <4>4, <4>5, <4>6, <4>7
      <4> QED
        BY <3>1, <4>8
    <3> QED
      BY <3>2, <3>3
  <2> HIDE DEF G
  <2>3. \A n \in 0 .. N : n \in G
    BY <1>2, <2>1, <2>2, UpTo
  <2>4. N \in 0 .. N /\ N \in G
    BY <1>2, <2>3
  <2>5. CASE N <= Cardinality(k[N])
    <3>1. k[N] = Obj
      <4>1. Cardinality(k[N]) <= N /\ (N = Cardinality(k[N]) => Obj = k[N])
        BY <1>2, <1>3, <2>4, FS_Subset DEF N
      <4>2. Cardinality(k[N]) \in Nat
        BY <1>3, <2>4
      <4> QED
        BY <1>2, <2>5, <4>1, <4>2
    <3> QED
      BY <1>1, <3>1, FollowedObj DEF FollowClosed
  <2> QED
    BY <1>1, <2>4, <2>5 DEF G
<1>7. ASSUME NEW A \in SUBSET Obj, Roots \subseteq A, FollowClosed(A) PROVE Reached \subseteq A
  <2> DEFINE G == {n \in 0 .. N : k[n] \subseteq A}
  <2>1. 0 \in G
    BY <1>1, <1>2, <1>7
  <2>2. ASSUME NEW n \in 1 .. N, n - 1 \in G PROVE n \in G
    BY <1>4, <1>7, <2>2 DEF Wider, FollowClosed
  <2> HIDE DEF G
  <2>3. \A n \in 0 .. N : n \in G
    BY <1>2, <2>1, <2>2, UpTo
  <2>4. N \in G
    BY <1>2, <2>3
  <2> QED
    BY <1>1, <2>4 DEF G
<1>8. Reached \subseteq Obj
  BY <1>1, <1>2, <1>3
<1> QED
  BY <1>5, <1>6, <1>7, <1>8 DEF Least

(* A step that changes neither the roots nor what their objects refer to   *)
(* does not change what is reached.                                        *)
LEMMA ReachedKept ==
  ASSUME TypeOK, TypeOK', Roots' = Roots,
         \A o \in Reached : Followed(o)' = Followed(o)
  PROVE  Reached' = Reached
<1>1. Least(Reached)
  BY ReachedLeast
<1>2. Least(Reached)'
  BY ReachedLeast, PTL
<1>3. Reached' \subseteq Reached
  <2>1. Reached \in SUBSET Obj /\ Roots' \subseteq Reached /\ \A o \in Reached : Followed(o)' \subseteq Reached
    BY <1>1 DEF Least, FollowClosed
  <2>2. \A A \in SUBSET Obj : Roots' \subseteq A /\ (\A o \in A : Followed(o)' \subseteq A) => Reached' \subseteq A
    BY <1>2 DEF Least, FollowClosed
  <2> QED
    BY <2>1, <2>2
<1>4. Reached \subseteq Reached'
  <2>1. Reached' \in SUBSET Obj /\ Roots' \subseteq Reached' /\ \A o \in Reached' : Followed(o)' \subseteq Reached'
    BY <1>2 DEF Least, FollowClosed
  <2>2. FollowClosed(Reached') /\ Roots \subseteq Reached'
    BY <1>3, <2>1 DEF FollowClosed
  <2> QED
    BY <1>1, <2>1, <2>2 DEF Least
<1> QED
  BY <1>3, <1>4
-----------------------------------------------------------------------------
LEMMA SameReached ==
  ASSUME TypeOK, TypeOK', UNCHANGED <<type, attr, word, global, alloc>>
  PROVE  Reached' = Reached
<1>1. Roots' = Roots /\ \A o \in Reached : Followed(o)' = Followed(o)
  BY DEF Roots, Followed
<1> QED
  BY <1>1, ReachedKept

(* What a step marks is reached, if what it marks from is.                 *)
LEMMA MarkExact ==
  ASSUME IInv, TypeOK', UNCHANGED <<type, attr, word, global, alloc>>,
         NEW S, S \cap alloc \subseteq Reached, NEW D, Mark(S, D),
         \A o \in alloc : flag[o] = MARKED => o \in Reached
  PROVE  \A o \in alloc' : flag'[o] = MARKED => o \in Reached'
<1>1. Reached' = Reached /\ alloc \subseteq Obj
  BY SameReached DEF IInv, TypeOK
<1>2. \A o \in Obj : flag'[o] = MARKED => flag[o] = MARKED \/ o \in S
  BY DEF Mark, ToVisit
<1> QED
  BY <1>1, <1>2

LEMMA GcStartExact ==
  ASSUME IInv, TypeOK', NEW r, AtRest, GcStart(r) PROVE ExactInv'
<1>1. UNCHANGED <<type, attr, word, global, alloc>>
  BY DEF GcStart, chunkVars, progVars, histVars
<1>2. CASE StartMarking
  <2>1. Mark({global[g] : g \in Globals} \ {Nil}, {}) /\ pc' = "mark_globals"
    BY <1>2 DEF StartMarking
  <2>2. \A o \in alloc : flag[o] # MARKED
    BY DEF IInv, MarksOK, AtRest, Marking, MARKED, UNMARKED
  <2>3. {global[g] : g \in Globals} \ {Nil} \subseteq Reached
    BY ReachedLeast DEF IInv, Least, Roots
  <2>4. \A o \in alloc' : flag'[o] = MARKED => o \in Reached'
    BY <1>1, <2>1, <2>2, <2>3, MarkExact
  <2> QED
    BY <2>1, <2>4 DEF ExactInv
<1>3. CASE pc' \in {"run", "resume"}
  BY <1>3 DEF ExactInv, Marking
<1> QED
  BY <1>2, <1>3 DEF GcStart

LEMMA MarkAttributesExact ==
  ASSUME IInv, TypeOK', ExactInv, MarkAttributes PROVE ExactInv'
<1>1. /\ Marking /\ pc' = pc
      /\ UNCHANGED <<type, attr, word, global, alloc>>
  BY DEF MarkAttributes, Marking, chunkVars, progVars, histVars
<1>2. PICK o \in grey : Mark(Followed(o), {o})
  BY DEF MarkAttributes
<1>3. o \in alloc /\ flag[o] = MARKED
  BY <1>1, <1>2 DEF IInv, MarkingOK
<1>4. Followed(o) \subseteq Reached
  BY <1>1, <1>3, ReachedLeast DEF ExactInv, IInv, Least, FollowClosed
<1>5. \A q \in alloc' : flag'[q] = MARKED => q \in Reached'
  BY <1>1, <1>2, <1>4, MarkExact DEF ExactInv
<1>6. \A q \in Obj : flag[q] = MARKED => flag'[q] = MARKED
  BY <1>2 DEF Mark
<1>7. alloc \subseteq Obj
  BY DEF IInv, TypeOK
<1> QED
  BY <1>1, <1>5, <1>6, <1>7 DEF ExactInv, Marking

LEMMA MarkStackExact ==
  ASSUME IInv, TypeOK', ExactInv, MarkStack PROVE ExactInv'
<1> DEFINE S == {p \in {word[w] : w \in Words} : IsRoot(p)}
<1>1. /\ Marking /\ pc' = "mark_stack" /\ Mark(S, {})
      /\ UNCHANGED <<type, attr, word, global, alloc>>
  BY DEF MarkStack, Marking, chunkVars, progVars, histVars
<1>2. TypeOK /\ alloc \subseteq Obj /\ alloc = {o \in Obj : InUse(o) /\ flag[o] # NEXT}
  BY DEF IInv, TypeOK, AllocOK
<1>3. S \cap alloc \subseteq Reached
  BY <1>2, ReachedLeast DEF Least, Roots
<1>4. \A o \in alloc' : flag'[o] = MARKED => o \in Reached'
  BY <1>1, <1>3, MarkExact DEF ExactInv
<1>5. ASSUME NEW w \in Words, word[w] \in alloc PROVE flag'[word[w]] = MARKED
  <2>1. word[w] \in S
    BY <1>2, <1>5, NilFresh DEF IsRoot, InUse
  <2>2. flag[word[w]] \in {MARKED, UNMARKED}
    BY <1>2, <1>5 DEF TypeOK, Flag
  <2> QED
    BY <1>1, <1>2, <1>5, <2>1, <2>2 DEF Mark, ToVisit
<1> QED
  BY <1>1, <1>4, <1>5 DEF ExactInv, Marking

(* The marked objects are closed under reference and hold the roots, so    *)
(* that nothing reached is missing.                                        *)
LEMMA BeginSweepExact ==
  ASSUME IInv, TypeOK', ExactInv, BeginSweep PROVE ExactInv'
<1>1. /\ pc = "mark_stack" /\ grey = {} /\ pc' = "sweep" /\ cur' = <<1, 1>> /\ Marking
      /\ UNCHANGED <<type, flag, attr, word, live, global, alloc>>
  BY DEF BeginSweep, EnterChunk, Marking, chunkVars, progVars, histVars
<1>2. TypeOK /\ alloc \subseteq Obj /\ Closed(alloc) /\ WeakClosed(alloc) /\ MarkingOK
  BY <1>1 DEF IInv, TypeOK, ClosedOK
<1> DEFINE M == {o \in alloc : flag[o] = MARKED}
<1>3. Survivors' = M
  <2>1. \A o \in Obj : ~Below(o, <<1, 1>>)
    <3> SUFFICES ASSUME NEW o \in Obj PROVE ~Below(o, <<1, 1>>)
      OBVIOUS
    <3>1. o[1] \in Int /\ o[1] >= 1 /\ o[2] \in Int /\ o[2] >= 1
      BY FsoAssumption DEF Obj, Chunk, Slot
    <3> QED
      BY <3>1 DEF Below
  <2> QED
    BY <1>1, <1>2, <2>1 DEF Survivors
<1>4. Roots \subseteq M
  <2>1. \A g \in Globals : global[g] # Nil => global[g] \in M
    BY <1>1, <1>2 DEF Closed, MarkingOK
  <2>2. \A w \in Words : word[w] \in alloc => word[w] \in M
    BY <1>1 DEF ExactInv
  <2> QED
    BY <2>1, <2>2 DEF Roots
<1>5. FollowClosed(M)
  <2> SUFFICES ASSUME NEW o \in M PROVE Followed(o) \subseteq M
    BY DEF FollowClosed
  <2>1. \A x \in Followed(o) : flag[x] = MARKED
    BY <1>1, <1>2 DEF MarkingOK
  <2>2. Followed(o) \subseteq alloc
    BY <1>2 DEF WeakClosed, Followed
  <2> QED
    BY <2>1, <2>2
<1>6. M \subseteq Reached /\ Reached \subseteq M
  <2>1. M \in SUBSET Obj
    BY <1>2
  <2>2. Reached \subseteq M
    BY <1>2, <1>4, <1>5, <2>1, ReachedLeast DEF Least
  <2>3. M \subseteq Reached
    BY <1>1 DEF ExactInv
  <2> QED
    BY <2>2, <2>3
<1>7. Reached' = Reached
  BY <1>1, <1>2, SameReached
<1> QED
  BY <1>1, <1>3, <1>6, <1>7 DEF ExactInv, Marking

(* The sweep changes nothing of what is reached.                           *)
LEMMA SweepExact ==
  ASSUME TypeOK, TypeOK', ExactInv, SweepKeeps PROVE ExactInv'
<1>1. /\ pc \in {"sweep", "exit"} /\ pc' = pc /\ UNCHANGED <<type, word, global>>
      /\ Survivors' = Survivors /\ alloc' \subseteq alloc
      /\ pc = "exit" => \A o \in alloc' : Below(o, cur') => Below(o, cur)
  BY DEF SweepKeeps
<1>2. CASE pc = "sweep"
  <2>1. Survivors = Reached /\ Survivors \subseteq alloc'
    BY <1>1, <1>2 DEF ExactInv, Survivors
  <2>2. Roots \subseteq Survivors
    BY <2>1, ReachedLeast DEF Least
  <2>3. \A w \in Words : word[w] \in alloc => word[w] \in alloc'
    BY <2>1, <2>2 DEF Roots
  <2>4. Roots' = Roots
    BY <1>1, <2>3 DEF Roots
  <2>5. \A o \in Reached : Followed(o)' = Followed(o)
    <3>1. \A o \in Survivors, f \in Fields : type[o[1]] \notin WeakTypes => attr'[o][f] = attr[o][f]
      BY DEF SweepKeeps
    <3>2. ASSUME NEW o \in Survivors PROVE Followed(o)' = Followed(o)
      <4>1. CASE type[o[1]] \in WeakTypes
        BY <1>1, <4>1 DEF Followed
      <4>2. CASE type[o[1]] \notin WeakTypes
        <5>1. {attr'[o][f] : f \in Fields} = {attr[o][f] : f \in Fields}
          BY <3>1, <4>2
        <5> QED
          BY <1>1, <5>1 DEF Followed
      <4> QED
        BY <4>1, <4>2
    <3> QED
      BY <2>1, <3>2
  <2>6. Reached' = Reached
    BY <2>4, <2>5, ReachedKept
  <2> QED
    BY <1>1, <1>2, <2>1, <2>6 DEF ExactInv, Marking
<1>3. CASE pc = "exit"
  BY <1>1, <1>3 DEF ExactInv, Marking
<1> QED
  BY <1>1, <1>2, <1>3

LEMMA ExitExact ==
  ASSUME IInv, Exit PROVE ExactInv'
<1>1. pc' \in {"exit", "halt"} /\ cur' = <<1, 1>> /\ alloc' = alloc /\ alloc \subseteq Obj
  BY DEF Exit, EnterChunk, histVars, IInv, TypeOK
<1>2. \A o \in Obj : ~Below(o, <<1, 1>>)
  <2> SUFFICES ASSUME NEW o \in Obj PROVE ~Below(o, <<1, 1>>)
    OBVIOUS
  <2>1. o[1] \in Int /\ o[1] >= 1 /\ o[2] \in Int /\ o[2] >= 1
    BY FsoAssumption DEF Obj, Chunk, Slot
  <2> QED
    BY <2>1 DEF Below
<1> QED
  BY <1>1, <1>2 DEF ExactInv, Marking

LEMMA NextExact ==
  ASSUME SafeInstance, IInv, ExactInv, [Next]_vars PROVE ExactInv'
<1>1. TypeOK /\ TypeOK'
  BY NextIInv DEF IInv
<1>2. CASE pc' \in {"run", "resume", "halt"}
  BY <1>2 DEF ExactInv, Marking
<1>3. ASSUME NEW t \in Types, NEW w \in Words, NewCollects(t, w) PROVE ExactInv'
  BY <1>1, <1>3, GcStartExact DEF NewCollects, AtRest
<1>4. CASE Allocate
  <2>1. PICK t \in Types, w \in Words :
          \/ NewFromStore(t, w) \/ NewFromFree(t, w) \/ NewLast(t, w)
          \/ NewFromGet1(t, w) \/ NewCollects(t, w) \/ NewFails(t)
    BY <1>4 DEF Allocate
  <2>2. CASE NewFromStore(t, w) \/ NewFromFree(t, w) \/ NewLast(t, w)
    BY <1>2, <2>2 DEF NewFromStore, NewFromFree, PopFree, NewLast, Return
  <2>3. CASE NewFromGet1(t, w)
    BY <1>2, <2>3 DEF NewFromGet1, TakeFreeChunk, MallocChunk, Carve, Return
  <2>4. CASE NewFails(t)
    BY <1>2, <2>4 DEF NewFails, OutOfMemory
  <2> QED
    BY <1>3, <2>1, <2>2, <2>3, <2>4
<1>5. CASE FullCollect
  BY <1>1, <1>5, GcStartExact DEF FullCollect, AtRest
<1>6. CASE Program
  <2>1. pc = "run" /\ pc' = pc
    BY <1>6 DEF Program, Assign, Load, LeaveScope, OnceResult, Switch, heapVars
  <2> QED
    BY <1>2, <2>1
<1>7. CASE ResumeFree \/ ResumeGet2 \/ ResumeFails
  <2>1. CASE ResumeFree
    BY <1>2, <2>1 DEF ResumeFree, PopFree, Return
  <2>2. CASE ResumeGet2
    BY <1>2, <2>2 DEF ResumeGet2, TakeFreeChunk, MallocChunk, Carve, Return
  <2>3. CASE ResumeFails
    BY <1>2, <2>3 DEF ResumeFails, OutOfMemory
  <2> QED
    BY <1>7, <2>1, <2>2, <2>3
<1>8. CASE Collector
  <2>1. CASE SweepMarked \/ SweepOther \/ SweptDead \/ SweptOther
    BY <1>1, <2>1, SweepMarkedKeeps, SweepOtherKeeps, NextChunkKeeps, SweepExact
  <2>2. CASE EndSweep
    BY <1>2, <2>2 DEF EndSweep
  <2> QED
    BY <1>1, <1>7, <1>8, <2>1, <2>2, MarkAttributesExact, MarkStackExact, BeginSweepExact
    DEF Collector
<1>9. CASE Exit
  BY <1>9, ExitExact
<1>10. CASE Halted \/ UNCHANGED vars
  <2>1. UNCHANGED <<type, attr, word, global, alloc, flag, pc, cur>>
    BY <1>10 DEF Halted, vars, chunkVars, progVars, sweepVars, histVars
  <2>2. Reached' = Reached
    BY <1>1, <2>1, SameReached
  <2> QED
    BY <2>1, <2>2 DEF ExactInv, Marking, Survivors
<1> QED
  BY <1>4, <1>5, <1>6, <1>8, <1>9, <1>10 DEF Next

LEMMA InitExact == Init => ExactInv
BY DEF Init, ExactInv, Marking

(* What a collection rests on holds in every state: its three parts are    *)
(* inductive together.                                                     *)
THEOREM CollectorInvariance == SafeInstance /\ Spec => []CollectorInv
<1>1. ASSUME SafeInstance PROVE Spec => []CollectorInv
  <2>1. Init => CollectorInv
    BY InitIInv, InitPart, InitExact DEF CollectorInv
  <2>2. CollectorInv /\ [Next]_vars => CollectorInv'
    BY <1>1, NextIInv, NextPart, NextExact DEF CollectorInv
  <2> QED
    BY <2>1, <2>2, PTL DEF Spec
<1> QED
  BY <1>1

(* Which steps a sweep consists of.                                        *)
LEMMA SweepActions ==
  ASSUME Sweeping, [Next]_vars
  PROVE  SweepMarked \/ SweepOther \/ SweptDead \/ SweptOther \/ EndSweep \/ UNCHANGED vars
<1>1. pc \in {"sweep", "exit"}
  BY DEF Sweeping
<1>2. ~Program /\ ~Allocate /\ ~FullCollect /\ ~Exit /\ ~Halted
  BY <1>1 DEF Program, Assign, Load, LeaveScope, OnceResult, Switch, Allocate, NewFromStore,
     NewFromFree, NewLast, NewFromGet1, NewCollects, NewFails, FullCollect, Exit, Halted
<1>3. ~MarkAttributes /\ ~MarkStack /\ ~BeginSweep /\ ~ResumeFree /\ ~ResumeGet2 /\ ~ResumeFails
  BY <1>1 DEF MarkAttributes, MarkStack, BeginSweep, ResumeFree, ResumeGet2, ResumeFails
<1> QED
  BY <1>2, <1>3 DEF Next, Collector

LEMMA SweepSteps ==
  ASSUME IInv, SafeInstance, Sweeping, [Next]_vars
  PROVE  SweepKeeps \/ EndSweep \/ UNCHANGED vars
BY SweepActions, SweepMarkedKeeps, SweepOtherKeeps, NextChunkKeeps

LEMMA AllBelow == ASSUME cur[1] = NChunks + 1, NEW o \in Obj PROVE Below(o, cur)
<1>1. o[1] \in Int /\ o[1] <= NChunks /\ NChunks \in Int
  BY FsoAssumption DEF Obj, Chunk
<1> QED
  BY <1>1 DEF Below

(* gc_start leaves exactly what is reachable from the once results and     *)
(* from the words of the stack that designate an object.                   *)
THEOREM CollectionExact == SafeInstance /\ Spec => CollectExact
<1>1. ASSUME SafeInstance, CollectorInv, [Next]_vars, pc = "sweep", pc' # "sweep"
      PROVE  (alloc = Reached)'
  <2>1. EndSweep
    BY <1>1, SweepSteps DEF CollectorInv, Sweeping, SweepKeeps, vars
  <2>2. cur[1] = NChunks + 1 /\ UNCHANGED <<type, attr, word, global, alloc>>
    BY <2>1 DEF EndSweep, chunkVars, progVars, histVars
  <2>3. TypeOK /\ TypeOK' /\ alloc \subseteq Obj
    BY <1>1, NextIInv DEF CollectorInv, IInv, TypeOK
  <2>4. Survivors = alloc
    BY <2>2, <2>3, AllBelow DEF Survivors
  <2>5. Reached' = Reached
    BY <2>2, <2>3, SameReached
  <2> QED
    BY <1>1, <2>2, <2>4, <2>5 DEF CollectorInv, ExactInv
<1>2. ASSUME SafeInstance
      PROVE  CollectorInv /\ [Next]_vars
             => [pc = "sweep" /\ pc' # "sweep" => (alloc = Reached)']_vars
  BY <1>1, <1>2
<1>3. ASSUME SafeInstance PROVE Spec => CollectExact
  <2>1. CollectorInv /\ [Next]_vars
        => [pc = "sweep" /\ pc' # "sweep" => (alloc = Reached)']_vars
    BY <1>2, <1>3
  <2>2. Spec => []CollectorInv
    BY <1>3, CollectorInvariance
  <2> QED
    BY <2>1, <2>2, PTL DEF Spec, CollectExact
<1> QED
  BY <1>3

(* A weak reference that stays keeps an item that stays, whichever of the  *)
(* two the sweep passes first.                                             *)
THEOREM WeakItemsKept == SafeInstance /\ Spec => WeakItemKept
<1> DEFINE W(o, f) == /\ pc = "sweep" /\ type[o[1]] \in WeakTypes
                      /\ flag'[o] = UNMARKED /\ attr'[o][f] # attr[o][f]
                      => attr[o][f] \notin Reached
<1>1. ASSUME SafeInstance, CollectorInv, [Next]_vars, NEW o \in Obj, NEW f \in Fields,
             pc = "sweep", flag'[o] = UNMARKED, attr'[o][f] # attr[o][f]
      PROVE  attr[o][f] \notin Reached
  <2>1. attr' # attr
    BY <1>1
  <2>2. SweepKeeps
    BY <1>1, <2>1, SweepSteps DEF CollectorInv, Sweeping, EndSweep, vars
  <2>3. o \in Survivors
    <3>1. ~UNCHANGED vars /\ ~EndSweep /\ ~SweptDead /\ ~SweptOther
      BY <2>1 DEF vars, EndSweep, SweptDead, SweptOther
    <3>2. SweepMarked \/ SweepOther
      BY <1>1, <3>1, SweepActions DEF Sweeping
    <3>3. TypeOK
      BY <1>1 DEF CollectorInv, IInv
    <3>4. CASE SweepMarked
      <4>1. cur \in alloc /\ flag[cur] = MARKED
        BY <1>1, <3>4, SweepMarkedInSweep DEF CollectorInv, SweepMarked
      <4>2. \A q \in Obj : q # cur => attr'[q] = attr[q]
        BY <3>3, <3>4 DEF SweepMarked, TypeOK
      <4>3. o = cur
        BY <1>1, <4>2
      <4> QED
        BY <4>1, <4>3 DEF Survivors
    <3>5. CASE SweepOther
      <4>1. \A q \in Obj : q # cur => attr'[q] = attr[q]
        BY <3>3, <3>5 DEF SweepOther, TypeOK
      <4>2. o = cur
        BY <1>1, <4>1
      <4>3. flag'[o] = NEXT
        BY <3>3, <3>5, <4>2 DEF SweepOther, TypeOK
      <4> QED
        BY <1>1, <4>3 DEF NEXT, UNMARKED
    <3> QED
      BY <3>2, <3>4, <3>5
  <2>4. attr[o][f] \notin Survivors
    BY <1>1, <2>2, <2>3 DEF SweepKeeps
  <2> QED
    BY <1>1, <2>4 DEF CollectorInv, ExactInv
<1>2. ASSUME SafeInstance, CollectorInv, [Next]_vars
      PROVE  \A o \in Obj, f \in Fields : W(o, f)
  BY <1>1, <1>2
<1>3. ASSUME SafeInstance PROVE Spec => WeakItemKept
  <2>1. CollectorInv /\ [Next]_vars => [\A o \in Obj, f \in Fields : W(o, f)]_vars
    BY <1>2, <1>3
  <2>2. Spec => []CollectorInv
    BY <1>3, CollectorInvariance
  <2> QED
    BY <2>1, <2>2, PTL DEF Spec, WeakItemKept
<1> QED
  BY <1>3

(* The sweep before exit leaves no object undisposed.                      *)
THEOREM ExitReclaims == SafeInstance /\ Spec => ExitReclaimsAll
<1>1. ASSUME SafeInstance, CollectorInv, [Next]_vars, pc = "exit", pc' = "halt"
      PROVE  alloc' = {}
  <2>1. EndSweep
    BY <1>1, SweepSteps DEF CollectorInv, Sweeping, SweepKeeps, vars
  <2>2. cur[1] = NChunks + 1 /\ alloc' = alloc /\ alloc \subseteq Obj
    BY <1>1, <2>1 DEF EndSweep, histVars, CollectorInv, IInv, TypeOK
  <2> QED
    BY <1>1, <2>2, AllBelow DEF CollectorInv, ExactInv
<1>2. ASSUME SafeInstance PROVE Spec => ExitReclaimsAll
  <2>1. CollectorInv /\ [Next]_vars => [pc = "exit" /\ pc' = "halt" => alloc' = {}]_vars
    BY <1>1, <1>2
  <2>2. Spec => []CollectorInv
    BY <1>2, CollectorInvariance
  <2> QED
    BY <2>1, <2>2, PTL DEF Spec, ExitReclaimsAll
<1> QED
  BY <1>2
=============================================================================
