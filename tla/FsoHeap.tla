------------------------------ MODULE FsoHeap ------------------------------
(***************************************************************************)
(* The heap of fixed-size objects (FSO) of the SmartEiffel garbage         *)
(* collector: the allocator newXXX, the collector gc_start (mark, then     *)
(* sweep in address order), weak references and dispose, as emitted by     *)
(* c_garbage_collector_functions_compiler.e and gc_handler.e on top of     *)
(* sys/runtime/c/gc_lib.c.                                                 *)
(*                                                                         *)
(* A chunk is known by its address (a number: the collector sweeps in      *)
(* address order) and holds Slots objects of one live type; an object is   *)
(* its address <<chunk, slot>>.  One thread runs, so a step of the         *)
(* collector is never interleaved with one of the program: while pc is not *)
(* "run" the program waits in the call that started the collection.        *)
(***************************************************************************)
EXTENDS Naturals, Sequences, FiniteSets

CONSTANTS
  NChunks,            \* bound: se_malloc fails when NChunks chunks exist
  Slots,              \* objects per chunk: H.count_minus_one + 1
  Types,              \* the live types of reference objects
  WeakTypes,          \* the WEAK_REFERENCE types, whose attribute is the item
  Holds,              \* run_time_set of the attributes of each type
  Disposables,        \* the types that define dispose
  Fields,             \* the reference attributes of an object
  Words,              \* the words of the C stack and the registers
  Globals,            \* once function results, the root object, manifest strings
  Garbage,            \* what an uninitialised header word may hold
  Strategy,           \* se_gc_strategy
  CeilAtStart,        \* the value of fsoc_count_ceil computed by compute_ceils
  FsocLimit,          \* FSOC_LIMIT
  LargeStack,         \* subset of BOOLEAN: may gc_stack_size exceed GCLARGESTACK?
  DisposeBeforeExit,  \* gc_set_dispose_before_exit: 0 in boost mode, else 1
  Ops,                \* the operations the Eiffel program uses
  SwitchAt,           \* bound: the values of gc_info_nb at which it may switch
                      \* collections on or off
  MaxCollections,     \* bound on collector_counter
  MaxNew              \* bound on gc_info_nb

\* The two flags and, in the same word of a free slot, the link of the free list.
UNMARKED == "unmarked"
MARKED == "marked"
NEXT == "next"
Flag == {UNMARKED, MARKED, NEXT}

ASSUME FsoAssumption ==
  /\ NChunks \in Nat /\ Slots \in Nat \ {0} /\ Types # {}
  /\ WeakTypes \subseteq Types /\ Disposables \subseteq Types
  /\ Holds \in [Types -> SUBSET Types]
  /\ Garbage \subseteq Flag /\ Garbage # {}
  /\ Strategy \in {"default", "low", "high"}
  /\ CeilAtStart \in Nat \ {0} /\ FsocLimit \in Nat
  /\ LargeStack \subseteq BOOLEAN /\ FALSE \in LargeStack
  /\ DisposeBeforeExit \in BOOLEAN /\ SwitchAt \subseteq Nat
  /\ MaxCollections \in Nat /\ MaxNew \in Nat

Chunk == 1..NChunks
Slot == 1..Slots
Obj == Chunk \X Slot
Nil == <<0, 0>>
Ref == Obj \cup {Nil}

\* Comparison of addresses.
Below(a, b) == a[1] < b[1] \/ (a[1] = b[1] /\ a[2] < b[2])

VARIABLES
  state,         \* header.state_type of each chunk; "none": not allocated
  type,          \* the live type whose functions amfp and swfp hold
  flag,          \* header.flag of each slot
  attr,          \* the reference attributes of each object
  gc_free,       \* per type, the free list of slots, its head last
  store,         \* per type, the first never used slot of the store chunk
  store_left,    \* per type, how many never used slots are left
  store_chunk,   \* per type, the chunk being filled (0: NULL)
  fsocfl,        \* the free list of chunks, its head last
  fsoc_count,    \* chunks allocated
  fsoc_count_ceil,
  gc_is_off,
  collector_counter,
  gc_info_nb,    \* objects returned by newXXX, for the bound MaxNew
  word,          \* contents of the stack words, stale ones included
  live,          \* which stack words the program may still read
  global,        \* the exact roots
  pc,            \* what the thread is executing
  req,           \* the <<type, word>> of the newXXX waiting for gc_start, or <<>>
  grey,          \* marked objects whose attributes are still to be visited
  cur,           \* the slot the sweep visits next
  dead,          \* no marked object seen in the chunk being swept
  old_gc_free,   \* gc_free when the sweep of the chunk began
  alloc,         \* history: the objects returned by newXXX and not yet reclaimed
  disposed       \* history: calls of dispose on the object last put in a slot

chunkVars == <<state, type, store, store_left, store_chunk>>
ceilVars == <<fsoc_count, fsoc_count_ceil>>
gcVars == <<gc_is_off, collector_counter, gc_info_nb>>
progVars == <<word, live, global>>
sweepVars == <<cur, dead, old_gc_free>>
histVars == <<alloc, disposed>>
vars == <<chunkVars, flag, attr, gc_free, fsocfl, ceilVars, gcVars, progVars,
          pc, req, grey, sweepVars, histVars>>

Pc == {"run", "mark_globals", "mark_stack", "sweep", "resume", "exit", "halt"}

TypeOK ==
  /\ state \in [Chunk -> {"none", "store", "used", "free"}]
  /\ type \in [Chunk -> Types]
  /\ flag \in [Obj -> Flag]
  /\ attr \in [Obj -> [Fields -> Ref]]
  /\ gc_free \in [Types -> Seq(Obj)]
  /\ store \in [Types -> (0..NChunks) \X (0..Slots + 1)]
  /\ store_left \in [Types -> 0..Slots]
  /\ store_chunk \in [Types -> 0..NChunks]
  /\ fsocfl \in Seq(Chunk)
  /\ fsoc_count \in Nat /\ fsoc_count_ceil \in Nat
  /\ gc_is_off \in BOOLEAN /\ collector_counter \in 0..MaxCollections
  /\ gc_info_nb \in 0..MaxNew
  /\ word \in [Words -> Ref] /\ live \in [Words -> BOOLEAN]
  /\ global \in [Globals -> Ref]
  /\ pc \in Pc
  /\ req \in (Types \X Words) \cup {<<>>}
  /\ grey \in SUBSET Obj
  /\ cur \in (1..NChunks + 1) \X (1..Slots + 1)
  /\ dead \in BOOLEAN
  /\ old_gc_free \in Seq(Obj)
  /\ alloc \in SUBSET Obj
  /\ disposed \in [Obj -> 0..2]

Init ==
  /\ state = [c \in Chunk |-> "none"]
  /\ type = [c \in Chunk |-> CHOOSE t \in Types : TRUE]
  /\ flag = [o \in Obj |-> NEXT]
  /\ attr = [o \in Obj |-> [f \in Fields |-> Nil]]
  /\ gc_free = [t \in Types |-> <<>>]
  /\ store = [t \in Types |-> Nil]
  /\ store_left = [t \in Types |-> 0]
  /\ store_chunk = [t \in Types |-> 0]
  /\ fsocfl = <<>>
  /\ fsoc_count = 0 /\ fsoc_count_ceil = CeilAtStart
  /\ gc_is_off = FALSE /\ collector_counter = 0 /\ gc_info_nb = 0
  /\ word = [w \in Words |-> Nil] /\ live = [w \in Words |-> FALSE]
  /\ global = [g \in Globals |-> Nil]
  /\ pc = "run" /\ req = <<>>
  /\ grey = {} /\ cur = <<1, 1>> /\ dead = TRUE /\ old_gc_free = <<>>
  /\ alloc = {} /\ disposed = [o \in Obj |-> 0]
----------------------------------------------------------------------------
(***************************************************************************)
(* Allocation: newXXX, gc_fsoc_get1, gc_fsoc_get2.                         *)
(***************************************************************************)

Push(s, x) == Append(s, x)
Top(s) == s[Len(s)]
Pop(s) == SubSeq(s, 1, Len(s) - 1)

\* n->header.flag=FSOH_UNMARKED; n->object=M; the caller keeps n in word w.
Return(n, w) ==
  /\ attr' = [attr EXCEPT ![n] = [f \in Fields |-> Nil]]
  /\ word' = [word EXCEPT ![w] = n]
  /\ live' = [live EXCEPT ![w] = TRUE]
  /\ alloc' = alloc \cup {n}
  /\ pc' = "run"
  /\ req' = <<>>
  /\ gc_info_nb' = gc_info_nb + 1
  /\ UNCHANGED <<global, gc_is_off, collector_counter, grey, sweepVars>>

StoreHasMany(t) == store_left[t] > 1

\* n=store++ in a store chunk that has other unused slots.
NewFromStore(t, w) ==
  /\ pc = "run"
  /\ StoreHasMany(t)
  /\ store_left' = [store_left EXCEPT ![t] = @ - 1]
  /\ store' = [store EXCEPT ![t] = <<@[1], @[2] + 1>>]
  /\ flag' = [flag EXCEPT ![store[t]] = UNMARKED]
  /\ disposed' = [disposed EXCEPT ![store[t]] = 0]
  /\ Return(store[t], w)
  /\ UNCHANGED <<state, type, store_chunk, gc_free, fsocfl, ceilVars>>

PopFree(t, w) ==
  /\ gc_free[t] # <<>>
  /\ gc_free' = [gc_free EXCEPT ![t] = Pop(@)]
  /\ flag' = [flag EXCEPT ![Top(gc_free[t])] = UNMARKED]
  /\ disposed' = [disposed EXCEPT ![Top(gc_free[t])] = 0]
  /\ Return(Top(gc_free[t]), w)
  /\ UNCHANGED <<chunkVars, fsocfl, ceilVars>>

NewFromFree(t, w) ==
  /\ pc = "run"
  /\ ~StoreHasMany(t)
  /\ PopFree(t, w)

\* The last slot of the store chunk, which becomes a used chunk.
NewLast(t, w) ==
  /\ pc = "run"
  /\ store_left[t] = 1 /\ gc_free[t] = <<>>
  /\ store_left' = [store_left EXCEPT ![t] = 0]
  /\ state' = [state EXCEPT ![store_chunk[t]] = "used"]
  /\ store' = [store EXCEPT ![t] = <<@[1], @[2] + 1>>]
  /\ flag' = [flag EXCEPT ![store[t]] = UNMARKED]
  /\ disposed' = [disposed EXCEPT ![store[t]] = 0]
  /\ Return(store[t], w)
  /\ UNCHANGED <<type, store_chunk, gc_free, fsocfl, ceilVars>>

\* Chunk c becomes the store chunk of t and its first slot is returned.  The
\* headers of its other slots hold whatever was in that memory.
Carve(t, w, c) ==
  /\ state' = [state EXCEPT ![c] = "store"]
  /\ type' = [type EXCEPT ![c] = t]
  /\ store_chunk' = [store_chunk EXCEPT ![t] = c]
  /\ store' = [store EXCEPT ![t] = <<c, 2>>]
  /\ store_left' = [store_left EXCEPT ![t] = Slots - 1]
  /\ \E g \in Garbage :
        flag' = [o \in Obj |-> IF o = <<c, 1>> THEN UNMARKED
                               ELSE IF o[1] = c THEN g ELSE flag[o]]
  /\ disposed' = [o \in Obj |-> IF o[1] = c THEN 0 ELSE disposed[o]]
  /\ Return(<<c, 1>>, w)
  /\ UNCHANGED gc_free

TakeFreeChunk(t, w) ==
  /\ fsocfl # <<>>
  /\ fsocfl' = Pop(fsocfl)
  /\ Carve(t, w, Top(fsocfl))
  /\ UNCHANGED ceilVars

\* se_malloc returns any address that is not in use.
MallocChunk(t, w) ==
  /\ fsocfl = <<>>
  /\ \E c \in Chunk : state[c] = "none" /\ Carve(t, w, c)
  /\ fsoc_count' = fsoc_count + 1
  /\ UNCHANGED fsocfl

Exhausted(t) == store_left[t] = 0 /\ gc_free[t] = <<>>

\* gc_fsoc_get1 finds a chunk: in fsocfl, or by malloc below the ceiling.
NewFromGet1(t, w) ==
  /\ pc = "run" /\ Exhausted(t)
  /\ \/ TakeFreeChunk(t, w)
     \/ /\ fsoc_count_ceil > fsoc_count
        /\ MallocChunk(t, w)
        /\ UNCHANGED fsoc_count_ceil

\* gc_update_ceils, for fixed-size chunks, when n chunks exist.
UpdatedCeil(n) ==
  CASE Strategy = "low" -> n
    [] Strategy = "high" -> (256 + n) * 4
    [] Strategy = "default" ->
         IF n < fsoc_count_ceil THEN fsoc_count_ceil
         ELSE IF fsoc_count_ceil < FsocLimit THEN 2 * fsoc_count_ceil
         ELSE IF fsoc_count_ceil < n + n \div 3 THEN n + n \div 3
         ELSE fsoc_count_ceil

\* Back from gc_start: a slot freed by the collection, else gc_fsoc_get2.
ResumeFree ==
  /\ pc = "resume"
  /\ PopFree(req[1], req[2])

ResumeGet2 ==
  /\ pc = "resume" /\ gc_free[req[1]] = <<>>
  /\ \/ TakeFreeChunk(req[1], req[2])
     \/ /\ MallocChunk(req[1], req[2])
        /\ fsoc_count_ceil' = UpdatedCeil(fsoc_count + 1)

\* se_malloc finds no memory: it reports the error and exits.
OutOfMemory ==
  /\ fsocfl = <<>> /\ \A c \in Chunk : state[c] # "none"
  /\ pc' = "halt" /\ req' = <<>>
  /\ UNCHANGED <<chunkVars, flag, attr, gc_free, fsocfl, ceilVars, gcVars,
                 progVars, grey, sweepVars, histVars>>

NewFails(t) ==
  /\ pc = "run" /\ Exhausted(t) /\ fsoc_count_ceil > fsoc_count
  /\ OutOfMemory

ResumeFails ==
  /\ pc = "resume" /\ gc_free[req[1]] = <<>>
  /\ OutOfMemory
----------------------------------------------------------------------------
(***************************************************************************)
(* gc_start: the tests that skip a collection, the mark phase.             *)
(***************************************************************************)

ToVisitAgain(S) == S   \* mutant: the test of the mark is dropped

\* gc_markXXX visits an object only if it is not marked yet.
ToVisit(S) == {o \in S : flag[o] = UNMARKED}

\* The objects of S are marked and their attributes are to be visited; done is
\* the object whose attributes led to S.
Mark(S, done) ==
  /\ flag' = [o \in Obj |-> IF o \in ToVisit(S) THEN MARKED ELSE flag[o]]
  /\ grey' = (grey \ done) \cup ToVisit(S)

FreeListsKept == gc_free   \* mutant: the reset of gc_free is missing

\* just_before_mark: the free lists of slots are rebuilt by the sweep.
FreeListsBeforeMark == [t \in Types |-> <<>>]

\* just_before_mark, then the exact roots.
StartMarking ==
  /\ gc_free' = FreeListsBeforeMark
  /\ Mark({global[g] : g \in Globals} \ {Nil}, {})
  /\ pc' = "mark_globals"
  /\ UNCHANGED ceilVars

\* garbage_delayed, for a program whose resizable chunks are below their ceiling.
Delayed(large) == large /\ fsoc_count_ceil <= fsoc_count /\ fsoc_count < FsocLimit

\* The call of gc_start made by request r (<<>>: MEMORY.full_collect).
GcStart(r) ==
  /\ collector_counter < MaxCollections
  /\ req' = r
  /\ \E large \in LargeStack :
       IF gc_is_off \/ Delayed(large)
       THEN /\ pc' = IF r = <<>> THEN "run" ELSE "resume"
            /\ fsoc_count_ceil' = IF gc_is_off THEN fsoc_count_ceil
                                  ELSE fsoc_count_ceil + 1
            /\ UNCHANGED <<gc_free, flag, grey, fsoc_count>>
       ELSE StartMarking
  /\ UNCHANGED <<chunkVars, attr, fsocfl, gcVars, progVars, sweepVars, histVars>>

NewCollects(t, w) ==
  /\ pc = "run" /\ Exhausted(t)
  /\ fsocfl = <<>> /\ fsoc_count_ceil <= fsoc_count
  /\ GcStart(<<t, w>>)

FullCollect ==
  /\ "collect" \in Ops /\ pc = "run"
  /\ \E c \in Chunk : state[c] # "none"   \* the root object exists
  /\ GcStart(<<>>)

\* mutant: the item of a weak reference is marked like an attribute
FollowedWeakToo(o) == {attr[o][f] : f \in Fields} \ {Nil}

\* What gc_markXXX follows: the attributes, but not the item of a weak
\* reference.
Followed(o) == IF type[o[1]] \in WeakTypes THEN {}
               ELSE {attr[o][f] : f \in Fields} \ {Nil}

\* The recursion of gc_markXXX, grey being its pending calls.
MarkAttributes ==
  /\ pc \in {"mark_globals", "mark_stack"}
  /\ \E o \in grey : Mark(Followed(o), {o})
  /\ UNCHANGED <<chunkVars, attr, gc_free, fsocfl, ceilVars, gcVars, progVars,
                 pc, req, sweepVars, histVars>>

\* mutant: off by one in the comparison with store
IsRootShort(p) ==
  /\ p # Nil
  /\ \/ state[p[1]] = "used"
     \/ state[p[1]] = "store" /\ Below(<<p[1], p[2] + 1>>, store[type[p[1]]])

\* gc_find_chunk and gc_align_markXXX: is the word p taken for an object?
IsRoot(p) ==
  /\ p # Nil
  /\ \/ state[p[1]] = "used"
     \/ state[p[1]] = "store" /\ Below(p, store[type[p[1]]])

\* mark_stack_and_registers, once everything else is marked.
MarkStack ==
  /\ pc = "mark_globals" /\ grey = {}
  /\ Mark({p \in {word[w] : w \in Words} : IsRoot(p)}, {})
  /\ pc' = "mark_stack"
  /\ UNCHANGED <<chunkVars, attr, gc_free, fsocfl, ceilVars, gcVars, progVars,
                 req, sweepVars, histVars>>
----------------------------------------------------------------------------
(***************************************************************************)
(* gc_sweep: every chunk of gcmt in address order, slot by slot.           *)
(***************************************************************************)

\* The chunks a sweep calls gc_sweepXXX on.
ToSweep(c) == c \in Chunk /\ state[c] \in {"store", "used"}

\* gc_sweepXXX is entered for chunk c: it saves the free list of c's type.
EnterChunk(c, lists) ==
  /\ cur' = <<c, 1>>
  /\ dead' = TRUE
  /\ old_gc_free' = IF ToSweep(c) THEN lists[type[c]] ELSE <<>>

BeginSweep ==
  /\ pc = "mark_stack" /\ grey = {}
  /\ pc' = "sweep"
  /\ EnterChunk(1, gc_free)
  /\ UNCHANGED <<chunkVars, flag, attr, gc_free, fsocfl, ceilVars, gcVars,
                 progVars, req, grey, histVars>>

Sweeping == pc \in {"sweep", "exit"}

\* mutant: the loop stops one slot before store
InUseShort(o) ==
  \/ state[o[1]] = "used"
  \/ state[o[1]] = "store" /\ Below(<<o[1], o[2] + 1>>, store[type[o[1]]])

\* The loop bound of gc_sweepXXX: the whole of a used chunk, a store chunk up to
\* store.
InUse(o) ==
  \/ state[o[1]] = "used"
  \/ state[o[1]] = "store" /\ Below(o, store[type[o[1]]])

\* obj_ptr <= wr: the sweep has passed i when it visits o.
Swept(i, o) == ~Below(o, i)

\* gc_update_weak_ref_itemXXX, emitted when the item has a single type.
LostMonomorph(i, o, fl) == Swept(i, o) # (fl[i] = MARKED)

\* gc_update_weak_ref_item_polymorph: does weak reference o lose its item i?
LostPolymorph(i, o, fl) == Swept(i, o) # (fl[i] = UNMARKED)

\* is_monomorphic_weak_ref: which of the two versions type t is compiled with.
Monomorphic(t) == Cardinality(Holds[t]) = 1

LostItem(i, o, fl) ==
  i # Nil /\ IF Monomorphic(type[o[1]]) THEN LostMonomorph(i, o, fl)
             ELSE LostPolymorph(i, o, fl)

\* A marked object survives; a weak reference checks its item.
SweepMarked ==
  /\ Sweeping /\ ToSweep(cur[1]) /\ cur[2] \in Slot
  /\ InUse(cur) /\ flag[cur] = MARKED
  /\ LET fl == [flag EXCEPT ![cur] = UNMARKED]
     IN  /\ flag' = fl
         /\ attr' = IF type[cur[1]] \in WeakTypes
                    THEN [attr EXCEPT ![cur] =
                            [f \in Fields |-> IF LostItem(attr[cur][f], cur, fl)
                                              THEN Nil ELSE attr[cur][f]]]
                    ELSE attr
  /\ dead' = FALSE
  /\ cur' = <<cur[1], cur[2] + 1>>
  /\ UNCHANGED <<chunkVars, gc_free, fsocfl, ceilVars, gcVars, progVars, pc,
                 req, grey, old_gc_free, histVars>>

HoldsObjectAlways(o) == TRUE   \* mutant: dispose without its test

\* The test of memory_dispose.
HoldsObject(o) == flag[o] = UNMARKED

\* Any other slot goes to the free list; dispose is called if it held an
\* object.  The attributes left in free memory are not modelled.
SweepOther ==
  /\ Sweeping /\ ToSweep(cur[1]) /\ cur[2] \in Slot
  /\ InUse(cur) /\ flag[cur] # MARKED
  /\ disposed' = IF HoldsObject(cur) /\ type[cur[1]] \in Disposables
                 THEN [disposed EXCEPT ![cur] = IF @ < 2 THEN @ + 1 ELSE 2]
                 ELSE disposed
  /\ alloc' = alloc \ {cur}
  /\ flag' = [flag EXCEPT ![cur] = NEXT]
  /\ attr' = [attr EXCEPT ![cur] = [f \in Fields |-> Nil]]
  /\ gc_free' = [gc_free EXCEPT ![type[cur[1]]] = Push(@, cur)]
  /\ cur' = <<cur[1], cur[2] + 1>>
  /\ UNCHANGED <<chunkVars, fsocfl, ceilVars, gcVars, progVars, pc, req, grey,
                 dead, old_gc_free>>

AllSwept == cur[2] = Slots + 1 \/ ~InUse(cur)

ChunkIsUsed == state[cur[1]] = "used"   \* mutant: dead is not reset to 0

\* A used chunk without survivors.
ChunkIsDead == state[cur[1]] = "used" /\ dead

FreeListKept == gc_free[type[cur[1]]]   \* mutant: gc_free is not restored

\* The free list without the slots of the chunk just swept.
FreeListRestored == old_gc_free

\* It leaves its type: gc_free is restored and the chunk joins fsocfl.
SweptDead ==
  /\ Sweeping /\ ToSweep(cur[1]) /\ AllSwept /\ ChunkIsDead
  /\ gc_free' = [gc_free EXCEPT ![type[cur[1]]] = FreeListRestored]
  /\ fsocfl' = Push(fsocfl, cur[1])
  /\ state' = [state EXCEPT ![cur[1]] = "free"]
  /\ alloc' = {o \in alloc : o[1] # cur[1]}
  /\ EnterChunk(cur[1] + 1, gc_free')
  /\ UNCHANGED <<type, store, store_left, store_chunk, flag, attr, ceilVars,
                 gcVars, progVars, pc, req, grey, disposed>>

\* Any other chunk stays as it is.
SweptOther ==
  /\ Sweeping /\ cur[1] \in Chunk
  /\ ToSweep(cur[1]) => AllSwept /\ ~ChunkIsDead
  /\ EnterChunk(cur[1] + 1, gc_free)
  /\ UNCHANGED <<chunkVars, flag, attr, gc_free, fsocfl, ceilVars, gcVars,
                 progVars, pc, req, grey, histVars>>

EndSweep ==
  /\ Sweeping /\ cur[1] = NChunks + 1
  /\ pc' = IF pc = "exit" THEN "halt" ELSE IF req = <<>> THEN "run" ELSE "resume"
  /\ collector_counter' = IF pc = "exit" THEN collector_counter ELSE collector_counter + 1
  /\ cur' = <<1, 1>>
  /\ UNCHANGED <<chunkVars, flag, attr, gc_free, fsocfl, ceilVars, gc_is_off,
                 gc_info_nb, progVars, req, grey, dead, old_gc_free, histVars>>

\* gc_dispose_before_exit: the sweep functions run with nothing marked, and
\* with the free lists as the program left them.
Exit ==
  /\ "exit" \in Ops /\ pc = "run"
  /\ pc' = IF DisposeBeforeExit THEN "exit" ELSE "halt"
  /\ EnterChunk(1, gc_free)
  /\ UNCHANGED <<chunkVars, flag, attr, gc_free, fsocfl, ceilVars, gcVars,
                 progVars, req, grey, histVars>>
----------------------------------------------------------------------------
(***************************************************************************)
(* The Eiffel program: it reads and writes through live words and once     *)
(* results only, and a word that goes out of scope keeps its contents      *)
(* until it is reused.                                                     *)
(***************************************************************************)
heapVars == <<chunkVars, flag, gc_free, fsocfl, ceilVars, pc, req, grey,
              sweepVars, histVars>>

\* The objects the program has in hand.
Held == ({word[w] : w \in {v \in Words : live[v]}} \cup {global[g] : g \in Globals}) \ {Nil}

Assign(o, f, x) ==
  /\ "assign" \in Ops /\ pc = "run" /\ o \in Held
  /\ x \in Held => type[x[1]] \in Holds[type[o[1]]]
  /\ attr' = [attr EXCEPT ![o][f] = x]
  /\ UNCHANGED <<heapVars, progVars, gcVars>>

Load(w, f, v) ==
  /\ "load" \in Ops /\ pc = "run" /\ live[w] /\ word[w] # Nil
  /\ word' = [word EXCEPT ![v] = attr[word[w]][f]]
  /\ live' = [live EXCEPT ![v] = TRUE]
  /\ UNCHANGED <<heapVars, attr, global, gcVars>>

LeaveScope(w) ==
  /\ "leave" \in Ops /\ pc = "run" /\ live[w]
  /\ live' = [live EXCEPT ![w] = FALSE]
  /\ UNCHANGED <<heapVars, attr, word, global, gcVars>>

\* A once function is evaluated: its result stays a root.
OnceResult(g, w) ==
  /\ "once" \in Ops /\ pc = "run" /\ live[w] /\ global[g] = Nil
  /\ global' = [global EXCEPT ![g] = word[w]]
  /\ UNCHANGED <<heapVars, attr, word, live, gcVars>>

\* MEMORY.collection_on and collection_off.
Switch ==
  /\ "switch" \in Ops /\ pc = "run" /\ gc_info_nb \in SwitchAt
  /\ gc_is_off' = ~gc_is_off
  /\ UNCHANGED <<heapVars, attr, progVars, collector_counter, gc_info_nb>>

Program ==
  \/ \E o \in Held, f \in Fields : \E x \in Held \cup {Nil} : Assign(o, f, x)
  \/ \E w, v \in Words, f \in Fields : Load(w, f, v)
  \/ \E w \in Words : LeaveScope(w)
  \/ \E g \in Globals, w \in Words : OnceResult(g, w)
  \/ Switch

Allocate ==
  /\ gc_info_nb < MaxNew
  /\ \E t \in Types, w \in Words :
       \/ NewFromStore(t, w) \/ NewFromFree(t, w) \/ NewLast(t, w)
       \/ NewFromGet1(t, w) \/ NewCollects(t, w) \/ NewFails(t)

Collector ==
  \/ MarkAttributes \/ MarkStack \/ BeginSweep
  \/ SweepMarked \/ SweepOther \/ SweptDead \/ SweptOther \/ EndSweep
  \/ ResumeFree \/ ResumeGet2 \/ ResumeFails

Halted == pc = "halt" /\ UNCHANGED vars

Next ==
  \/ Program \/ Allocate \/ FullCollect \/ Collector
  \/ Exit \/ Halted

Spec == Init /\ [][Next]_vars /\ WF_vars(Collector)
----------------------------------------------------------------------------
(***************************************************************************)
(* Properties.                                                             *)
(***************************************************************************)
\* No collection is under way.
AtRest == pc \in {"run", "resume"}

\* Whenever the program runs, every reference it can read (in a live stack word,
\* a once result, or an attribute of any object, weak items included) is Void or
\* designates an allocated object: newXXX and gc_start together never recycle
\* memory the program can still reach.
NoDangling ==
  AtRest => LET Safe == alloc \cup {Nil} IN
    /\ \A w \in Words : live[w] => word[w] \in Safe
    /\ \A g \in Globals : global[g] \in Safe
    /\ \A o \in alloc, f \in Fields : attr[o][f] \in Safe

Injective(s) == \A i, j \in DOMAIN s : s[i] = s[j] => i = j
Members(s) == {s[i] : i \in DOMAIN s}

\* Between collections no mark is left, every free slot is exactly once in the
\* free list of its type and nothing else is, every free chunk is exactly once in
\* fsocfl, and only the chunk a type is filling is in the store state: no slot is
\* ever handed out twice and none is lost.
HeapPartition ==
  AtRest =>
    /\ \A o \in alloc : flag[o] = UNMARKED
    /\ alloc = {o \in Obj : InUse(o) /\ flag[o] # NEXT}
    /\ \A t \in Types :
         /\ Injective(gc_free[t])
         /\ Members(gc_free[t]) =
              {o \in Obj : InUse(o) /\ flag[o] = NEXT /\ type[o[1]] = t}
    /\ Injective(fsocfl)
    /\ Members(fsocfl) = {c \in Chunk : state[c] = "free"}
    /\ \A c \in Chunk : state[c] = "store" =>
         /\ store_chunk[type[c]] = c
         /\ store[type[c]] = <<c, Slots + 1 - store_left[type[c]]>>
         /\ store_left[type[c]] > 0
    /\ fsoc_count = Cardinality({c \in Chunk : state[c] # "none"})

\* dispose is called exactly once on every object of a type that defines it, when
\* its slot is reclaimed: never on an object still allocated, and not again at
\* later sweeps of the free slot, the sweep before exit included.
DisposedOnce ==
  \A o \in Obj :
    /\ InUse(o) \/ state[o[1]] = "free"
    /\ type[o[1]] \in Disposables
    => disposed[o] = IF o \in alloc THEN 0 ELSE 1

\* What marking reaches from the once results and from every stack word that
\* designates an object, dead words included.
Reached ==
  LET Targets(o) == {attr[o][f] : f \in Fields} \ {Nil}
      Strong(S) == S \cup UNION {Targets(o) : o \in {p \in S : type[p[1]] \notin WeakTypes}}
      R[n \in 0..Cardinality(Obj)] ==
        IF n = 0
        THEN ({global[g] : g \in Globals} \ {Nil})
             \cup {word[w] : w \in {x \in Words : word[x] \in alloc}}
        ELSE Strong(R[n - 1])
  IN  R[Cardinality(Obj)]

\* A collection is exact: when gc_start ends, the allocated objects are those
\* reachable from the roots, no more (nothing unreachable floats to the next
\* collection) and no less.
CollectExact == [][pc = "sweep" /\ pc' # "sweep" => (alloc = Reached)']_vars

\* A weak reference that survives a collection loses its item only if the item
\* is reclaimed, whichever of the two the sweep visits first.
WeakItemKept ==
  [][\A o \in Obj, f \in Fields :
       /\ pc = "sweep" /\ type[o[1]] \in WeakTypes
       /\ flag'[o] = UNMARKED /\ attr'[o][f] # attr[o][f]
       => attr[o][f] \notin Reached]_vars

\* gc_dispose_before_exit leaves no object undisposed.
ExitReclaimsAll == [][pc = "exit" /\ pc' = "halt" => alloc' = {}]_vars

\* The chunk count never passes the ceiling that gc_fsoc_get1 compares it with:
\* whenever a chunk is forced by gc_fsoc_get2 the ceiling follows, under every
\* strategy, with collections delayed, switched off or fruitless.
FsocWithinCeil == fsoc_count <= fsoc_count_ceil

\* A call of gc_start, and the newXXX that made it, returns (or se_malloc ends the
\* program): marking terminates on cyclic structures, the sweep reaches the end.
CollectionEnds == pc \notin {"run", "halt"} ~> pc \in {"run", "halt"}
============================================================================
