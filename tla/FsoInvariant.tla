---------------------------- MODULE FsoInvariant ----------------------------
(***************************************************************************)
(* The inductive invariant of FsoHeap: what holds in the middle of a       *)
(* collection and makes NoDangling and DisposedOnce true at its end, and,  *)
(* on top of it, HeapPartition and CollectExact.                           *)
(***************************************************************************)
EXTENDS FsoHeap

\* The instances the code is right for: chunks of at least two objects, and no
\* weak reference whose item has a single type (see LostMonomorph).
SafeInstance == Slots >= 2 /\ \A t \in WeakTypes : ~Monomorphic(t)

Marking == pc \in {"mark_globals", "mark_stack"}

\* The thread's control: what each program point knows of the request.
ControlOK ==
  /\ pc = "run" => req = <<>>
  /\ pc = "resume" => req # <<>>
  /\ req # <<>> => gc_info_nb < MaxNew /\ store_left[req[1]] = 0
  /\ Marking \/ pc = "sweep" => collector_counter < MaxCollections
  /\ ~Marking => grey = {}

\* A chunk in the store state is the one its type is filling.
StoreOK ==
  /\ \A c \in Chunk : state[c] = "store" =>
       /\ store_chunk[type[c]] = c
       /\ store_left[type[c]] \in 1..Slots - 1
       /\ store[type[c]] = <<c, Slots + 1 - store_left[type[c]]>>
  /\ \A t \in Types : store_left[t] > 0 =>
       /\ store_chunk[t] \in Chunk
       /\ state[store_chunk[t]] = "store"
       /\ type[store_chunk[t]] = t

\* The headers tell which slots hold an object.
AllocOK == alloc = {o \in Obj : InUse(o) /\ flag[o] # NEXT}

\* Marks exist only from the mark phase until the sweep has passed.
MarksOK ==
  \A o \in alloc :
    ~Marking /\ (pc = "sweep" => Below(o, cur)) => flag[o] = UNMARKED

\* Free lists hold free slots of their type, once; during a sweep, slots it has
\* passed, and old_gc_free only slots of the chunks before the current one.
FreeSlot(o, t) == InUse(o) /\ flag[o] = NEXT /\ type[o[1]] = t

FreeListsOK ==
  pc \in {"run", "resume", "mark_globals", "mark_stack", "sweep"} =>
    /\ \A t \in Types :
         /\ Injective(gc_free[t])
         /\ \A i \in DOMAIN gc_free[t] :
              /\ ~Marking
              /\ FreeSlot(gc_free[t][i], t)
              /\ pc = "sweep" => Below(gc_free[t][i], cur)
    /\ pc = "sweep" /\ ToSweep(cur[1]) =>
         /\ Injective(old_gc_free)
         /\ \A i \in DOMAIN old_gc_free :
              /\ FreeSlot(old_gc_free[i], type[cur[1]])
              /\ old_gc_free[i][1] < cur[1]

FreeChunksOK ==
  /\ Injective(fsocfl)
  /\ \A i \in DOMAIN fsocfl : state[fsocfl[i]] = "free"

\* While the program runs, and until marking ends, no reference dangles.
Closed(S) ==
  /\ \A w \in Words : live[w] => word[w] \in S \cup {Nil}
  /\ \A g \in Globals : global[g] \in S \cup {Nil}
  /\ \A o \in S, f \in Fields :
       type[o[1]] \notin WeakTypes => attr[o][f] \in S \cup {Nil}

WeakClosed(S) ==
  \A o \in S, f \in Fields : attr[o][f] \in alloc \cup {Nil}

ClosedOK ==
  AtRest \/ Marking => Closed(alloc) /\ WeakClosed(alloc)

\* Marking: what has been visited is marked and so are its attributes.
MarkingOK ==
  Marking =>
    /\ grey \subseteq alloc
    /\ \A o \in grey : flag[o] = MARKED
    /\ \A g \in Globals : global[g] = Nil \/ flag[global[g]] = MARKED
    /\ \A o \in alloc \ grey : flag[o] = MARKED =>
         \A x \in Followed(o) : flag[x] = MARKED
    /\ pc = "mark_stack" =>
         \A w \in Words : live[w] /\ word[w] # Nil => flag[word[w]] = MARKED

\* The sweep: the objects that stay.
Survivors == {o \in alloc : Below(o, cur) \/ flag[o] = MARKED}

SweepOK ==
  pc = "sweep" =>
    /\ Closed(Survivors)
    /\ \A o \in Survivors, f \in Fields :
         LET i == attr[o][f] IN
         type[o[1]] \in WeakTypes /\ i # Nil =>
           IF Below(o, cur) THEN i \in Survivors
           ELSE i \in alloc \/ (Below(i, cur) /\ flag[i] = NEXT)

\* dead: only free slots so far in the chunk being swept.
DeadOK ==
  Sweeping /\ ToSweep(cur[1]) /\ dead =>
    \A s \in Slot : s < cur[2] => flag[<<cur[1], s>>] = NEXT

\* All of it.
IInv ==
  /\ TypeOK /\ ControlOK /\ StoreOK /\ AllocOK /\ MarksOK /\ FreeListsOK
  /\ FreeChunksOK /\ ClosedOK /\ MarkingOK /\ SweepOK /\ DeadOK /\ DisposedOnce
----------------------------------------------------------------------------
(* Every free slot is in the list of its type: between collections, and    *)
(* as far as the sweep has come.  old_gc_free has those of the chunks      *)
(* before the current one, so that it may stand for the whole list.        *)
FreeListsFull ==
  /\ AtRest => \A t \in Types, o \in Obj : FreeSlot(o, t) => o \in Members(gc_free[t])
  /\ pc = "sweep" =>
       /\ \A t \in Types, o \in Obj :
            FreeSlot(o, t) /\ Below(o, cur) => o \in Members(gc_free[t])
       /\ ToSweep(cur[1]) => \A o \in Obj :
            FreeSlot(o, type[cur[1]]) /\ o[1] < cur[1] => o \in Members(old_gc_free)

FreeChunksFull == \A c \in Chunk : state[c] = "free" => c \in Members(fsocfl)

Allocated == {c \in Chunk : state[c] # "none"}
CountExact == fsoc_count = Cardinality(Allocated)

PartInv == FreeListsFull /\ FreeChunksFull /\ CountExact
----------------------------------------------------------------------------
(* What a collection is exact by: marking reaches what is reachable and    *)
(* nothing else, every word that designates an object is marked before the *)
(* sweep, which then keeps what is reached; the sweep before exit leaves   *)
(* nothing behind it.                                                      *)
ExactInv ==
  /\ Marking => \A o \in alloc : flag[o] = MARKED => o \in Reached
  /\ pc = "mark_stack" => \A w \in Words : word[w] \in alloc => flag[word[w]] = MARKED
  /\ pc = "sweep" => Survivors = Reached
  /\ pc = "exit" => \A o \in alloc : ~Below(o, cur)

\* What a collection rests on, all together.
CollectorInv == IInv /\ PartInv /\ ExactInv
=============================================================================
