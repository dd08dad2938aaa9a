------------------------------ MODULE RsoHeap ------------------------------
(***************************************************************************)
(* The heap of resizable objects (RSO): the native arrays of the           *)
(* SmartEiffel collector.  Chunks are obtained with malloc, split, shrunk, *)
(* merged and given back; inside a chunk the arrays and the free blocks    *)
(* follow each other, each behind a header that holds its size.  Most of   *)
(* it is sys/runtime/c/gc_lib.c; newXXX and the reset before marking are   *)
(* emitted for each type of native array.                                  *)
(*                                                                         *)
(* The unit of memory is sizeof(rsoh), to which newXXX rounds sizes.  An   *)
(* array is known by the address of its header, a chunk by its own.        *)
(***************************************************************************)
EXTENDS Naturals, Sequences, FiniteSets, SequencesExt

CONSTANTS
  RSOC_SIZE, RSOC_MIN_STORE,
  Overhead,        \* sizeof(rsoc) - sizeof(rsoh): what precedes the first header
  Memory,          \* bound: the addresses are 1..Memory
  Places,          \* bound: the addresses se_malloc may return
  Types,           \* the native array types: one na_env each
  Sizes,           \* the sizes the program asks for of each type, header included
  NWords,          \* the words of the C stack and the registers
  Ints,            \* addresses that dead stack words may hold by accident
  Fields,          \* the attributes of live objects that hold an array
  Strategy,        \* se_gc_strategy
  CeilAtStart,     \* rsoc_count_ceil as computed by compute_ceils
  RSOC_LIMIT,
  LargeStack,      \* subset of BOOLEAN: may gc_stack_size exceed GCLARGESTACK?
  MayFreeMin,      \* the 50 of may_free_rsocfl
  Ops,             \* the operations the Eiffel program uses
  MaxCollections,  \* bound on collector_counter
  MaxNew           \* bound on the number of arrays created

ASSUME RsoAssumption ==
  /\ RSOC_SIZE \in Nat /\ Overhead \in Nat \ {0} /\ RSOC_SIZE > Overhead + 1
  /\ RSOC_MIN_STORE \in Nat \ {0, 1}
  /\ Memory \in Nat /\ Places \subseteq 1..Memory
  /\ Ints \subseteq 1..Memory /\ Types # {}
  /\ Sizes \in [Types -> SUBSET (Nat \ {0, 1})] /\ NWords \in Nat
  /\ Strategy \in {"default", "low", "high"}
  /\ CeilAtStart \in Nat \ {0} /\ RSOC_LIMIT \in Nat /\ MayFreeMin \in Nat
  /\ LargeStack \subseteq BOOLEAN /\ FALSE \in LargeStack
  /\ MaxCollections \in Nat /\ MaxNew \in Nat

Addr == 1..Memory
Words == 1..NWords

\* magic_flag; DATA stands for a word that is no header.
UNMARKED == "unmarked"
MARKED == "marked"
FREE == "free"
DATA == "data"

VARIABLES
  gcmt,          \* the chunk addresses, in increasing order
  chunk,         \* the header of each chunk
  rsoh,          \* the header of each array and free block, stale ones included
  nae,           \* the na_env of each type
  rsocfl,        \* the free list of chunks, its head first
  rsoc_count, rsoc_count_ceil,
  gc_is_off, collector_counter,
  created,       \* arrays created
  word, live,    \* the stack words, and which the program may still read
  attr,          \* the arrays held by live objects: roots known exactly
  pc,
  req,           \* the <<type, size, word>> of the new_na under way, or <<>>
  wi,            \* mark_stack_and_registers: the word examined
  pf,            \* gcna_align_mark: the block the walk has reached
  p1,            \* gc_sweep: index in gcmt of the chunk visited
  gp, pp,        \* rsoc_sweep: current block, end of the free run (0: none)
  rest, where,   \* may_free_rsocfl: chunks still to examine, last index found
  regions,       \* history: the <<address, size>> obtained from malloc
  heads,         \* history: where the blocks of the used chunks begin
  arrays         \* history: the <<header, size>> returned and not reclaimed

memVars == <<gcmt, chunk, rsoh, nae, rsocfl, rsoc_count>>
gcVars == <<gc_is_off, collector_counter>>
progVars == <<created, word, live, attr>>
markVars == <<wi, pf>>
sweepVars == <<p1, gp, pp, rest, where>>
histVars == <<regions, heads, arrays>>
vars == <<memVars, rsoc_count_ceil, gcVars, progVars, pc, req, markVars,
          sweepVars, histVars>>

Pc == {"run", "new", "mark", "walk", "enter", "sweep", "link", "free", "resume", "halt"}
NoChunk == [state |-> "none", size |-> 0, isize |-> 0,
            nae |-> CHOOSE t \in Types : TRUE, flol |-> <<>>]

TypeOK ==
  /\ gcmt \in Seq(Addr) /\ rsocfl \in Seq(Addr) /\ rest \in Seq(Addr)
  /\ chunk \in [Addr -> [state : {"none", "used", "free"}, size : Nat,
                         isize : Nat, nae : Types, flol : Seq(Addr)]]
  /\ rsoh \in [Addr -> [size : Nat, flag : {UNMARKED, MARKED, FREE, DATA}]]
  /\ nae \in [Types -> [store_left : Nat, store : Addr \cup {0},
                        store_chunk : Addr \cup {0}, chunk_list : Seq(Addr)]]
  /\ rsoc_count \in Nat /\ rsoc_count_ceil \in Nat
  /\ gc_is_off \in BOOLEAN /\ collector_counter \in 0..MaxCollections
  /\ created \in 0..MaxNew
  /\ word \in [Words -> Addr \cup {0}] /\ live \in [Words -> BOOLEAN]
  /\ attr \in [Fields -> Addr \cup {0}]
  /\ pc \in Pc /\ req \in {<<>>} \cup {<<t, n, w>> : t \in Types, n \in UNION Range(Sizes), w \in Words}
  /\ wi \in 1..NWords + 1 /\ pf \in Nat
  /\ p1 \in Nat /\ gp \in Nat /\ pp \in Nat /\ where \in Nat
  /\ regions \in SUBSET (Addr \X Nat) /\ heads \in SUBSET Addr
  /\ arrays \in SUBSET (Addr \X Nat)

Init ==
  /\ gcmt = <<>> /\ chunk = [a \in Addr |-> NoChunk]
  /\ rsoh = [a \in Addr |-> [size |-> 0, flag |-> DATA]]
  /\ nae = [t \in Types |-> [store_left |-> 0, store |-> 0, store_chunk |-> 0,
                             chunk_list |-> <<>>]]
  /\ rsocfl = <<>> /\ rsoc_count = 0 /\ rsoc_count_ceil = CeilAtStart
  /\ gc_is_off = FALSE /\ collector_counter = 0 /\ created = 0
  /\ word = [w \in Words |-> 0] /\ live = [w \in Words |-> FALSE]
  /\ attr = [f \in Fields |-> 0]
  /\ pc = "run" /\ req = <<>> /\ wi = 1 /\ pf = 0
  /\ p1 = 1 /\ gp = 0 /\ pp = 0 /\ rest = <<>> /\ where = 0
  /\ regions = {} /\ heads = {} /\ arrays = {}
----------------------------------------------------------------------------
(***************************************************************************)
(* The table of chunks.                                                    *)
(***************************************************************************)
First(c) == c + Overhead          \* &(c->first_header)
End(c) == c + chunk[c].size

\* binary_search_in_gcmt: the index, from 0, where c is or is to be.
Search(min, max, c) ==
  LET Bounds == (0..Len(gcmt)) \X (0..Len(gcmt))
      S[b \in Bounds] ==
        LET lo == b[1]
            hi == b[2]
            mid == (lo + hi) \div 2
        IN  IF lo < hi
            THEN IF gcmt[mid + 1] < c THEN S[<<mid + 1, hi>>] ELSE S[<<lo, mid>>]
            ELSE IF gcmt[lo + 1] < c THEN lo + 1 ELSE lo
  IN  S[<<min, max>>]

\* gc_add_into_gcmt.
Added(c) == IF gcmt = <<>> THEN <<c>>
            ELSE InsertAt(gcmt, Search(0, Len(gcmt) - 1, c) + 1, c)

\* The addresses where malloc may put n units.
Available(n) ==
  {a \in Places : /\ a + n - 1 <= Memory
                  /\ \A r \in regions : a + n <= r[1] \/ r[1] + r[2] <= a}
----------------------------------------------------------------------------
(***************************************************************************)
(* newXXX and new_na.                                                      *)
(***************************************************************************)
\* The caller keeps the array in word w.
Return(h, n, w) ==
  /\ word' = [word EXCEPT ![w] = h]
  /\ live' = [live EXCEPT ![w] = TRUE]
  /\ arrays' = arrays \cup {<<h, n>>}
  /\ created' = created + 1
  /\ pc' = "run" /\ req' = <<>>
  /\ UNCHANGED <<attr, gcVars, markVars, sweepVars>>

\* The header of an array of n units at h, and its cleared contents.
Cleared(h, n) ==
  [a \in Addr |-> IF a = h THEN [size |-> n, flag |-> UNMARKED]
                  ELSE IF a \in h + 1..h + n - 1 THEN [size |-> 0, flag |-> DATA]
                  ELSE rsoh[a]]

TooSmallNever(left) == left < 1   \* mutant: a header alone is left as a block

\* Is what remains in the store too small for another header and contents?
TooSmall(left) == left <= 1

\* rso_from_store, e being the na_env of t.
FromStore(t, e, n, w) ==
  LET left == e.store_left - n
      whole == TooSmall(left)
  IN  /\ nae' = [nae EXCEPT ![t] =
                   [e EXCEPT !.store_left = IF whole THEN 0 ELSE left,
                             !.store = IF whole THEN @ ELSE @ + n]]
      /\ rsoh' = Cleared(e.store, IF whole THEN e.store_left ELSE n)
      /\ heads' = heads \cup {e.store} \cup (IF whole THEN {} ELSE {e.store + n})
      /\ Return(e.store, n, w)

\* newXXX: the store is large enough.
NewFromStore(t, n, w) ==
  /\ pc = "run" /\ n <= nae[t].store_left
  /\ FromStore(t, nae[t], n, w)
  /\ UNCHANGED <<gcmt, chunk, rsocfl, rsoc_count, rsoc_count_ceil, regions>>

\* new_na begins: what is left of the store becomes a free block.
NewNa(t, n, w) ==
  /\ pc = "run" /\ n > nae[t].store_left
  /\ collector_counter < MaxCollections
  /\ LET e == nae[t] IN
     IF e.store_left > 0
     THEN /\ rsoh' = [rsoh EXCEPT ![e.store] = [size |-> e.store_left, flag |-> FREE]]
          /\ chunk' = IF e.store_left >= RSOC_MIN_STORE
                      THEN [chunk EXCEPT ![e.store_chunk].flol = Cons(e.store, @)]
                      ELSE chunk
          /\ nae' = [nae EXCEPT ![t].store_left = 0]
     ELSE UNCHANGED <<rsoh, chunk, nae>>
  /\ pc' = "new" /\ req' = <<t, n, w>>
  /\ UNCHANGED <<gcmt, rsocfl, rsoc_count, rsoc_count_ceil, gcVars, progVars,
                 markVars, sweepVars, histVars>>

\* get_store_in: the first block of the free list of c with room for n.
Fits(c, n) == {i \in DOMAIN chunk[c].flol : rsoh[chunk[c].flol[i]].size >= n}

GetStoreIn(c, t, n, w) ==
  LET i == Min(Fits(c, n))
      f == chunk[c].flol[i]
  IN  /\ chunk' = [chunk EXCEPT ![c].flol = RemoveAt(@, i)]
      /\ FromStore(t, [nae[t] EXCEPT !.store_left = rsoh[f].size, !.store = f,
                                     !.store_chunk = c], n, w)
      /\ UNCHANGED <<gcmt, rsocfl, rsoc_count, rsoc_count_ceil, regions>>

StoreChunkFits(t, n) ==
  nae[t].store_chunk # 0 /\ Fits(nae[t].store_chunk, n) # {}

NewInStoreChunk(t, n, w) ==
  /\ pc = "new" /\ req = <<t, n, w>>
  /\ StoreChunkFits(t, n)
  /\ GetStoreIn(nae[t].store_chunk, t, n, w)

\* new_na goes on with its other sources, before or after a collection.
Looking(t, n, w) ==
  /\ req = <<t, n, w>>
  /\ \/ pc = "new" /\ ~StoreChunkFits(t, n)
     \/ pc = "resume" /\ n > nae[t].store_left

ListFits(t, n) ==
  {i \in DOMAIN nae[t].chunk_list : Fits(nae[t].chunk_list[i], n) # {}}

NewInChunkList(t, n, w) ==
  /\ Looking(t, n, w) /\ ListFits(t, n) # {}
  /\ GetStoreIn(nae[t].chunk_list[Min(ListFits(t, n))], t, n, w)

\* rsocfl_best_fit, for a chunk of n units: its index in rsocfl.  The first
\* chunk that loses little is taken, else the first of the smallest.
AcceptableLoss(n) == CASE Strategy = "default" -> n \div 16
                       [] Strategy = "low" -> 0
                       [] Strategy = "high" -> n \div 4

ChunkFits(n) == {i \in DOMAIN rsocfl : chunk[rsocfl[i]].size >= n}

BestFit(n) ==
  LET sz(i) == chunk[rsocfl[i]].size
      good == {i \in ChunkFits(n) : sz(i) - n <= AcceptableLoss(n)}
  IN  IF good # {} THEN Min(good)
      ELSE Min({i \in ChunkFits(n) : \A j \in ChunkFits(n) : sz(i) <= sz(j)})

\* Chunk c, of n units, is used by t from now on.
Used(old, c, n, t) ==
  [old EXCEPT ![c] = [@ EXCEPT !.state = "used", !.size = n, !.nae = t, !.flol = <<>>]]

IsSplit(c, n) == chunk[c].size - n > RSOC_MIN_STORE * 4

\* A chunk of rsocfl.  Of a large one, the end is split off, or the rest given
\* up: an array larger than RSOC_SIZE is alone in its chunk.
NewInFreeChunk(t, n, w) ==
  LET csize == n + Overhead
      i == BestFit(csize)
      c == rsocfl[i]
      large == chunk[c].size > RSOC_SIZE
      tail == End(c) - csize
      Env(d, m) == [nae[t] EXCEPT !.store = First(d), !.store_chunk = d,
                                  !.store_left = m - Overhead]
  IN  /\ Looking(t, n, w) /\ ListFits(t, n) = {} /\ ChunkFits(csize) # {}
      /\ \/ /\ large /\ IsSplit(c, csize)
            /\ chunk' = Used([chunk EXCEPT ![c].size = @ - csize, ![tail].isize = 0],
                             tail, csize, t)
            /\ rsocfl' = Cons(c, RemoveAt(rsocfl, i))
            /\ gcmt' = Added(tail)
            /\ FromStore(t, Env(tail, csize), n, w)
         \/ /\ large /\ ~IsSplit(c, csize)
            /\ chunk' = Used(chunk, c, csize, t)
            /\ rsocfl' = RemoveAt(rsocfl, i)
            /\ FromStore(t, Env(c, csize), n, w)
            /\ UNCHANGED gcmt
         \/ /\ ~large
            /\ chunk' = Used(chunk, c, chunk[c].size, t)
            /\ rsocfl' = RemoveAt(rsocfl, i)
            /\ FromStore(t, Env(c, chunk[c].size), n, w)
            /\ UNCHANGED gcmt
      /\ UNCHANGED <<rsoc_count, rsoc_count_ceil, regions>>

Nothing(t, n, w) ==
  Looking(t, n, w) /\ ListFits(t, n) = {} /\ ChunkFits(n + Overhead) = {}

\* chunk_rounded
Rounded(n) == ((n + RSOC_SIZE - 1) \div RSOC_SIZE) * RSOC_SIZE

\* A new chunk: an array larger than RSOC_SIZE leaves the na_env alone, for
\* another one the chunk becomes the store and joins chunk_list (rsoc_malloc).
Malloc(t, n, w) ==
  LET big == n + Overhead > RSOC_SIZE
      m == IF big THEN Rounded(n + Overhead) ELSE RSOC_SIZE
  IN  \E c \in Available(m) :
        /\ chunk' = Used([chunk EXCEPT ![c].isize = m], c, m, t)
        /\ gcmt' = Added(c)
        /\ regions' = regions \cup {<<c, m>>}
        /\ rsoc_count' = rsoc_count + 1
        /\ IF big
           THEN /\ rsoh' = Cleared(First(c), n)
                /\ heads' = heads \cup {First(c)}
                /\ Return(First(c), n, w)
                /\ UNCHANGED nae
           ELSE FromStore(t, [store_left |-> RSOC_SIZE - Overhead, store |-> First(c),
                              store_chunk |-> c,
                              chunk_list |-> Cons(c, nae[t].chunk_list)], n, w)
        /\ UNCHANGED rsocfl

NewMalloc(t, n, w) ==
  /\ pc = "new" /\ Nothing(t, n, w)
  /\ rsoc_count < rsoc_count_ceil
  /\ Malloc(t, n, w)
  /\ UNCHANGED rsoc_count_ceil

\* gc_update_ceils, for resizable chunks, when n chunks exist.
UpdatedCeil(n) ==
  CASE Strategy = "low" -> n
    [] Strategy = "high" -> (256 + n) * 4
    [] Strategy = "default" ->
         IF n < rsoc_count_ceil THEN rsoc_count_ceil
         ELSE IF rsoc_count_ceil < RSOC_LIMIT THEN 2 * rsoc_count_ceil
         ELSE IF rsoc_count_ceil < n + n \div 3 THEN n + n \div 3
         ELSE rsoc_count_ceil

\* Back from gc_start: the store it left, else as above, and malloc at last.
ResumeFromStore(t, n, w) ==
  /\ pc = "resume" /\ req = <<t, n, w>>
  /\ n <= nae[t].store_left
  /\ FromStore(t, nae[t], n, w)
  /\ UNCHANGED <<gcmt, chunk, rsocfl, rsoc_count, rsoc_count_ceil, regions>>

ResumeMalloc(t, n, w) ==
  /\ pc = "resume" /\ Nothing(t, n, w)
  /\ Malloc(t, n, w)
  /\ rsoc_count_ceil' = UpdatedCeil(rsoc_count + 1)

\* se_malloc finds no memory: the program ends.
OutOfMemory(t, n, w) ==
  /\ Nothing(t, n, w)
  /\ pc = "resume" \/ rsoc_count < rsoc_count_ceil
  /\ Available(IF n + Overhead > RSOC_SIZE THEN Rounded(n + Overhead) ELSE RSOC_SIZE) = {}
  /\ pc' = "halt" /\ req' = <<>>
  /\ UNCHANGED <<memVars, rsoc_count_ceil, gcVars, progVars, markVars, sweepVars,
                 histVars>>
----------------------------------------------------------------------------
(***************************************************************************)
(* gc_start: the reset of the na_env, then the roots.                      *)
(***************************************************************************)
StoresUntouched == rsoh   \* mutant: the header of the store is not written

\* just_before_mark: the stores become free blocks and the lists are emptied.
StoresFreed ==
  [a \in Addr |-> LET ts == {t \in Types : nae[t].store_left > 0 /\ nae[t].store = a}
                  IN  IF ts = {} THEN rsoh[a]
                      ELSE [size |-> nae[CHOOSE t \in ts : TRUE].store_left, flag |-> FREE]]

\* mutant: the store is kept
StoresRemembered ==
  [t \in Types |-> [nae[t] EXCEPT !.chunk_list = <<>>, !.store_chunk = 0]]

StoresForgotten ==
  [t \in Types |-> [nae[t] EXCEPT !.store_left = 0, !.chunk_list = <<>>,
                                  !.store_chunk = 0]]

\* gc_markXXX of an array found in an object: no test is needed.
MarkedExactly(old) ==
  [a \in Addr |-> IF a \in {attr[f] : f \in Fields}
                  THEN [old[a] EXCEPT !.flag = MARKED] ELSE old[a]]

\* garbage_delayed, for a program whose fixed-size chunks are below their ceiling.
Delayed(large) ==
  large /\ rsoc_count_ceil <= rsoc_count /\ rsoc_count < RSOC_LIMIT

\* The call of gc_start made by request r (<<>>: MEMORY.full_collect).
GcStart(r) ==
  /\ req' = r
  /\ \E large \in LargeStack :
       IF gc_is_off \/ Delayed(large)
       THEN /\ pc' = IF r = <<>> THEN "run" ELSE "resume"
            /\ rsoc_count_ceil' = IF gc_is_off THEN rsoc_count_ceil
                                  ELSE rsoc_count_ceil + 1
            /\ UNCHANGED <<rsoh, nae, wi>>
       ELSE /\ rsoh' = MarkedExactly(StoresFreed)
            /\ nae' = StoresForgotten
            /\ pc' = "mark" /\ wi' = 1
            /\ UNCHANGED rsoc_count_ceil
  /\ UNCHANGED <<gcmt, chunk, rsocfl, rsoc_count, gcVars, progVars, pf, sweepVars,
                 histVars>>

NewCollects(t, n, w) ==
  /\ pc = "new" /\ Nothing(t, n, w)
  /\ rsoc_count >= rsoc_count_ceil
  /\ GcStart(<<t, n, w>>)

FullCollect ==
  /\ "collect" \in Ops /\ pc = "run"
  /\ collector_counter < MaxCollections /\ gcmt # <<>>
  /\ GcStart(<<>>)

\* gc_find_chunk, for the pointer to the contents of an array at h.
ChunkOf(h) == {c \in ToSet(gcmt) : /\ c <= h /\ h + 1 < End(c)
                                   /\ chunk[c].state = "used"}

\* The first tests of gcna_align_mark.  The contents of an array may look like
\* an unmarked header.
MayBeArray(h) ==
  /\ h # 0 /\ ChunkOf(h) # {}
  /\ rsoh[h].flag \in {UNMARKED, DATA}
  /\ \A c \in ChunkOf(h) : h >= First(c)

MarkVarsRest == <<gcmt, chunk, nae, rsocfl, rsoc_count, rsoc_count_ceil, gcVars,
                  progVars, req, sweepVars, histVars>>

NextWord(mark) ==
  /\ wi' = wi + 1 /\ pc' = "mark"
  /\ rsoh' = IF mark THEN [rsoh EXCEPT ![word[wi]].flag = MARKED] ELSE rsoh
  /\ UNCHANGED <<MarkVarsRest, pf>>

SkipWord ==
  /\ pc = "mark" /\ wi \in Words
  /\ ~MayBeArray(word[wi])
  /\ NextWord(FALSE)

\* In a large chunk only its first header counts.
MarkLarge ==
  /\ pc = "mark" /\ wi \in Words
  /\ MayBeArray(word[wi])
  /\ \E c \in ChunkOf(word[wi]) :
       /\ chunk[c].size > RSOC_SIZE
       /\ NextWord(word[wi] = First(c))

\* mutant: the blocks behind h are not told apart
WalkStartLast(c, h) == IF chunk[c].flol = <<>> THEN First(c) ELSE Last(chunk[c].flol)

\* The walk starts behind a free block that precedes h: the last of those the
\* loop over free_list_of_large passes.
WalkStart(c, h) ==
  LET L == chunk[c].flol
      n == Cardinality({i \in DOMAIN L : \A j \in 1..i : L[j] <= h})
  IN  IF n = 0 THEN First(c) ELSE L[n]

StartWalk ==
  /\ pc = "mark" /\ wi \in Words
  /\ MayBeArray(word[wi])
  /\ \E c \in ChunkOf(word[wi]) :
       /\ chunk[c].size <= RSOC_SIZE
       /\ pf' = WalkStart(c, word[wi])
  /\ pc' = "walk"
  /\ UNCHANGED <<MarkVarsRest, rsoh, wi>>

Walk ==
  /\ pc = "walk" /\ pf < word[wi]
  /\ pf' = pf + rsoh[pf].size
  /\ UNCHANGED <<MarkVarsRest, rsoh, wi, pc>>

ReachedAnyway(h) == TRUE   \* mutant: the header is trusted

\* Is h the header the walk ended at?
Reached(h) == pf = h

EndWalk ==
  /\ pc = "walk" /\ pf >= word[wi]
  /\ NextWord(Reached(word[wi]))
----------------------------------------------------------------------------
(***************************************************************************)
(* gc_sweep and rsoc_sweep.                                                *)
(***************************************************************************)
cur == gcmt[p1]

BeginSweep ==
  /\ pc = "mark" /\ wi = NWords + 1
  /\ pc' = "enter" /\ p1' = 1 /\ rsocfl' = <<>>
  /\ UNCHANGED <<gcmt, chunk, rsoh, nae, rsoc_count, rsoc_count_ceil, gcVars,
                 progVars, req, markVars, gp, pp, rest, where, histVars>>

\* rsoc_sweep is called on a used chunk.
EnterChunk ==
  /\ pc = "enter" /\ p1 <= Len(gcmt)
  /\ IF chunk[cur].state = "used"
     THEN /\ chunk' = [chunk EXCEPT ![cur].flol = <<>>]
          /\ gp' = First(cur) /\ pp' = 0
          /\ pc' = "sweep"
     ELSE pc' = "link" /\ UNCHANGED <<chunk, gp, pp>>
  /\ UNCHANGED <<gcmt, rsoh, nae, rsocfl, rsoc_count, rsoc_count_ceil, gcVars,
                 progVars, req, markVars, p1, rest, where, histVars>>

sweepRest == <<gcmt, rsocfl, rsoc_count, rsoc_count_ceil, gcVars, progVars, req,
               markVars, p1, rest, where, regions>>

Without(h) == {a \in arrays : a[1] # h}
InChunk(c) == {h \in heads : c <= h /\ h < End(c)}

StillMarked(h) == rsoh   \* mutant: the mark is not reset

Unmarked(h) == [rsoh EXCEPT ![h].flag = UNMARKED]

\* A large chunk holds one array.
SweepLarge ==
  /\ pc = "sweep" /\ chunk[cur].size > RSOC_SIZE
  /\ IF rsoh[gp].flag = MARKED
     THEN /\ rsoh' = Unmarked(gp)
          /\ UNCHANGED <<chunk, arrays, heads>>
     ELSE /\ chunk' = [chunk EXCEPT ![cur].state = "free"]
          /\ arrays' = Without(gp)
          /\ heads' = heads \ InChunk(cur)
          /\ UNCHANGED rsoh
  /\ pc' = "link"
  /\ UNCHANGED <<sweepRest, nae, gp, pp>>

InBlocks == pc = "sweep" /\ chunk[cur].size <= RSOC_SIZE

\* A marked array; if it is the last block, rsoc_sweep returns at once.
SweepMarked ==
  /\ InBlocks /\ pp = 0 /\ gp < End(cur) /\ rsoh[gp].flag = MARKED
  /\ rsoh' = Unmarked(gp)
  /\ gp' = gp + rsoh[gp].size
  /\ pc' = IF gp' >= End(cur) THEN "link" ELSE "sweep"
  /\ UNCHANGED <<sweepRest, chunk, nae, pp, heads, arrays>>

SweepFree ==
  /\ InBlocks /\ pp = 0 /\ gp < End(cur) /\ rsoh[gp].flag # MARKED
  /\ rsoh' = [rsoh EXCEPT ![gp].flag = FREE]
  /\ pp' = gp + rsoh[gp].size
  /\ arrays' = Without(gp)
  /\ UNCHANGED <<sweepRest, chunk, nae, pc, gp, heads>>

\* Is the block at a joined to the free run?
Coalesces(a) == a < End(cur) /\ rsoh[a].flag # MARKED

Coalesce ==
  /\ InBlocks /\ pp # 0 /\ Coalesces(pp)
  /\ rsoh' = [rsoh EXCEPT ![gp].size = @ + rsoh[pp].size]
  /\ pp' = pp + rsoh[pp].size
  /\ arrays' = Without(pp)
  /\ heads' = heads \ {pp}
  /\ UNCHANGED <<sweepRest, chunk, nae, pc, gp>>

\* The free run at gp becomes the store, pushing back a smaller one, or joins
\* the free list of its chunk; small ones are forgotten.
CloseRun ==
  LET t == chunk[cur].nae
      e == nae[t]
      n == rsoh[gp].size
      AsStore == [nae EXCEPT ![t] = [@ EXCEPT !.store_left = n, !.store = gp,
                                              !.store_chunk = cur]]
      Filed(c, h) == [chunk EXCEPT ![c].flol = Cons(h, @)]
  IN  /\ InBlocks /\ pp # 0 /\ ~Coalesces(pp)
      /\ \/ /\ n < RSOC_MIN_STORE
            /\ UNCHANGED <<nae, chunk>>
         \/ /\ n >= RSOC_MIN_STORE /\ e.store_left = 0
            /\ nae' = AsStore /\ UNCHANGED chunk
         \/ /\ n >= RSOC_MIN_STORE /\ e.store_left # 0 /\ rsoh[e.store].size < n
            /\ nae' = AsStore /\ chunk' = Filed(e.store_chunk, e.store)
         \/ /\ n >= RSOC_MIN_STORE /\ e.store_left # 0 /\ rsoh[e.store].size >= n
            /\ chunk' = Filed(cur, gp) /\ UNCHANGED nae
      /\ gp' = pp /\ pp' = 0
      /\ UNCHANGED <<sweepRest, rsoh, pc, heads, arrays>>

WholeKept(c) == FALSE   \* mutant: an empty chunk is never given back

\* Does one free block fill the chunk?
WholeFree(c) == rsoh[First(c)].size >= chunk[c].size - Overhead

\* The end of the chunk, when its last block is free.
EndChunk ==
  LET t == chunk[cur].nae IN
  /\ InBlocks /\ pp = 0 /\ gp >= End(cur)
  /\ IF WholeFree(cur)
     THEN /\ chunk' = [chunk EXCEPT ![cur].state = "free"]
          /\ nae' = [nae EXCEPT ![t].store_chunk = 0, ![t].store_left = 0]
          /\ heads' = heads \ InChunk(cur)
     ELSE /\ nae' = [nae EXCEPT ![t].chunk_list = Cons(cur, @)]
          /\ UNCHANGED <<chunk, heads>>
  /\ pc' = "link"
  /\ UNCHANGED <<sweepRest, rsoh, gp, pp, arrays>>

\* mutant: any free chunk is merged with the one before
MergesUnsplit(c) ==
  /\ p1 > 1 /\ chunk[gcmt[p1 - 1]].state = "free"
  /\ End(gcmt[p1 - 1]) = c

\* Free chunk c was split off the free chunk before it.
Merges(c) ==
  /\ p1 > 1 /\ chunk[gcmt[p1 - 1]].state = "free"
  /\ chunk[c].isize = 0 /\ End(gcmt[p1 - 1]) = c

\* gc_sweep rebuilds rsocfl and the table.
Link ==
  /\ pc = "link"
  /\ \/ /\ chunk[cur].state = "used"
        /\ p1' = p1 + 1
        /\ UNCHANGED <<gcmt, chunk, rsocfl>>
     \/ /\ chunk[cur].state = "free" /\ ~Merges(cur)
        /\ rsocfl' = Cons(cur, rsocfl)
        /\ p1' = p1 + 1
        /\ UNCHANGED <<gcmt, chunk>>
     \/ /\ chunk[cur].state = "free" /\ Merges(cur)
        /\ chunk' = [chunk EXCEPT ![gcmt[p1 - 1]].size = @ + chunk[cur].size,
                                  ![cur] = NoChunk]
        /\ gcmt' = RemoveAt(gcmt, p1)
        /\ UNCHANGED <<rsocfl, p1>>
  /\ pc' = "enter"
  /\ UNCHANGED <<rsoh, nae, rsoc_count, rsoc_count_ceil, gcVars, progVars, req,
                 markVars, gp, pp, rest, where, histVars>>

\* may_free_rsocfl: are there enough free chunks?
FreesChunks == Len(rsocfl) > MayFreeMin /\ Len(rsocfl) > rsoc_count \div 2

MayFree ==
  /\ pc = "enter" /\ p1 > Len(gcmt) /\ FreesChunks
  /\ rest' = rsocfl /\ rsocfl' = <<>> /\ where' = Len(gcmt)
  /\ pc' = "free"
  /\ UNCHANGED <<gcmt, chunk, rsoh, nae, rsoc_count, rsoc_count_ceil, gcVars,
                 progVars, req, markVars, p1, gp, pp, histVars>>

\* The chunk is what malloc returned, with nothing split off.
IsWhole(c) == chunk[c].isize = chunk[c].size

\* The search goes on below the last index found: rsocfl is in decreasing order.
FreeChunk ==
  /\ pc = "free" /\ rest # <<>>
  /\ LET c == Head(rest) IN
     IF IsWhole(c)
     THEN /\ where' = Search(0, where - 1, c)
          /\ gcmt' = RemoveAt(gcmt, where' + 1)
          /\ chunk' = [chunk EXCEPT ![c] = NoChunk]
          /\ regions' = {r \in regions : r[1] # c}
          /\ rsoc_count' = rsoc_count - 1
          /\ UNCHANGED rsocfl
     ELSE /\ rsocfl' = Cons(c, rsocfl)
          /\ UNCHANGED <<where, gcmt, chunk, regions, rsoc_count>>
  /\ rest' = Tail(rest)
  /\ UNCHANGED <<rsoh, nae, rsoc_count_ceil, gcVars, progVars, pc, req, markVars,
                 p1, gp, pp, heads, arrays>>

EndSweep ==
  /\ \/ pc = "enter" /\ p1 > Len(gcmt) /\ ~FreesChunks
     \/ pc = "free" /\ rest = <<>>
  /\ pc' = IF req = <<>> THEN "run" ELSE "resume"
  /\ collector_counter' = collector_counter + 1
  /\ UNCHANGED <<memVars, rsoc_count_ceil, gc_is_off, progVars, req, markVars,
                 sweepVars, histVars>>
----------------------------------------------------------------------------
(***************************************************************************)
(* The Eiffel program.                                                     *)
(***************************************************************************)
progRest == <<memVars, rsoc_count_ceil, collector_counter, created, req, markVars,
              sweepVars, histVars>>

\* A local is no longer used; its slot of the stack keeps the pointer, or gets an
\* integer, an uninitialised local of another call...
LeaveScope(w) ==
  /\ "leave" \in Ops /\ pc = "run" /\ live[w]
  /\ live' = [live EXCEPT ![w] = FALSE]
  /\ \E v \in {word[w], 0} \cup Ints : word' = [word EXCEPT ![w] = v]
  /\ UNCHANGED <<progRest, attr, gc_is_off, pc>>

\* An object keeps an array, or drops the one it kept.
Assign(f, h) ==
  /\ "assign" \in Ops /\ pc = "run" /\ attr[f] # h
  /\ h = 0 \/ \E w \in Words : live[w] /\ word[w] = h
  /\ attr' = [attr EXCEPT ![f] = h]
  /\ UNCHANGED <<progRest, word, live, gc_is_off, pc>>

\* MEMORY.collection_on and collection_off.
Switch ==
  /\ "switch" \in Ops /\ pc = "run"
  /\ gc_is_off' = ~gc_is_off
  /\ UNCHANGED <<progRest, word, live, attr, pc>>

\* gc_dispose_before_exit leaves native arrays alone.
Exit ==
  /\ "exit" \in Ops /\ pc = "run"
  /\ pc' = "halt"
  /\ UNCHANGED <<progRest, word, live, attr, gc_is_off>>

Program ==
  \/ \E w \in Words : LeaveScope(w)
  \/ \E f \in Fields, h \in Addr \cup {0} : Assign(f, h)
  \/ Switch
  \/ Exit

New ==
  /\ created < MaxNew
  /\ \E t \in Types : \E n \in Sizes[t], w \in Words : NewFromStore(t, n, w) \/ NewNa(t, n, w)

NewGoesOn ==
  \E t \in Types : \E n \in Sizes[t], w \in Words :
    \/ NewInStoreChunk(t, n, w) \/ NewInChunkList(t, n, w) \/ NewInFreeChunk(t, n, w)
    \/ NewMalloc(t, n, w) \/ NewCollects(t, n, w) \/ ResumeFromStore(t, n, w)
    \/ ResumeMalloc(t, n, w) \/ OutOfMemory(t, n, w)

Collector ==
  \/ SkipWord \/ MarkLarge \/ StartWalk \/ Walk \/ EndWalk
  \/ BeginSweep \/ EnterChunk \/ SweepLarge \/ SweepMarked \/ SweepFree \/ Coalesce
  \/ CloseRun \/ EndChunk \/ Link \/ MayFree \/ FreeChunk \/ EndSweep

Halted == pc = "halt" /\ UNCHANGED vars

Next == Program \/ New \/ NewGoesOn \/ FullCollect \/ Collector \/ Halted

Spec == Init /\ [][Next]_vars /\ WF_vars(NewGoesOn \/ Collector)
----------------------------------------------------------------------------
(***************************************************************************)
(* Properties.                                                             *)
(***************************************************************************)
\* No collection is under way.
AtRest == pc \in {"run", "new", "resume"}

Overlap(a, n, b, m) == a < b + m /\ b < a + n
Chunks == ToSet(gcmt)
UsedChunks == {c \in Chunks : chunk[c].state = "used"}
Starts == {a[1] : a \in arrays}

\* Native arrays never share memory, with one another or with what new_na would
\* hand out next: the stores and the blocks of the free lists.
ArraysSafe ==
  AtRest =>
    /\ \A a, b \in arrays : a # b => ~Overlap(a[1], a[2], b[1], b[2])
    /\ \A a \in arrays :
         /\ \E c \in UsedChunks : First(c) <= a[1] /\ a[1] + a[2] <= End(c)
         /\ \A t \in Types : nae[t].store_left > 0 =>
              ~Overlap(a[1], a[2], nae[t].store, nae[t].store_left)
         /\ \A c \in UsedChunks : \A h \in ToSet(chunk[c].flol) :
              ~Overlap(a[1], a[2], h, rsoh[h].size)

\* Whenever the program runs, the arrays its objects and its live stack words
\* refer to have not been reclaimed.
NoDangling ==
  AtRest => /\ \A w \in Words : live[w] => word[w] \in Starts
            /\ \A f \in Fields : attr[f] \in Starts \cup {0}

Extent(h) ==
  IF \E t \in Types : nae[t].store_left > 0 /\ nae[t].store = h
  THEN (CHOOSE e \in {nae[t] : t \in Types} : e.store_left > 0 /\ e.store = h).store_left
  ELSE rsoh[h].size

\* The arrays, the free blocks and the store of a small chunk follow each other
\* from its first header to its end without hole or overlap, through every way
\* new_na cuts them and rsoc_sweep joins them.
HeapTiled ==
  AtRest => \A c \in {d \in UsedChunks : chunk[d].size <= RSOC_SIZE} :
    /\ First(c) \in heads
    /\ \A h \in InChunk(c) : LET e == h + Extent(h) IN
         /\ e > h + 1
         /\ e \in heads \/ e = End(c)
         /\ \A g \in heads : ~(h < g /\ g < e)

\* The table of chunks stays sorted and its chunks disjoint, each inside memory
\* obtained from malloc and not given back, however chunks are split, shrunk,
\* merged and freed; rsocfl has the free ones, and rsoc_count counts the mallocs.
ChunkTable ==
  AtRest =>
    /\ \A i \in 1..Len(gcmt) - 1 : End(gcmt[i]) <= gcmt[i + 1]
    /\ \A c \in Chunks : \E r \in regions : r[1] <= c /\ End(c) <= r[1] + r[2]
    /\ ToSet(rsocfl) = {c \in Chunks : chunk[c].state = "free"}
    /\ IsInjective(rsocfl)
    /\ rsoc_count = Cardinality(regions)

CollectionReturns == pc \in {"enter", "free"} /\ pc' \in {"run", "resume"}

\* When gc_start returns, the arrays left are those a stack word (a dead one too)
\* or an object refers to, whatever earlier collections marked.
CollectExact ==
  [][CollectionReturns =>
       (Starts \subseteq {word[w] : w \in Words} \cup {attr[f] : f \in Fields})']_vars

\* Neither the allocator nor the collector writes into an array of the program.
\* A word may designate a former array, by now inside another one, whose contents
\* look like a header: it must not be marked.
ContentsKept ==
  [][\A a \in arrays \cap arrays' : \A x \in a[1] + 1..a[1] + a[2] - 1 :
       rsoh'[x] = rsoh[x]]_vars

\* When gc_start returns, a used chunk holds an array, and no two free blocks are
\* neighbours: fragmentation does not survive a collection.
Compacted ==
  [][CollectionReturns =>
       (/\ \A c \in UsedChunks : InChunk(c) \cap Starts # {}
        /\ \A h \in heads : h \in Starts \/ h + rsoh[h].size \notin heads \ Starts)']_vars

\* A call of new_na returns, whatever collection it needs: the walks over the
\* blocks and the loops of the sweep end.
NewNaReturns == pc \notin {"run", "halt"} ~> pc \in {"run", "halt"}

\* chunk_list is what gc_lib.h calls it, the list of chunks of that type that have
\* a non-null free_list_of_large.  store_chunk, which new_na searches too, is left
\* out: the blocks of the other chunks are found through chunk_list only.
ChunkListHasAll ==
  pc = "run" => \A c \in UsedChunks : LET e == nae[chunk[c].nae] IN
    chunk[c].flol # <<>> /\ c # e.store_chunk => c \in ToSet(e.chunk_list)
============================================================================
