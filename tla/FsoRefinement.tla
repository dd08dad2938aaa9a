--------------------------- MODULE FsoRefinement ---------------------------
(***************************************************************************)
(* FsoHeap implements ManagedHeap.  The objects a collection reclaims      *)
(* disappear, for the program, when the sweep begins: the sweep itself,    *)
(* the pushes on the free lists and the repair of weak references are      *)
(* invisible, because the program waits until they are done.               *)
(***************************************************************************)
EXTENDS FsoHeap

Ended == pc \in {"exit", "halt"}

\* During a sweep, what has survived so far or is marked and to survive.
Survives(o) == IF Below(o, cur) THEN o \in alloc ELSE flag[o] = MARKED

Alive == IF Ended THEN {}
         ELSE IF pc = "sweep" THEN {o \in alloc : Survives(o)}
         ELSE alloc

AbstractWeak == {o \in Alive : type[o[1]] \in WeakTypes}

AbstractAttr ==
  [o \in Obj |-> [f \in Fields |->
     IF o \in Alive /\ attr[o][f] \in Alive THEN attr[o][f] ELSE Nil]]

AbstractWord == [w \in Words |-> IF live[w] THEN word[w] ELSE Nil]

Abstract == INSTANCE ManagedHeap WITH
  Object <- Obj, Void <- Nil,
  alive <- Alive, weak <- AbstractWeak, attr <- AbstractAttr,
  word <- AbstractWord, running <- ~Ended

\* The allocator and the collector, step by step, do only what the abstract
\* memory manager allows.
ImplementsManagedHeap == Abstract!Spec
============================================================================
