---------------------------- MODULE ManagedHeap ----------------------------
(***************************************************************************)
(* What the memory manager promises to an Eiffel program, whatever         *)
(* collector implements it: a created object is new, the object graph      *)
(* changes only by assignments, an object disappears only when the program *)
(* cannot reach it, and then the weak references to it become Void at      *)
(* once.  When, and how much, is reclaimed is left open.                   *)
(***************************************************************************)
CONSTANTS Object,   \* the addresses an object may have
          Void,
          Fields,
          Words,    \* the program's variables
          Globals   \* the once functions

VARIABLES alive,    \* the objects that exist
          weak,     \* those that are weak references
          attr, word, global,
          running

vars == <<alive, weak, attr, word, global, running>>

NoAttributes == [f \in Fields |-> Void]

Init ==
  /\ alive = {} /\ weak = {}
  /\ attr = [o \in Object |-> NoAttributes]
  /\ word = [w \in Words |-> Void]
  /\ global = [g \in Globals |-> Void]
  /\ running = TRUE

Create(o, w, W) ==
  /\ running /\ o \notin alive
  /\ alive' = alive \cup {o}
  /\ weak' = weak \cup W
  /\ word' = [word EXCEPT ![w] = o]
  /\ UNCHANGED <<attr, global, running>>

\* What the program has in its variables and its once results.
Held == ({word[w] : w \in Words} \cup {global[g] : g \in Globals}) \ {Void}

Assign(o, f, x) ==
  /\ running /\ o \in Held /\ x \in Held \cup {Void}
  /\ attr' = [attr EXCEPT ![o][f] = x]
  /\ UNCHANGED <<alive, weak, word, global, running>>

Load(w, f, v) ==
  /\ running /\ word[w] # Void
  /\ word' = [word EXCEPT ![v] = attr[word[w]][f]]
  /\ UNCHANGED <<alive, weak, attr, global, running>>

Forget(w) ==
  /\ running
  /\ word' = [word EXCEPT ![w] = Void]
  /\ UNCHANGED <<alive, weak, attr, global, running>>

OnceResult(g, w) ==
  /\ running /\ global[g] = Void
  /\ global' = [global EXCEPT ![g] = word[w]]
  /\ UNCHANGED <<alive, weak, attr, word, running>>

\* A set that a collection may keep: it has the roots, and everything a kept
\* object refers to other than weakly.
Keeps(S) ==
  /\ \A w \in Words : word[w] \in S \cup {Void}
  /\ \A g \in Globals : global[g] \in S \cup {Void}
  /\ \A o \in S \ weak, f \in Fields : attr[o][f] \in S \cup {Void}

Reclaim(S) ==
  /\ running /\ S \subseteq alive /\ Keeps(S)
  /\ alive' = S
  /\ weak' = weak \cap S
  /\ attr' = [o \in Object |-> [f \in Fields |->
                IF o \in S /\ attr[o][f] \in S THEN attr[o][f] ELSE Void]]
  /\ UNCHANGED <<word, global, running>>

Terminate ==
  /\ running' = FALSE
  /\ alive' = {} /\ weak' = {}
  /\ attr' = [o \in Object |-> NoAttributes]
  /\ UNCHANGED <<word, global>>

Next ==
  \/ \E o \in Object, w \in Words : \E W \in {{}, {o}} : Create(o, w, W)
  \/ \E o \in Held, f \in Fields : \E x \in Held \cup {Void} : Assign(o, f, x)
  \/ \E w, v \in Words, f \in Fields : Load(w, f, v)
  \/ \E w \in Words : Forget(w)
  \/ \E g \in Globals, w \in Words : OnceResult(g, w)
  \/ \E S \in SUBSET alive : Reclaim(S)
  \/ Terminate

Spec == Init /\ [][Next]_vars
============================================================================
