------------------------------- MODULE Arena -------------------------------
(***************************************************************************)
(* The generational arena that holds the nodes of vue-rs-reactive          *)
(* (crates/vue-rs-reactive/src/runtime.rs, struct Arena).  A handle is an  *)
(* index and a generation; it outlives its node in every closure that      *)
(* captured it, so it may be used at any time after the node is disposed.  *)
(***************************************************************************)
EXTENDS Integers, Sequences

CONSTANTS
  Node,      \* what a slot can hold
  None,      \* Option::None
  GenSpace,  \* the number of generations: 2^32
  MaxSlots   \* bound on the number of slots

ASSUME ArenaAssumption ==
  /\ None \notin Node
  /\ GenSpace \in Nat /\ GenSpace > 1
  /\ MaxSlots \in Nat

VARIABLES
  slots,  \* Arena::slots
  free,   \* Arena::free
  live,   \* history: the handles of the nodes that exist, each with its node
  stale   \* history: the handles of disposed nodes, each with its age

vars == <<slots, free, live, stale>>

Slot == [generation : 0 .. GenSpace - 1, node : Node \cup {None}]

(* The age of a stale handle is the number of times that a node has been   *)
(* removed from its slot since the handle was issued, up to GenSpace.      *)
Live  == [index : Nat \ {0}, generation : 0 .. GenSpace - 1, node : Node]
Stale == [index : Nat \ {0}, generation : 0 .. GenSpace - 1, age : 1 .. GenSpace]

(* Arena::get, for the handle h. *)
Get(h) ==
  IF h.index \in DOMAIN slots /\ slots[h.index].generation = h.generation
  THEN slots[h.index].node ELSE None

-----------------------------------------------------------------------------
Init == slots = <<>> /\ free = <<>> /\ live = {} /\ stale = {}

(* What `free.pop()` leaves.  (Bug: the slot is only looked up.) *)
Peeked == free
Popped == SubSeq(free, 1, Len(free) - 1)

(* Arena::insert, with a slot that was freed. *)
Reuse(n) ==
  /\ free # <<>>
  /\ LET index == free[Len(free)]
     IN /\ slots' = [slots EXCEPT ![index] = [@ EXCEPT !.node = n]]
        /\ live' = live \cup {[index |-> index, generation |-> slots[index].generation, node |-> n]}
  /\ free' = Popped
  /\ UNCHANGED stale

(* Arena::insert, with a slot of its own. *)
Grow(n) ==
  /\ free = <<>> /\ Len(slots) < MaxSlots
  /\ slots' = Append(slots, [generation |-> 0, node |-> n])
  /\ live' = live \cup {[index |-> Len(slots) + 1, generation |-> 0, node |-> n]}
  /\ UNCHANGED <<free, stale>>

(* u32::wrapping_add(1).  (Bug: the generation stays.) *)
SameGeneration(g) == g
NextGeneration(g) == IF g + 1 = GenSpace THEN 0 ELSE g + 1

(* Every stale handle of the slot grows older. *)
Age(h, index) ==
  IF h.index = index /\ h.age < GenSpace THEN [h EXCEPT !.age = @ + 1] ELSE h

(* Arena::remove, for any handle the program still has. *)
Remove(h) ==
  /\ Get(h) # None
  /\ LET index == h.index
     IN /\ slots' = [slots EXCEPT ![index] = [generation |-> NextGeneration(@.generation),
                                             node |-> None]]
        /\ free' = Append(free, index)
        /\ live' = {x \in live : x.index # index}
        /\ stale' = {Age(x, index) : x \in stale}
                      \cup {[index |-> index, generation |-> h.generation, age |-> 1]}

Next ==
  \/ \E n \in Node : Reuse(n) \/ Grow(n)
  \/ \E h \in live \cup stale : Remove(h)

Spec == Init /\ [][Next]_vars

-----------------------------------------------------------------------------
(* The type of every variable. *)
TypeOK ==
  /\ slots \in Seq(Slot)
  /\ free \in Seq(Nat \ {0})
  /\ live \subseteq Live /\ stale \subseteq Stale

(* A handle leads to the node it was issued for as long as that exists,    *)
(* and to nothing afterwards, until the slot has changed hands as often as *)
(* there are generations.                                                  *)
HandlesResolve ==
  /\ \A h \in live : Get(h) = h.node
  /\ \A h \in stale : h.age < GenSpace => Get(h) = None

(* The free list holds every empty slot once: an insertion never takes the *)
(* slot of a node that exists, and no slot is lost.                        *)
FreeSlotsEmpty ==
  /\ \A i \in DOMAIN free : free[i] \in DOMAIN slots /\ slots[free[i]].node = None
  /\ \A i, j \in DOMAIN free : free[i] = free[j] => i = j
  /\ \A k \in DOMAIN slots : slots[k].node = None => \E i \in DOMAIN free : free[i] = k
=============================================================================
