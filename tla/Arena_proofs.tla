---------------------------- MODULE Arena_proofs ----------------------------
(***************************************************************************)
(* A stale handle never leads to another node, for any number of nodes,    *)
(* slots and generations.                                                  *)
(***************************************************************************)
EXTENDS Arena, TLAPS

(* g, k generations later. *)
Later(g, k) == IF g + k < GenSpace THEN g + k ELSE g + k - GenSpace

(* A live handle matches its slot; a stale one is behind its slot by its   *)
(* age, which is what separates their generations.                         *)
LiveMatch ==
  \A h \in live : /\ h.index \in DOMAIN slots
                  /\ slots[h.index].generation = h.generation
                  /\ slots[h.index].node = h.node
StaleBehind ==
  \A h \in stale :
    /\ h.index \in DOMAIN slots
    /\ h.age < GenSpace => slots[h.index].generation = Later(h.generation, h.age)

ArenaInv == TypeOK /\ LiveMatch /\ StaleBehind /\ FreeSlotsEmpty

(* Replacing an element of a sequence. *)
LEMMA SeqReplace ==
  ASSUME NEW S, NEW s \in Seq(S), NEW k \in DOMAIN s, NEW x \in S
  PROVE  /\ [s EXCEPT ![k] = x] \in Seq(S)
         /\ DOMAIN [s EXCEPT ![k] = x] = DOMAIN s
         /\ [s EXCEPT ![k] = x][k] = x
         /\ \A m \in DOMAIN s : s[m] \in S /\ (m # k => [s EXCEPT ![k] = x][m] = s[m])
OBVIOUS

LEMMA InitInv == Init => ArenaInv
BY ArenaAssumption DEF Init, ArenaInv, TypeOK, LiveMatch, StaleBehind, FreeSlotsEmpty

(* Insertion into a freed slot. *)
LEMMA ReuseInv == ASSUME ArenaInv, NEW n \in Node, Reuse(n) PROVE ArenaInv'
<1> DEFINE index == free[Len(free)]
           G == 0 .. GenSpace - 1
<1>a. TypeOK /\ LiveMatch /\ StaleBehind /\ FreeSlotsEmpty
  BY DEF ArenaInv
<1>1. /\ Len(free) \in Nat /\ Len(free) >= 1 /\ Len(free) \in DOMAIN free
      /\ slots \in Seq(Slot) /\ free \in Seq(Nat \ {0})
  BY <1>a DEF TypeOK, Reuse
<1>2. index \in DOMAIN slots /\ slots[index].node = None
  BY <1>a, <1>1 DEF FreeSlotsEmpty
<1>3. /\ DOMAIN slots = 1 .. Len(slots) /\ Len(slots) \in Nat
      /\ \A k \in DOMAIN slots : slots[k] \in Slot
  BY <1>1
<1> DEFINE new == [slots[index] EXCEPT !.node = n]
<1>4. /\ slots' = [slots EXCEPT ![index] = new]
      /\ new \in Slot /\ new.generation = slots[index].generation /\ new.node = n
      /\ slots[index].generation \in G
  <2>1. slots[index] \in Slot
    BY <1>2, <1>3
  <2> QED
    BY <2>1 DEF Reuse, Slot
<1> HIDE DEF new
<1>5. /\ DOMAIN slots' = DOMAIN slots
      /\ slots'[index].generation = slots[index].generation /\ slots'[index].node = n
      /\ \A k \in DOMAIN slots : k # index => slots'[k] = slots[k]
  BY <1>1, <1>2, <1>4, SeqReplace
<1>6. slots' \in Seq(Slot)
  BY <1>1, <1>2, <1>4, SeqReplace
<1>7. /\ free' \in Seq(Nat \ {0}) /\ DOMAIN free' = 1 .. Len(free) - 1
      /\ \A i \in DOMAIN free' : i \in DOMAIN free /\ i < Len(free) /\ free'[i] = free[i]
  BY <1>1 DEF Reuse, Popped
<1>8. /\ live' = live \cup {[index |-> index, generation |-> slots[index].generation, node |-> n]}
      /\ stale' = stale
  BY DEF Reuse
<1>9. TypeOK'
  <2>1. index \in Nat \ {0} /\ slots[index].generation \in G
    BY <1>2, <1>3, <1>4
  <2> QED
    BY <1>a, <1>6, <1>7, <1>8, <2>1 DEF TypeOK, Live
<1>10. LiveMatch'
  <2>1. \A h \in live : h.index # index /\ h.index \in DOMAIN slots
    BY <1>a, <1>2, ArenaAssumption DEF LiveMatch, TypeOK, Live
  <2> QED
    BY <1>a, <1>2, <1>5, <1>8, <2>1 DEF LiveMatch
<1>11. StaleBehind'
  BY <1>a, <1>5, <1>8 DEF StaleBehind
<1>12. FreeSlotsEmpty'
  <2>1. \A i \in DOMAIN free' : free[i] # index
    BY <1>a, <1>1, <1>7 DEF FreeSlotsEmpty
  <2>2. \A i \in DOMAIN free' : free'[i] \in DOMAIN slots' /\ slots'[free'[i]].node = None
    BY <1>a, <1>5, <1>7, <2>1 DEF FreeSlotsEmpty
  <2>3. \A i, j \in DOMAIN free' : free'[i] = free'[j] => i = j
    BY <1>a, <1>7 DEF FreeSlotsEmpty
  <2>4. ASSUME NEW k \in DOMAIN slots', slots'[k].node = None
        PROVE \E i \in DOMAIN free' : free'[i] = k
    <3>1. k # index /\ k \in DOMAIN slots /\ slots[k].node = None
      BY <1>5, <2>4, ArenaAssumption
    <3>2. PICK i \in DOMAIN free : free[i] = k
      BY <1>a, <3>1 DEF FreeSlotsEmpty
    <3>3. i \in DOMAIN free'
      BY <1>1, <1>7, <3>1, <3>2
    <3> QED
      BY <1>7, <3>2, <3>3
  <2> QED
    BY <2>2, <2>3, <2>4 DEF FreeSlotsEmpty
<1> QED
  BY <1>9, <1>10, <1>11, <1>12 DEF ArenaInv

(* Insertion into a new slot. *)
LEMMA GrowInv == ASSUME ArenaInv, NEW n \in Node, Grow(n) PROVE ArenaInv'
<1> DEFINE new == [generation |-> 0, node |-> n]
<1>a. TypeOK /\ LiveMatch /\ StaleBehind /\ FreeSlotsEmpty
  BY DEF ArenaInv
<1>1. /\ slots \in Seq(Slot) /\ Len(slots) \in Nat /\ DOMAIN slots = 1 .. Len(slots)
      /\ 0 \in 0 .. GenSpace - 1
  BY <1>a, ArenaAssumption DEF TypeOK
<1>2. new \in Slot
  BY <1>1 DEF Slot
<1>3. /\ slots' = Append(slots, new) /\ free' = free /\ free = <<>> /\ stale' = stale
      /\ live' = live \cup {[index |-> Len(slots) + 1, generation |-> 0, node |-> n]}
  BY DEF Grow
<1>4. /\ slots' \in Seq(Slot) /\ DOMAIN slots' = 1 .. Len(slots) + 1
      /\ slots'[Len(slots) + 1] = new
      /\ \A k \in DOMAIN slots : slots'[k] = slots[k] /\ k \in DOMAIN slots'
  <2> HIDE DEF new
  <2> QED BY <1>1, <1>2, <1>3
<1>5. TypeOK'
  BY <1>a, <1>1, <1>3, <1>4 DEF TypeOK, Live
<1>6. LiveMatch'
  BY <1>a, <1>1, <1>3, <1>4 DEF LiveMatch
<1>7. StaleBehind'
  BY <1>a, <1>3, <1>4 DEF StaleBehind
<1>8. FreeSlotsEmpty'
  <2>1. \A k \in DOMAIN slots' : slots'[k].node # None
    BY <1>a, <1>1, <1>3, <1>4, ArenaAssumption DEF FreeSlotsEmpty
  <2> QED
    BY <1>3, <2>1 DEF FreeSlotsEmpty
<1> QED
  BY <1>5, <1>6, <1>7, <1>8 DEF ArenaInv

(* Removal. *)
LEMMA RemoveInv ==
  ASSUME ArenaInv, NEW h \in live \cup stale, Remove(h) PROVE ArenaInv'
<1> DEFINE i == h.index
           g == h.generation
           G == 0 .. GenSpace - 1
           new == [generation |-> NextGeneration(g), node |-> None]
           gone == [index |-> i, generation |-> g, age |-> 1]
<1>a. TypeOK /\ LiveMatch /\ StaleBehind /\ FreeSlotsEmpty
  BY DEF ArenaInv
<1>1. /\ slots \in Seq(Slot) /\ DOMAIN slots = 1 .. Len(slots) /\ Len(slots) \in Nat
      /\ free \in Seq(Nat \ {0}) /\ Len(free) \in Nat /\ DOMAIN free = 1 .. Len(free)
      /\ \A k \in DOMAIN slots : slots[k] \in Slot
  BY <1>a DEF TypeOK
<1>2. /\ i \in DOMAIN slots /\ slots[i].generation = g /\ slots[i].node # None
  BY DEF Remove, Get
<1>3. i \in Nat \ {0} /\ g \in G
  <2>1. slots[i] \in Slot
    BY <1>1, <1>2
  <2> QED
    BY <1>1, <1>2, <2>1 DEF Slot
<1>4. /\ NextGeneration(g) \in G /\ NextGeneration(g) = Later(g, 1)
  BY <1>3, ArenaAssumption DEF NextGeneration, Later
<1>b. /\ slots' = [slots EXCEPT ![i] = new]
      /\ new \in Slot /\ new.generation = NextGeneration(g) /\ new.node = None
  BY <1>2, <1>4 DEF Remove, Slot
<1> HIDE DEF new
<1>5. /\ DOMAIN slots' = DOMAIN slots
      /\ slots'[i].generation = NextGeneration(g) /\ slots'[i].node = None
      /\ \A k \in DOMAIN slots : k # i => slots'[k] = slots[k]
  BY <1>1, <1>2, <1>b, SeqReplace
<1>6. slots' \in Seq(Slot)
  BY <1>1, <1>2, <1>b, SeqReplace
<1>7. /\ free' \in Seq(Nat \ {0}) /\ DOMAIN free' = 1 .. Len(free) + 1
      /\ free'[Len(free) + 1] = i
      /\ \A k \in DOMAIN free : k \in DOMAIN free' /\ free'[k] = free[k]
  BY <1>1, <1>3 DEF Remove
<1>8. /\ live' = {x \in live : x.index # i}
      /\ stale' = {Age(x, i) : x \in stale} \cup {gone}
  BY DEF Remove
<1>9. \A x \in stale :
        /\ Age(x, i) \in Stale /\ Age(x, i).index = x.index
        /\ Age(x, i).generation = x.generation
        /\ Age(x, i).age = IF x.index = i /\ x.age < GenSpace THEN x.age + 1 ELSE x.age
  <2> SUFFICES ASSUME NEW x \in stale
      PROVE /\ Age(x, i) \in Stale /\ Age(x, i).index = x.index
            /\ Age(x, i).generation = x.generation
            /\ Age(x, i).age = IF x.index = i /\ x.age < GenSpace THEN x.age + 1 ELSE x.age
    OBVIOUS
  <2>1. x \in Stale /\ x.age \in 1 .. GenSpace
    BY <1>a DEF TypeOK, Stale
  <2>2. x.age < GenSpace => x.age + 1 \in 1 .. GenSpace
    BY <2>1, ArenaAssumption
  <2> QED
    BY <2>1, <2>2 DEF Age, Stale
<1>10. TypeOK'
  <2>1. gone \in Stale
    BY <1>3, ArenaAssumption DEF Stale
  <2>2. stale' \subseteq Stale
    BY <1>8, <1>9, <2>1
  <2> QED
    BY <1>a, <1>6, <1>7, <1>8, <2>2 DEF TypeOK
<1>11. LiveMatch'
  BY <1>a, <1>5, <1>8 DEF LiveMatch
<1>12. StaleBehind'
  <2> SUFFICES ASSUME NEW y \in stale'
      PROVE /\ y.index \in DOMAIN slots'
            /\ y.age < GenSpace => slots'[y.index].generation = Later(y.generation, y.age)
    BY DEF StaleBehind
  <2>1. CASE y = gone
    BY <1>2, <1>4, <1>5, <2>1
  <2>2. ASSUME NEW x \in stale, y = Age(x, i)
        PROVE /\ y.index \in DOMAIN slots'
              /\ y.age < GenSpace => slots'[y.index].generation = Later(y.generation, y.age)
    <3>1. /\ x.index \in DOMAIN slots /\ x.generation \in G /\ x.age \in 1 .. GenSpace
          /\ x.age < GenSpace => slots[x.index].generation = Later(x.generation, x.age)
      BY <1>a DEF StaleBehind, TypeOK, Stale
    <3>2. /\ y.index = x.index /\ y.generation = x.generation
          /\ y.age = IF x.index = i /\ x.age < GenSpace THEN x.age + 1 ELSE x.age
      BY <1>9, <2>2
    <3>3. CASE x.index # i
      BY <1>5, <3>1, <3>2, <3>3
    <3>4. CASE x.index = i
      <4>1. ASSUME y.age < GenSpace
            PROVE NextGeneration(g) = Later(x.generation, x.age + 1)
        <5>1. x.age < GenSpace /\ g = Later(x.generation, x.age)
          BY <1>2, <3>1, <3>2, <3>4, <4>1
        <5> QED
          BY <1>3, <3>1, <3>2, <3>4, <4>1, <5>1, ArenaAssumption DEF Later, NextGeneration
      <4>2. y.age < GenSpace => y.age = x.age + 1
        BY <3>1, <3>2, <3>4
      <4> QED
        BY <1>2, <1>5, <3>1, <3>2, <3>4, <4>1, <4>2
    <3> QED
      BY <3>3, <3>4
  <2> QED
    BY <1>8, <2>1, <2>2
<1>13. FreeSlotsEmpty'
  <2>1. \A k \in DOMAIN free : free[k] # i /\ free[k] \in DOMAIN slots /\ slots[free[k]].node = None
    BY <1>a, <1>2 DEF FreeSlotsEmpty
  <2>2. \A k \in DOMAIN free' : k \in DOMAIN free \/ k = Len(free) + 1
    BY <1>1, <1>7
  <2>3. \A k \in DOMAIN free' : free'[k] \in DOMAIN slots' /\ slots'[free'[k]].node = None
    BY <1>2, <1>5, <1>7, <2>1, <2>2
  <2>4. \A k, m \in DOMAIN free' : free'[k] = free'[m] => k = m
    BY <1>a, <1>7, <2>1, <2>2 DEF FreeSlotsEmpty
  <2>5. \A k \in DOMAIN slots' : slots'[k].node = None => \E m \in DOMAIN free' : free'[m] = k
    <3> SUFFICES ASSUME NEW k \in DOMAIN slots', slots'[k].node = None
                 PROVE \E m \in DOMAIN free' : free'[m] = k
      OBVIOUS
    <3>1. CASE k = i
      BY <1>1, <1>7, <3>1
    <3>2. CASE k # i
      <4>1. PICK m \in DOMAIN free : free[m] = k
        BY <1>a, <1>5, <3>2 DEF FreeSlotsEmpty
      <4> QED
        BY <1>7, <4>1
    <3> QED
      BY <3>1, <3>2
  <2> QED
    BY <2>3, <2>4, <2>5 DEF FreeSlotsEmpty
<1> QED
  BY <1>10, <1>11, <1>12, <1>13 DEF ArenaInv

LEMMA StepInv == ArenaInv /\ [Next]_vars => ArenaInv'
<1> SUFFICES ASSUME ArenaInv, [Next]_vars PROVE ArenaInv'
  OBVIOUS
<1>1. CASE UNCHANGED vars
  BY <1>1 DEF ArenaInv, vars, TypeOK, LiveMatch, StaleBehind, FreeSlotsEmpty
<1>2. CASE Next
  BY <1>2, ReuseInv, GrowInv, RemoveInv DEF Next
<1> QED
  BY <1>1, <1>2

(* A matching generation is what a stale handle lacks. *)
LEMMA InvResolves == ArenaInv => HandlesResolve
<1> SUFFICES ASSUME ArenaInv PROVE HandlesResolve
  OBVIOUS
<1>1. \A h \in live : Get(h) = h.node
  BY DEF ArenaInv, LiveMatch, Get
<1>2. ASSUME NEW h \in stale, h.age < GenSpace
      PROVE Get(h) = None
  <2>1. h.generation \in 0 .. GenSpace - 1 /\ h.age \in 1 .. GenSpace
    BY DEF ArenaInv, TypeOK, Stale
  <2>2. Later(h.generation, h.age) # h.generation
    BY <1>2, <2>1, ArenaAssumption DEF Later
  <2> QED
    BY <1>2, <2>2 DEF ArenaInv, StaleBehind, Get
<1> QED
  BY <1>1, <1>2 DEF HandlesResolve

(* "reads via a stale handle return None rather than a wrong node", for as *)
(* long as the slot has not been recycled GenSpace times; and a live       *)
(* handle always reaches its own node.                                     *)
THEOREM StaleHandlesResolveToNone == Spec => []HandlesResolve
BY InitInv, StepInv, InvResolves, PTL DEF Spec

(* The free list is exact: no insertion overwrites a node, no slot leaks. *)
THEOREM FreeListExact == Spec => []FreeSlotsEmpty
<1>1. ArenaInv => FreeSlotsEmpty
  BY DEF ArenaInv
<1> QED
  BY InitInv, StepInv, <1>1, PTL DEF Spec
=============================================================================
