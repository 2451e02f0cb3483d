---------------------------- MODULE Links_proofs ----------------------------
(***************************************************************************)
(* Theorems about the link pool, for every set of nodes, every program and *)
(* every size of the pool: its lists stay sound, and it implements the     *)
(* graph of DepGraph.tla.                                                  *)
(*                                                                         *)
(* The inductive invariant, LinksInv, says that there are lists D[n] and   *)
(* S[n] such that                                                          *)
(*   Pool       the links in use are in D[sub] and S[dep], doubly linked   *)
(*              from head to tail, and the other slots are free once,      *)
(*   Histories  only existing nodes run, none of them twice,               *)
(*   Followed   the links up to the cursor of a node are those of what its *)
(*              run has read; and as long as the run repeats the one       *)
(*              before, the links are those of that run.                   *)
(* The proofs go from lists as data, over heaps and assignments to their   *)
(* fields, to the operations of the runtime on a sound pool.               *)
(***************************************************************************)
EXTENDS LinksProperties, FiniteSetTheorems, WellFoundedInduction, TLAPS

(* A set of numbers has a least one. *)
LEMMA Least ==
  ASSUME NEW T \in SUBSET Nat, T # {}
  PROVE  \E x \in T : \A y \in T : x <= y
<1> DEFINE R == StrictSubsetOrdering(Nat)
           S == {0..x : x \in T}
<1>1. IsWellFoundedOn(R, FiniteSubsetsOf(Nat))
  BY FS_StrictSubsetOrderingWellFounded
<1>2. S \subseteq FiniteSubsetsOf(Nat) /\ S # {}
  <2>1. \A x \in T : IsFiniteSet(0..x) /\ 0..x \in SUBSET Nat
    BY FS_Interval
  <2> QED
    BY <2>1 DEF FiniteSubsetsOf
<1>3. PICK s \in S : \A t \in S : ~ (<<t, s>> \in R)
  <2> HIDE DEF R, S
  <2> QED
    BY <1>1, <1>2, WFMin
<1>4. PICK x \in T : s = 0..x
  OBVIOUS
<1>5. ASSUME NEW y \in T, y < x PROVE FALSE
  <2>1. 0..y \in S /\ 0..y \subseteq 0..x /\ x \notin 0..y /\ x \in 0..x
    BY <1>5
  <2>2. <<0..y, 0..x>> \in R
    BY <2>1 DEF StrictSubsetOrdering
  <2> QED
    BY <1>3, <1>4, <2>1, <2>2
<1> QED
  BY <1>5

(* What holds at 0 and is kept by each step up to N holds up to N. *)
LEMMA Steps ==
  ASSUME NEW N \in Nat, NEW A, 0 \in A, \A i \in 1..N : i - 1 \in A => i \in A
  PROVE  0..N \subseteq A
<1> SUFFICES ASSUME (0..N) \ A # {}
             PROVE  FALSE
  OBVIOUS
<1>1. PICK x \in (0..N) \ A : \A y \in (0..N) \ A : x <= y
  <2>1. (0..N) \ A \in SUBSET Nat
    OBVIOUS
  <2> QED
    BY <2>1, Least
<1>2. x \in 1..N /\ x - 1 \in 0..N
  BY <1>1
<1>3. x - 1 \in A
  BY <1>1, <1>2
<1> QED
  BY <1>1, <1>2, <1>3

(* An injective sequence over 1..L is not longer than L. *)
LEMMA Pigeons ==
  ASSUME NEW L \in Nat, NEW s \in Seq(1..L), \A i, j \in 1..Len(s) : s[i] = s[j] => i = j
  PROVE  Len(s) <= L
<1>1. ASSUME NEW k \in Nat PROVE IsFiniteSet(1..k) /\ Cardinality(1..k) = k
  <2>1. IsFiniteSet(1..k) /\ Cardinality(1..k) = IF 1 > k THEN 0 ELSE k - 1 + 1
    BY FS_Interval
  <2> QED
    BY <2>1
<1>2. s \in [1..Len(s) -> 1..L] /\ Len(s) \in Nat
  OBVIOUS
<1>3. s \in Injection(1..Len(s), 1..L)
  BY <1>2 DEF Injection, IsInjective
<1>4. Cardinality(1..Len(s)) <= Cardinality(1..L)
  BY <1>1, <1>3, FS_Injection
<1> QED
  BY <1>1, <1>2, <1>4

(* The elements of a chain: each leads to the next, and the last nowhere.  *)
IsChain(h, c, field, s) ==
  /\ s \in Seq(DOMAIN h.links)
  /\ \A i, j \in 1..Len(s) : s[i] = s[j] => i = j
  /\ \A i \in 1..Len(s) :
       InUse(h, s[i]) /\ s[i] = IF i = 1 THEN c ELSE h.links[s[i - 1]][field]
  /\ ~InUse(h, IF s = <<>> THEN c ELSE h.links[s[Len(s)]][field])

(* collect_deps and collect_subs return the whole chain that they walk. *)
LEMMA ChainIs ==
  ASSUME NEW h, NEW c, NEW field, NEW s, NEW T, h.links \in Seq(T), IsChain(h, c, field, s)
  PROVE  Chain(h, c, field) = s
<1> DEFINE L == Len(h.links)
           K(i) == IF i <= Len(s) THEN i ELSE Len(s)
           first(i) == [p \in 1..K(i) |-> s[p]]
           push == [got \in Seq(DOMAIN h.links) |-> Push(h, c, field, got)]
           walk == CHOOSE w : w = [i \in 0..L |-> IF i = 0 THEN <<>> ELSE push[w[i - 1]]]
           w0 == [i \in 0..L |-> first(i)]
<1>1. L \in Nat /\ DOMAIN h.links = 1..L /\ s \in Seq(1..L) /\ Len(s) \in Nat
  BY DEF IsChain
<1>2. Len(s) <= L
  BY <1>1, Pigeons DEF IsChain
<1>3. \A i \in Nat : first(i) \in Seq(1..L) /\ Len(first(i)) = K(i) /\ K(i) \in Nat
                    /\ \A p \in 1..K(i) : first(i)[p] = s[p]
  BY <1>1
<1>3a. first(0) = <<>>
  BY <1>1
<1>4. ASSUME NEW i \in 1..L PROVE push[first(i - 1)] = first(i)
  <2> HIDE DEF first
  <2>1. push[first(i - 1)] = Push(h, c, field, first(i - 1))
    BY <1>1, <1>3, <1>4
  <2>2. CASE i <= Len(s)
    <3>1. K(i - 1) = i - 1 /\ K(i) = i
      BY <2>2, <1>1
    <3>2. s[i] = IF first(i - 1) = <<>> THEN c ELSE h.links[Last(first(i - 1))][field]
      <4>1. CASE i = 1
        BY <4>1, <1>1, <2>2, <1>3a DEF IsChain
      <4>2. CASE i > 1
        <5>0. i - 1 \in Nat /\ i - 1 \in 1..K(i - 1)
          BY <4>2, <3>1, <1>1
        <5>1. /\ Len(first(i - 1)) = i - 1 /\ first(i - 1) \in Seq(1..L)
              /\ first(i - 1)[i - 1] = s[i - 1]
          BY <5>0, <3>1, <1>3
        <5> QED
          BY <5>1, <5>0, <4>2, <1>1, <2>2, SMTT(30) DEF IsChain, Last
      <4> QED
        BY <4>1, <4>2
    <3>3. Push(h, c, field, first(i - 1)) = Append(first(i - 1), s[i])
      BY <3>2, <2>2, <1>1 DEF Push, IsChain
    <3>4. Append(first(i - 1), s[i]) = first(i)
      BY <3>1, <1>1, <1>3, <2>2 DEF first
    <3> QED
      BY <2>1, <3>3, <3>4
  <2>3. CASE i > Len(s)
    <3>1. K(i - 1) = Len(s) /\ K(i) = Len(s)
      BY <2>3, <1>1
    <3>2. first(i - 1) = s /\ first(i) = s
      BY <3>1, <1>1 DEF first
    <3>3. Push(h, c, field, s) = s
      BY <1>1 DEF Push, IsChain, Last
    <3> QED
      BY <2>1, <3>2, <3>3
  <2> QED
    BY <2>2, <2>3, <1>1
<1>5. w0 = [i \in 0..L |-> IF i = 0 THEN <<>> ELSE push[w0[i - 1]]]
  <2> HIDE DEF push
  <2> HIDE DEF first
  <2>2. ASSUME NEW i \in 0..L PROVE w0[i] = IF i = 0 THEN <<>> ELSE push[w0[i - 1]]
    BY <1>4, <1>3a, <1>1
  <2> QED
    BY <2>2
<1>6. walk = [i \in 0..L |-> IF i = 0 THEN <<>> ELSE push[walk[i - 1]]]
  BY <1>5
<1>7. walk[L] = s
  <2> HIDE DEF walk, first, push
  <2> DEFINE A == {i \in 0..L : walk[i] = first(i)}
  <2>1. 0 \in A
    BY <1>6, <1>3a, <1>1
  <2>2. ASSUME NEW i \in 1..L, i - 1 \in A PROVE i \in A
    BY <1>4, <1>6, <1>1, <2>2
  <2>3. 0..L \subseteq A
    <3> HIDE DEF A
    <3> QED
      BY <1>1, <2>1, <2>2, Steps
  <2>4. walk[L] = first(L)
    BY <2>3, <1>1, SMTT(30)
  <2>5. first(L) = s
    BY <1>1, <1>2 DEF first
  <2> QED
    BY <2>4, <2>5
<1>8. Chain(h, c, field) = walk[L]
  BY DEF Chain
<1> QED
  BY <1>7, <1>8

-----------------------------------------------------------------------------
(* Doubly linked lists, one for each node of N, made of the links U: s[n]  *)
(* is the list that n owns, from its head.                                 *)
Lists(U, N, own, next, prev, head, s) ==
  /\ s \in [N -> Seq(U)]
  /\ \A n \in N : \A i, j \in 1..Len(s[n]) : s[n][i] = s[n][j] => i = j
  /\ \A n \in N : \A i \in 1..Len(s[n]) :
       /\ own[s[n][i]] = n
       /\ prev[s[n][i]] = IF i = 1 THEN None ELSE s[n][i - 1]
       /\ next[s[n][i]] = IF i = Len(s[n]) THEN None ELSE s[n][i + 1]
  /\ \A c \in U : own[c] \in N /\ \E i \in 1..Len(s[own[c]]) : s[own[c]][i] = c
  /\ \A n \in N : head[n] = IF Len(s[n]) = 0 THEN None ELSE s[n][1]

(* x comes after the first k of t; the k-th of t is left out.              *)
With(t, k, x) == [i \in 1..(Len(t) + 1) |-> IF i <= k THEN t[i] ELSE IF i = k + 1 THEN x ELSE t[i - 1]]
Less(t, k) == [i \in 1..(Len(t) - 1) |-> IF i < k THEN t[i] ELSE t[i + 1]]
FirstOf(t, k) == [i \in 1..k |-> t[i]]

(* The sequence with x after its first k elements.                        *)
Adding(U, t, k, x, V) ==
  /\ t \in Seq(U) /\ k \in 0..Len(t) /\ \A i, j \in 1..Len(t) : t[i] = t[j] => i = j
  /\ x \notin U /\ x \in V /\ \A y \in U : y \in V

(* Its elements, each of them once. *)
LEMMA WithIs ==
  ASSUME NEW U, NEW t, NEW k, NEW x, NEW V, Adding(U, t, k, x, V)
  PROVE  /\ With(t, k, x) \in Seq(V) /\ Len(With(t, k, x)) = Len(t) + 1
         /\ \A i \in 1..(Len(t) + 1) : With(t, k, x)[i] = IF i <= k THEN t[i] ELSE IF i = k + 1 THEN x ELSE t[i - 1]
         /\ \A i, j \in 1..(Len(t) + 1) : With(t, k, x)[i] = With(t, k, x)[j] => i = j
<1> USE DEF Adding
<1> DEFINE w == With(t, k, x)
<1>1. Len(t) \in Nat /\ \A i \in 1..Len(t) : t[i] \in U /\ t[i] # x
  OBVIOUS
<1>2. w \in Seq(V) /\ Len(w) = Len(t) + 1
  BY <1>1 DEF With
<1>3. \A i \in 1..(Len(t) + 1) : w[i] = IF i <= k THEN t[i] ELSE IF i = k + 1 THEN x ELSE t[i - 1]
  BY <1>1 DEF With
<1> HIDE DEF w
<1>4. ASSUME NEW i \in 1..(Len(t) + 1), NEW j \in 1..(Len(t) + 1), w[i] = w[j], i < j PROVE FALSE
  <2>1. CASE j <= k
    BY <1>1, <1>3, <1>4, <2>1
  <2>2. CASE j = k + 1
    BY <1>1, <1>3, <1>4, <2>2
  <2>3. CASE j > k + 1 /\ i <= k
    BY <1>1, <1>3, <1>4, <2>3
  <2>4. CASE j > k + 1 /\ i = k + 1
    BY <1>1, <1>3, <1>4, <2>4
  <2>5. CASE j > k + 1 /\ i > k + 1
    BY <1>1, <1>3, <1>4, <2>5
  <2> QED
    BY <1>1, <2>1, <2>2, <2>3, <2>4, <2>5
<1>5. \A i, j \in 1..(Len(t) + 1) : w[i] = w[j] => i = j
  <2>1. ASSUME NEW i \in 1..(Len(t) + 1), NEW j \in 1..(Len(t) + 1), w[i] = w[j], i # j PROVE FALSE
    BY <1>4, <2>1, <1>1
  <2> QED
    BY <2>1
<1> QED
  BY <1>2, <1>3, <1>5 DEF w

(* t, made of the links of n in V, is sound.                               *)
OneList(V, n, own, next, prev, head, t) ==
  /\ t \in Seq(V)
  /\ \A i, j \in 1..Len(t) : t[i] = t[j] => i = j
  /\ \A i \in 1..Len(t) : /\ own[t[i]] = n
                          /\ prev[t[i]] = IF i = 1 THEN None ELSE t[i - 1]
                          /\ next[t[i]] = IF i = Len(t) THEN None ELSE t[i + 1]
  /\ \A c \in V : own[c] = n => \E i \in 1..Len(t) : t[i] = c
  /\ head[n] = IF Len(t) = 0 THEN None ELSE t[1]

(* Each of the lists is sound. *)
LEMMA ListsAre ==
  ASSUME NEW U, NEW N, NEW own, NEW next, NEW prev, NEW head, NEW s, NEW n \in N
  PROVE  Lists(U, N, own, next, prev, head, s) => OneList(U, n, own, next, prev, head, s[n])
  BY DEF Lists, OneList

(* The list of n becomes t, made of links of V; the others stay.           *)
LEMMA OneChanges ==
  ASSUME NEW U, NEW N, NEW own, NEW next, NEW prev, NEW head, NEW s,
         Lists(U, N, own, next, prev, head, s),
         NEW V, NEW n \in N, NEW t, NEW own2, NEW next2, NEW prev2, NEW head2,
         OneList(V, n, own2, next2, prev2, head2, t),
         \A c \in U : own[c] # n => c \in V,
         \A c \in V : own2[c] # n => /\ c \in U /\ own2[c] = own[c]
                                     /\ next2[c] = next[c] /\ prev2[c] = prev[c],
         \A c \in U : own[c] # n => own2[c] = own[c],
         \A m \in N \ {n} : head2[m] = head[m]
  PROVE  Lists(V, N, own2, next2, prev2, head2, [s EXCEPT ![n] = t])
<1> DEFINE s2 == [s EXCEPT ![n] = t]
<1>1. \A m \in N : s[m] \in Seq(U) /\ s \in [N -> Seq(U)]
  BY DEF Lists
<1>2. s2[n] = t /\ t \in Seq(V) /\ \A m \in N \ {n} : s2[m] = s[m]
  BY <1>1 DEF OneList
<1>3. ASSUME NEW m \in N \ {n} PROVE s[m] \in Seq(V)
  <2>1. \A i \in 1..Len(s[m]) : s[m][i] \in V
    BY <1>1 DEF Lists
  <2> QED
    BY <2>1, <1>1
<1>4. s2 \in [N -> Seq(V)]
  BY <1>1, <1>2, <1>3
<1> HIDE DEF s2
<1>5. ASSUME NEW m \in N PROVE \A i, j \in 1..Len(s2[m]) : s2[m][i] = s2[m][j] => i = j
  <2>1. CASE m = n
    BY ONLY <2>1, <1>2, OneList(V, n, own2, next2, prev2, head2, t) DEF OneList
  <2>2. CASE m # n
    <3>1. s2[m] = s[m]
      BY <2>2, <1>2
    <3>2. \A i, j \in 1..Len(s[m]) : s[m][i] = s[m][j] => i = j
      BY DEF Lists
    <3> QED
      BY ONLY <3>1, <3>2
  <2> QED
    BY <2>1, <2>2
<1>6. ASSUME NEW m \in N, NEW i \in 1..Len(s2[m])
      PROVE  /\ own2[s2[m][i]] = m
             /\ prev2[s2[m][i]] = IF i = 1 THEN None ELSE s2[m][i - 1]
             /\ next2[s2[m][i]] = IF i = Len(s2[m]) THEN None ELSE s2[m][i + 1]
  <2>1. CASE m = n
    BY ONLY <2>1, <1>2, <1>6, OneList(V, n, own2, next2, prev2, head2, t) DEF OneList
  <2>2. CASE m # n
    <3>1. s2[m] = s[m] /\ s[m][i] \in U /\ s[m][i] \in V /\ own[s[m][i]] = m
      <4>1. s2[m] = s[m] /\ m \in N \ {n}
        BY <2>2, <1>2
      <4> QED
        BY <4>1, <1>1, <1>3, <1>6 DEF Lists
    <3>2. own2[s[m][i]] = m /\ next2[s[m][i]] = next[s[m][i]] /\ prev2[s[m][i]] = prev[s[m][i]]
      BY <3>1, <2>2
    <3>3. /\ prev[s[m][i]] = IF i = 1 THEN None ELSE s[m][i - 1]
          /\ next[s[m][i]] = IF i = Len(s[m]) THEN None ELSE s[m][i + 1]
      BY <3>1, <1>6 DEF Lists
    <3> QED
      BY ONLY <3>1, <3>2, <3>3
  <2> QED
    BY <2>1, <2>2
<1>7. ASSUME NEW c \in V PROVE own2[c] \in N /\ \E i \in 1..Len(s2[own2[c]]) : s2[own2[c]][i] = c
  <2>1. CASE own2[c] = n
    BY <2>1, <1>2 DEF OneList
  <2>2. CASE own2[c] # n
    <3>1. c \in U /\ own2[c] = own[c]
      BY <2>2
    <3>2. own[c] \in N /\ \E i \in 1..Len(s[own[c]]) : s[own[c]][i] = c
      BY <3>1 DEF Lists
    <3>3. s2[own[c]] = s[own[c]]
      BY <3>1, <3>2, <2>2, <1>2
    <3> QED
      BY ONLY <3>1, <3>2, <3>3
  <2> QED
    BY <2>1, <2>2
<1>8. ASSUME NEW m \in N PROVE head2[m] = IF Len(s2[m]) = 0 THEN None ELSE s2[m][1]
  <2>1. CASE m = n
    BY <2>1, <1>2 DEF OneList
  <2>2. CASE m # n
    BY <2>2, <1>2 DEF Lists
  <2> QED
    BY <2>1, <2>2
<1>9. Lists(V, N, own2, next2, prev2, head2, s2)
  BY ONLY <1>4, <1>5, <1>6, <1>7, <1>8 DEF Lists
<1> QED
  BY <1>9 DEF s2

(* A link, new, is put into the list of n after its first k.               *)
Inserts(U, N, own, next, prev, head, s, n, k, new, before, after, own2, next2, prev2, head2) ==
  /\ Lists(U, N, own, next, prev, head, s)
  /\ None \notin U
  /\ n \in N
  /\ k \in 0..Len(s[n])
  /\ new \notin U
  /\ new # None
  /\ before = IF k = 0 THEN None ELSE s[n][k]
  /\ after = IF k = Len(s[n]) THEN None ELSE s[n][k + 1]
  /\ \A c \in U : /\ own2[c] = own[c]
                  /\ next2[c] = IF c = before THEN new ELSE next[c]
                  /\ prev2[c] = IF c = after THEN new ELSE prev[c]
  /\ own2[new] = n /\ next2[new] = after /\ prev2[new] = before
  /\ \A m \in N : head2[m] = IF m = n /\ before = None THEN new ELSE head[m]

(* The lists stay sound, and that of n has one more link. *)
LEMMA Inserted ==
  ASSUME NEW U, NEW N, NEW own, NEW next, NEW prev, NEW head, NEW s, NEW n, NEW k, NEW new,
         NEW before, NEW after, NEW own2, NEW next2, NEW prev2, NEW head2,
         Inserts(U, N, own, next, prev, head, s, n, k, new, before, after, own2, next2, prev2, head2)
  PROVE  Lists(U \cup {new}, N, own2, next2, prev2, head2, [s EXCEPT ![n] = With(s[n], k, new)])
<1>h. /\ Lists(U, N, own, next, prev, head, s)
      /\ None \notin U
      /\ n \in N
      /\ k \in 0..Len(s[n])
      /\ new \notin U
      /\ new # None
      /\ before = IF k = 0 THEN None ELSE s[n][k]
      /\ after = IF k = Len(s[n]) THEN None ELSE s[n][k + 1]
      /\ \A c \in U : /\ own2[c] = own[c]
                      /\ next2[c] = IF c = before THEN new ELSE next[c]
                      /\ prev2[c] = IF c = after THEN new ELSE prev[c]
      /\ own2[new] = n /\ next2[new] = after /\ prev2[new] = before
      /\ \A m \in N : head2[m] = IF m = n /\ before = None THEN new ELSE head[m]
  BY DEF Inserts
<1> USE <1>h
<1> DEFINE t == s[n]
           t2 == With(t, k, new)
<1>1. t \in Seq(U) /\ Len(t) \in Nat /\ \A i \in 1..Len(t) : t[i] \in U /\ t[i] # new /\ t[i] # None
  BY DEF Lists
<1>a. \A i, j \in 1..Len(t) : t[i] = t[j] => i = j
  BY DEF Lists
<1>b. \A i \in 1..Len(t) : /\ own[t[i]] = n
                           /\ prev[t[i]] = IF i = 1 THEN None ELSE t[i - 1]
                           /\ next[t[i]] = IF i = Len(t) THEN None ELSE t[i + 1]
  BY DEF Lists
<1>c. before = (IF k = 0 THEN None ELSE t[k]) /\ after = (IF k = Len(t) THEN None ELSE t[k + 1])
      /\ k \in 0..Len(t)
  OBVIOUS
<1>d. \A c \in U : own[c] = n => \E i \in 1..Len(t) : t[i] = c
  BY DEF Lists
<1>e. head[n] = IF Len(t) = 0 THEN None ELSE t[1]
  BY DEF Lists
<1> HIDE DEF t
<1>2. /\ t2 \in Seq(U \cup {new}) /\ Len(t2) = Len(t) + 1
      /\ \A i \in 1..(Len(t) + 1) : t2[i] = IF i <= k THEN t[i] ELSE IF i = k + 1 THEN new ELSE t[i - 1]
      /\ \A i, j \in 1..(Len(t) + 1) : t2[i] = t2[j] => i = j
  <2>1. Adding(U, t, k, new, U \cup {new})
    BY <1>1, <1>a, <1>c DEF Adding
  <2> QED
    BY ONLY <2>1, WithIs
<1> HIDE DEF t2
<1>f. \A i \in 1..Len(t) : /\ own2[t[i]] = n
                           /\ prev2[t[i]] = IF t[i] = after THEN new ELSE prev[t[i]]
                           /\ next2[t[i]] = IF t[i] = before THEN new ELSE next[t[i]]
  BY <1>1, <1>b
<1>g. \A i \in 1..Len(t) : (t[i] = before <=> i = k) /\ (t[i] = after <=> i = k + 1)
  <2>1. k # 0 => k \in 1..Len(t)
    BY <1>1, <1>c
  <2>2. k # Len(t) => k + 1 \in 1..Len(t)
    BY <1>1, <1>c
  <2> QED
    BY ONLY <2>1, <2>2, <1>1, <1>a, <1>c
<1>6. ASSUME NEW i \in 1..Len(t2)
      PROVE  /\ own2[t2[i]] = n
             /\ prev2[t2[i]] = IF i = 1 THEN None ELSE t2[i - 1]
             /\ next2[t2[i]] = IF i = Len(t2) THEN None ELSE t2[i + 1]
  <2>0. i \in 1..(Len(t) + 1) /\ i \in Int /\ Len(t) \in Nat /\ k \in Nat /\ k <= Len(t)
    BY <1>1, <1>2, <1>c
  <2>1. CASE i <= k
    <3>1. i \in 1..Len(t) /\ t2[i] = t[i] /\ t2[i + 1] = (IF i = k THEN new ELSE t[i + 1])
      BY ONLY <2>0, <2>1, <1>2
    <3>2. i # 1 => t2[i - 1] = t[i - 1]
      BY ONLY <2>0, <2>1, <1>2
    <3>3. i # Len(t2) /\ i # k + 1 /\ (i # k => i # Len(t))
      BY ONLY <2>0, <2>1, <1>2
    <3> QED
      BY ONLY <3>1, <3>2, <3>3, <1>b, <1>f, <1>g
  <2>2. CASE i = k + 1
    <3>1. t2[i] = new
      BY ONLY <2>0, <2>2, <1>2
    <3>2. i # 1 => t2[i - 1] = t[k] /\ k # 0
      BY ONLY <2>0, <2>2, <1>2
    <3>3. i # Len(t2) => t2[i + 1] = t[k + 1] /\ k # Len(t)
      BY ONLY <2>0, <2>2, <1>2
    <3>4. (i = 1 => k = 0) /\ (i = Len(t2) => k = Len(t))
      BY ONLY <2>0, <2>2, <1>2
    <3> QED
      BY <3>1, <3>2, <3>3, <3>4, <1>c
  <2>3. CASE i > k + 1
    <3>1. i - 1 \in 1..Len(t) /\ t2[i] = t[i - 1] /\ i # 1
      BY ONLY <2>0, <2>3, <1>2
    <3>2. t2[i - 1] = IF i - 1 = k + 1 THEN new ELSE t[(i - 1) - 1]
      BY ONLY <2>0, <2>3, <1>2
    <3>3. i # Len(t2) => t2[i + 1] = t[(i - 1) + 1] /\ i - 1 # Len(t)
      BY ONLY <2>0, <2>3, <1>2
    <3>5. /\ own2[t[i - 1]] = n
          /\ prev2[t[i - 1]] = IF i - 1 = k + 1 THEN new ELSE IF i - 1 = 1 THEN None ELSE t[(i - 1) - 1]
          /\ next2[t[i - 1]] = IF i - 1 = k THEN new ELSE IF i - 1 = Len(t) THEN None ELSE t[(i - 1) + 1]
      BY ONLY <3>1, <1>b, <1>f, <1>g
    <3>6. i - 1 # k /\ (i - 1 = 1 => i - 1 = k + 1) /\ (i = Len(t2) <=> i - 1 = Len(t))
      BY ONLY <2>0, <2>3, <1>2
    <3> QED
      BY ONLY <3>1, <3>2, <3>3, <3>5, <3>6
  <2> QED
    BY ONLY <2>0, <2>1, <2>2, <2>3
<1>7. ASSUME NEW c \in U \cup {new}, own2[c] = n PROVE \E i \in 1..Len(t2) : t2[i] = c
  <2>1. CASE c = new
    BY ONLY <2>1, <1>1, <1>2, <1>c
  <2>2. CASE c \in U
    <3>1. PICK i \in 1..Len(t) : t[i] = c
      BY <2>2, <1>d, <1>7
    <3>2. (i <= k => t2[i] = c) /\ (i > k => t2[i + 1] = c) /\ i \in 1..Len(t2) /\ i + 1 \in 1..Len(t2)
      BY ONLY <3>1, <1>1, <1>2, <1>c
    <3> QED
      BY ONLY <3>1, <3>2, <1>1, <1>c
  <2> QED
    BY <2>1, <2>2
<1>8. head2[n] = IF Len(t2) = 0 THEN None ELSE t2[1]
  <2>1. before # None <=> k # 0
    BY <1>1, <1>c
  <2>2. Len(t2) # 0 /\ t2[1] = (IF k = 0 THEN new ELSE t[1]) /\ (k # 0 => Len(t) # 0)
    BY ONLY <1>1, <1>2, <1>c
  <2> QED
    BY <2>1, <2>2, <1>e
<1>9. OneList(U \cup {new}, n, own2, next2, prev2, head2, t2)
  BY ONLY <1>2, <1>6, <1>7, <1>8 DEF OneList
<1>10. \A c \in U : own[c] # n => c # before /\ c # after
  <2>1. (k # 0 => before = t[k] /\ k \in 1..Len(t)) /\ (k # Len(t) => after = t[k + 1] /\ k + 1 \in 1..Len(t))
    BY <1>1, <1>c
  <2> QED
    BY <2>1, <1>b, <1>c
<1>11. \A c \in U \cup {new} : own2[c] # n =>
          c \in U /\ own2[c] = own[c] /\ next2[c] = next[c] /\ prev2[c] = prev[c]
  BY <1>10
<1>12. Lists(U \cup {new}, N, own2, next2, prev2, head2, [s EXCEPT ![n] = t2])
  BY <1>9, <1>11, OneChanges
<1> QED
  BY <1>12 DEF t2, t

(* The sequence without its k-th element has the others, in their order. *)
LEMMA LessIs ==
  ASSUME NEW U, NEW t \in Seq(U), NEW k \in 1..Len(t), NEW V, \A d \in U : d # t[k] => d \in V,
         \A i, j \in 1..Len(t) : t[i] = t[j] => i = j
  PROVE  /\ Less(t, k) \in Seq(V) /\ Len(Less(t, k)) = Len(t) - 1
         /\ \A i \in 1..(Len(t) - 1) : Less(t, k)[i] = IF i < k THEN t[i] ELSE t[i + 1]
         /\ \A i, j \in 1..(Len(t) - 1) : Less(t, k)[i] = Less(t, k)[j] => i = j
<1> DEFINE w == Less(t, k)
<1>1. Len(t) \in Nat /\ \A i \in 1..Len(t) : t[i] \in U /\ (t[i] = t[k] => i = k)
  OBVIOUS
<1>2. \A i \in 1..(Len(t) - 1) : i \in 1..Len(t) /\ i + 1 \in 1..Len(t) /\ Len(t) - 1 \in Nat
  BY <1>1
<1>3. w \in Seq(V) /\ Len(w) = Len(t) - 1
  <2>1. Len(t) - 1 \in Nat
    BY <1>1
  <2>2. ASSUME NEW i \in 1..(Len(t) - 1) PROVE (IF i < k THEN t[i] ELSE t[i + 1]) \in V
    BY <1>1, <1>2
  <2> QED
    BY <2>1, <2>2 DEF Less
<1>4. \A i \in 1..(Len(t) - 1) : w[i] = IF i < k THEN t[i] ELSE t[i + 1]
  BY <1>2 DEF Less
<1> HIDE DEF w
<1>5. ASSUME NEW i \in 1..(Len(t) - 1), NEW j \in 1..(Len(t) - 1), w[i] = w[j], i < j PROVE FALSE
  <2>1. CASE j < k
    BY <1>2, <1>4, <1>5, <2>1
  <2>2. CASE ~(j < k) /\ i < k
    BY <1>2, <1>4, <1>5, <2>2
  <2>3. CASE ~(j < k) /\ ~(i < k)
    <3>1. w[i] = t[i + 1] /\ w[j] = t[j + 1] /\ i + 1 \in 1..Len(t) /\ j + 1 \in 1..Len(t)
      BY <1>4, <2>3, <1>2
    <3>2. i + 1 = j + 1
      BY <3>1, <1>5
    <3> QED
      BY ONLY <3>2, <1>5, <1>1
  <2> QED
    BY <2>1, <2>2, <2>3
<1>6. \A i, j \in 1..(Len(t) - 1) : w[i] = w[j] => i = j
  <2>1. ASSUME NEW i \in 1..(Len(t) - 1), NEW j \in 1..(Len(t) - 1), w[i] = w[j], i # j PROVE FALSE
    BY <1>5, <2>1, <1>1
  <2> QED
    BY <2>1
<1> QED
  BY <1>3, <1>4, <1>6 DEF w

(* The first k elements of a sequence. *)
LEMMA FirstOfIs ==
  ASSUME NEW U, NEW t \in Seq(U), NEW k \in 0..Len(t)
  PROVE  /\ FirstOf(t, k) \in Seq(U) /\ Len(FirstOf(t, k)) = k
         /\ \A i \in 1..k : FirstOf(t, k)[i] = t[i] /\ i \in 1..Len(t) /\ t[i] \in U
<1>1. \A i \in 1..k : i \in 1..Len(t) /\ t[i] \in U /\ k \in Nat
  OBVIOUS
<1> QED
  BY <1>1 DEF FirstOf

(* A link is taken out of a list.                                          *)
LEMMA Removed ==
  ASSUME NEW U, NEW N, NEW own, NEW next, NEW prev, NEW head, NEW s,
         Lists(U, N, own, next, prev, head, s), None \notin U,
         NEW n \in N, NEW k \in 1..Len(s[n]), NEW c, c = s[n][k],
         NEW own2, NEW next2, NEW prev2, NEW head2,
         \A d \in U \ {c} : /\ own2[d] = own[d]
                            /\ next2[d] = IF d = prev[c] THEN next[c] ELSE next[d]
                            /\ prev2[d] = IF d = next[c] THEN prev[c] ELSE prev[d],
         \A m \in N : head2[m] = IF m = n /\ prev[c] = None THEN next[c] ELSE head[m]
  PROVE  Lists(U \ {c}, N, own2, next2, prev2, head2, [s EXCEPT ![n] = Less(s[n], k)])
<1> DEFINE t == s[n]
           t2 == Less(t, k)
           V == U \ {c}
<1>1. t \in Seq(U) /\ Len(t) \in Nat /\ \A i \in 1..Len(t) : t[i] \in U /\ t[i] # None
  BY DEF Lists
<1>a. \A i, j \in 1..Len(t) : t[i] = t[j] => i = j
  BY DEF Lists
<1>b. \A i \in 1..Len(t) : /\ own[t[i]] = n
                           /\ prev[t[i]] = IF i = 1 THEN None ELSE t[i - 1]
                           /\ next[t[i]] = IF i = Len(t) THEN None ELSE t[i + 1]
  BY DEF Lists
<1>d. \A d \in U : own[d] = n => \E i \in 1..Len(t) : t[i] = d
  BY DEF Lists
<1>e. head[n] = IF Len(t) = 0 THEN None ELSE t[1]
  BY DEF Lists
<1>c. c = t[k] /\ k \in 1..Len(t) /\ c \in U /\ own[c] = n
      /\ prev[c] = (IF k = 1 THEN None ELSE t[k - 1])
      /\ next[c] = (IF k = Len(t) THEN None ELSE t[k + 1])
  BY <1>1, <1>b
<1> HIDE DEF t
<1>2. /\ t2 \in Seq(V) /\ Len(t2) = Len(t) - 1
      /\ \A i \in 1..(Len(t) - 1) : t2[i] = IF i < k THEN t[i] ELSE t[i + 1]
      /\ \A i, j \in 1..(Len(t) - 1) : t2[i] = t2[j] => i = j
  <2>1. t \in Seq(U) /\ k \in 1..Len(t) /\ \A d \in U : d # t[k] => d \in V
    BY ONLY <1>1, <1>c
  <2>2. t2 \in Seq(V)
    BY ONLY <2>1, <1>a, LessIs
  <2>3. Len(t2) = Len(t) - 1
    BY ONLY <2>1, <1>a, LessIs
  <2>4. \A i \in 1..(Len(t) - 1) : t2[i] = IF i < k THEN t[i] ELSE t[i + 1]
    BY ONLY <2>1, <1>a, LessIs
  <2>5. \A i, j \in 1..(Len(t) - 1) : t2[i] = t2[j] => i = j
    BY ONLY <2>1, <1>a, LessIs
  <2> QED
    BY ONLY <2>2, <2>3, <2>4, <2>5
<1> HIDE DEF t2
<1>g. \A i \in 1..Len(t) : /\ t[i] = c <=> i = k
                           /\ t[i] = prev[c] <=> i = k - 1
                           /\ t[i] = next[c] <=> i = k + 1
  <2>1. k # 1 => k - 1 \in 1..Len(t)
    BY ONLY <1>1, <1>c
  <2>2. k # Len(t) => k + 1 \in 1..Len(t)
    BY ONLY <1>1, <1>c
  <2> QED
    BY ONLY <2>1, <2>2, <1>1, <1>a, <1>c
<1>f. \A i \in 1..Len(t) : i # k =>
        /\ own2[t[i]] = n
        /\ prev2[t[i]] = IF i = k + 1 THEN prev[c] ELSE IF i = 1 THEN None ELSE t[i - 1]
        /\ next2[t[i]] = IF i = k - 1 THEN next[c] ELSE IF i = Len(t) THEN None ELSE t[i + 1]
  BY <1>1, <1>b, <1>g
<1>6. ASSUME NEW i \in 1..Len(t2)
      PROVE  /\ own2[t2[i]] = n
             /\ prev2[t2[i]] = IF i = 1 THEN None ELSE t2[i - 1]
             /\ next2[t2[i]] = IF i = Len(t2) THEN None ELSE t2[i + 1]
  <2>0. i \in 1..(Len(t) - 1) /\ i \in Int /\ Len(t) \in Nat /\ k \in Nat /\ k <= Len(t) /\ k >= 1
    BY <1>1, <1>2, <1>c
  <2>1. CASE i < k
    <3>1. i \in 1..Len(t) /\ t2[i] = t[i] /\ i # k /\ i # k + 1 /\ i # Len(t)
      BY ONLY <2>0, <2>1, <1>2
    <3>2. i # 1 => t2[i - 1] = t[i - 1]
      BY ONLY <2>0, <2>1, <1>2
    <3>3. i # Len(t2) => t2[i + 1] = IF i = k - 1 THEN t[k + 1] ELSE t[i + 1]
      BY ONLY <2>0, <2>1, <1>2
    <3>4. (i = k - 1 => (i = Len(t2) <=> k = Len(t))) /\ (i # k - 1 => i # Len(t2))
      BY ONLY <2>0, <2>1, <1>2
    <3> QED
      BY ONLY <3>1, <3>2, <3>3, <3>4, <1>f, <1>c
  <2>2. CASE ~(i < k)
    <3>1. i + 1 \in 1..Len(t) /\ t2[i] = t[i + 1] /\ i + 1 # k /\ i + 1 # k - 1 /\ i + 1 # 1
      BY ONLY <2>0, <2>2, <1>2
    <3>2. i # 1 => t2[i - 1] = IF i = k THEN t[k - 1] ELSE t[(i + 1) - 1]
      BY ONLY <2>0, <2>2, <1>2
    <3>3. i # Len(t2) => t2[i + 1] = t[(i + 1) + 1]
      BY ONLY <2>0, <2>2, <1>2
    <3>4. (i = Len(t2) <=> i + 1 = Len(t)) /\ (i = k <=> i + 1 = k + 1) /\ (i = 1 => i = k)
      BY ONLY <2>0, <2>2, <1>2
    <3> QED
      BY ONLY <3>1, <3>2, <3>3, <3>4, <1>f, <1>c
  <2> QED
    BY <2>1, <2>2
<1>7. ASSUME NEW d \in V, own2[d] = n PROVE \E i \in 1..Len(t2) : t2[i] = d
  <2>1. PICK i \in 1..Len(t) : t[i] = d
    BY <1>d, <1>7
  <2>2. i # k
    BY <2>1, <1>7, <1>c
  <2>3. CASE i < k
    BY ONLY <2>1, <2>3, <1>1, <1>2, <1>c
  <2>4. CASE i > k
    <3>1. i - 1 \in 1..Len(t2) /\ t2[i - 1] = t[(i - 1) + 1] /\ (i - 1) + 1 = i
      BY ONLY <2>1, <2>4, <1>1, <1>2, <1>c
    <3> QED
      BY ONLY <3>1, <2>1
  <2> QED
    BY <2>2, <2>3, <2>4, <1>c
<1>8. head2[n] = IF Len(t2) = 0 THEN None ELSE t2[1]
  <2>1. prev[c] = None <=> k = 1
    BY <1>1, <1>c
  <2>2. Len(t2) # 0 => t2[1] = (IF k = 1 THEN t[k + 1] ELSE t[1])
    BY ONLY <1>1, <1>2, <1>c
  <2>3. Len(t2) = 0 <=> Len(t) = 1
    BY ONLY <1>1, <1>2, <1>c
  <2>4. (k = 1 /\ k # Len(t) => Len(t2) # 0) /\ (k # 1 => Len(t2) # 0 /\ Len(t) # 0)
    BY ONLY <1>1, <1>2, <1>c
  <2> QED
    BY <2>1, <2>2, <2>3, <2>4, <1>e, <1>c
<1>9. OneList(V, n, own2, next2, prev2, head2, t2)
  BY ONLY <1>2, <1>6, <1>7, <1>8 DEF OneList
<1>10. \A d \in U : own[d] # n => d # prev[c] /\ d # next[c]
  <2>1. (k # 1 => k - 1 \in 1..Len(t)) /\ (k # Len(t) => k + 1 \in 1..Len(t))
    BY ONLY <1>1, <1>c
  <2> QED
    BY <2>1, <1>b, <1>c
<1>11. \A d \in V : own2[d] # n =>
          d \in U /\ own2[d] = own[d] /\ next2[d] = next[d] /\ prev2[d] = prev[d]
  BY <1>10
<1>12. \A d \in U : own[d] # n => d \in V /\ own2[d] = own[d]
  BY <1>c
<1>13. Lists(V, N, own2, next2, prev2, head2, [s EXCEPT ![n] = t2])
  BY <1>9, <1>11, <1>12, OneChanges
<1> QED
  BY <1>13 DEF t2, t

(* A list is cut after its first k links.                                  *)
Cuts(U, N, own, next, prev, head, s, n, k, V, own2, next2, prev2, head2) ==
  /\ Lists(U, N, own, next, prev, head, s)
  /\ n \in N
  /\ k \in 0..Len(s[n])
  /\ V = {c \in U : own[c] # n \/ \E i \in 1..k : s[n][i] = c}
  /\ \A c \in V : /\ own2[c] = own[c] /\ prev2[c] = prev[c]
                  /\ next2[c] = IF k # 0 /\ c = s[n][k] THEN None ELSE next[c]
  /\ \A m \in N : head2[m] = IF m = n /\ k = 0 THEN None ELSE head[m]

(* The lists stay sound, with the first k links of that of n. *)
LEMMA Cut ==
  ASSUME NEW U, NEW N, NEW own, NEW next, NEW prev, NEW head, NEW s, NEW n, NEW k, NEW V,
         NEW own2, NEW next2, NEW prev2, NEW head2,
         Cuts(U, N, own, next, prev, head, s, n, k, V, own2, next2, prev2, head2)
  PROVE  Lists(V, N, own2, next2, prev2, head2, [s EXCEPT ![n] = FirstOf(s[n], k)])
<1>h. /\ Lists(U, N, own, next, prev, head, s)
      /\ n \in N
      /\ k \in 0..Len(s[n])
      /\ V = {c \in U : own[c] # n \/ \E i \in 1..k : s[n][i] = c}
      /\ \A c \in V : /\ own2[c] = own[c] /\ prev2[c] = prev[c]
                      /\ next2[c] = IF k # 0 /\ c = s[n][k] THEN None ELSE next[c]
      /\ \A m \in N : head2[m] = IF m = n /\ k = 0 THEN None ELSE head[m]
  BY DEF Cuts
<1> USE <1>h
<1> DEFINE t == s[n]
           t2 == FirstOf(t, k)
<1>1. t \in Seq(U) /\ Len(t) \in Nat /\ \A i \in 1..Len(t) : t[i] \in U
  BY DEF Lists
<1>a. \A i, j \in 1..Len(t) : t[i] = t[j] => i = j
  BY DEF Lists
<1>b. \A i \in 1..Len(t) : /\ own[t[i]] = n
                           /\ prev[t[i]] = IF i = 1 THEN None ELSE t[i - 1]
                           /\ next[t[i]] = IF i = Len(t) THEN None ELSE t[i + 1]
  BY DEF Lists
<1>e. head[n] = IF Len(t) = 0 THEN None ELSE t[1]
  BY DEF Lists
<1>c. k \in 0..Len(t) /\ V = {c \in U : own[c] # n \/ \E i \in 1..k : t[i] = c}
  OBVIOUS
<1>d. \A c \in V : /\ own2[c] = own[c] /\ prev2[c] = prev[c]
                   /\ next2[c] = IF k # 0 /\ c = t[k] THEN None ELSE next[c]
  OBVIOUS
<1> HIDE DEF t
<1>2. \A i \in 1..k : i \in 1..Len(t) /\ t[i] \in V
  BY ONLY <1>1, <1>c
<1>3. t2 \in Seq(V) /\ Len(t2) = k /\ \A i \in 1..k : t2[i] = t[i]
  BY ONLY <1>1, <1>2, <1>c DEF FirstOf
<1> HIDE DEF t2
<1>4. \A i, j \in 1..Len(t2) : t2[i] = t2[j] => i = j
  BY ONLY <1>2, <1>3, <1>a
<1>5. ASSUME NEW i \in 1..Len(t2)
      PROVE  /\ own2[t2[i]] = n
             /\ prev2[t2[i]] = IF i = 1 THEN None ELSE t2[i - 1]
             /\ next2[t2[i]] = IF i = Len(t2) THEN None ELSE t2[i + 1]
  <2>1. i \in 1..k /\ i \in 1..Len(t) /\ t2[i] = t[i] /\ t[i] \in V /\ i \in Int /\ k \in Int /\ k # 0 /\ k \in 1..Len(t)
    BY ONLY <1>1, <1>2, <1>3, <1>5, <1>c
  <2>2. (i # 1 => t2[i - 1] = t[i - 1]) /\ (i # k => t2[i + 1] = t[i + 1] /\ i # Len(t))
    BY ONLY <2>1, <1>1, <1>3
  <2>3. t[i] = t[k] <=> i = k
    BY ONLY <2>1, <1>a
  <2>4. own2[t[i]] = n /\ prev2[t[i]] = IF i = 1 THEN None ELSE t[i - 1]
    BY ONLY <2>1, <1>b, <1>d
  <2>5. next2[t[i]] = IF i = k THEN None ELSE next[t[i]]
    BY ONLY <2>1, <2>3, <1>d
  <2>6. next[t[i]] = IF i = Len(t) THEN None ELSE t[i + 1]
    BY ONLY <2>1, <1>b
  <2> QED
    BY ONLY <2>1, <2>2, <2>4, <2>5, <2>6, <1>3
<1>6. \A c \in V : own2[c] = n => \E i \in 1..Len(t2) : t2[i] = c
  BY ONLY <1>3, <1>c, <1>d
<1>7. head2[n] = IF Len(t2) = 0 THEN None ELSE t2[1]
  <2>1. k # 0 => 1 \in 1..k /\ Len(t) # 0
    BY ONLY <1>1, <1>c
  <2> QED
    BY <2>1, <1>3, <1>e
<1>8. OneList(V, n, own2, next2, prev2, head2, t2)
  BY ONLY <1>3, <1>4, <1>5, <1>6, <1>7 DEF OneList
<1>9. \A c \in V : own2[c] # n => c \in U /\ own2[c] = own[c] /\ next2[c] = next[c] /\ prev2[c] = prev[c]
  <2>1. k # 0 => own[t[k]] = n
    BY ONLY <1>1, <1>b, <1>c
  <2> QED
    BY ONLY <2>1, <1>c, <1>d
<1>10. \A c \in U : own[c] # n => c \in V /\ own2[c] = own[c]
  BY ONLY <1>c, <1>d
<1>11. \A m \in N \ {n} : head2[m] = head[m]
  OBVIOUS
<1>12. Lists(V, N, own2, next2, prev2, head2, [s EXCEPT ![n] = t2])
  BY <1>8, <1>9, <1>10, <1>11, OneChanges
<1> QED
  BY <1>12 DEF t2, t

(* Lists depend on the pointers of their links only.                       *)
LEMMA Untouched ==
  ASSUME NEW U, NEW N, NEW own, NEW next, NEW prev, NEW head, NEW s,
         Lists(U, N, own, next, prev, head, s),
         NEW own2, NEW next2, NEW prev2, NEW head2,
         \A c \in U : own2[c] = own[c] /\ prev2[c] = prev[c] /\ next2[c] = next[c],
         \A m \in N : head2[m] = head[m]
  PROVE  Lists(U, N, own2, next2, prev2, head2, s)
<1>1. \A n \in N : \A i \in 1..Len(s[n]) : s[n][i] \in U
  BY DEF Lists
<1> QED
  BY <1>1, SMTT(30) DEF Lists

(* A node comes, without links.                                            *)
LEMMA Joined ==
  ASSUME NEW U, NEW N, NEW own, NEW next, NEW prev, NEW head, NEW s,
         Lists(U, N, own, next, prev, head, s), NEW n, n \notin N,
         NEW head2, head2[n] = None, \A m \in N : head2[m] = head[m]
  PROVE  Lists(U, N \cup {n}, own, next, prev, head2,
               [m \in N \cup {n} |-> IF m = n THEN <<>> ELSE s[m]])
<1> DEFINE s2 == [m \in N \cup {n} |-> IF m = n THEN <<>> ELSE s[m]]
<1>1. s2[n] = <<>> /\ \A m \in N : s2[m] = s[m] /\ m # n
  OBVIOUS
<1>2. s2 \in [N \cup {n} -> Seq(U)]
  BY <1>1 DEF Lists
<1> HIDE DEF s2
<1>3. Lists(U, N \cup {n}, own, next, prev, head2, s2)
  BY <1>1, <1>2 DEF Lists
<1> QED
  BY <1>3 DEF s2

(* A node without links goes.                                              *)
LEMMA Left ==
  ASSUME NEW U, NEW N, NEW own, NEW next, NEW prev, NEW head, NEW s,
         Lists(U, N, own, next, prev, head, s), NEW n \in N, s[n] = <<>>,
         NEW head2, \A m \in N \ {n} : head2[m] = head[m]
  PROVE  Lists(U, N \ {n}, own, next, prev, head2, [m \in N \ {n} |-> s[m]])
<1> DEFINE s2 == [m \in N \ {n} |-> s[m]]
<1>1. \A m \in N \ {n} : s2[m] = s[m]
  OBVIOUS
<1>2. s2 \in [N \ {n} -> Seq(U)]
  BY <1>1 DEF Lists
<1>3. \A c \in U : own[c] # n
  BY DEF Lists
<1> HIDE DEF s2
<1>4. Lists(U, N \ {n}, own, next, prev, head2, s2)
  BY <1>1, <1>2, <1>3 DEF Lists
<1> QED
  BY <1>4 DEF s2

-----------------------------------------------------------------------------
(* The heaps, the links in use and the nodes that exist.                   *)
HeapT == [links : Seq(Link \cup {None}), free : Seq(Nat \ {0}), node : [Nodes -> Ends \cup {None}]]
Live(h) == {c \in DOMAIN h.links : h.links[c] # None}
Here(h) == {n \in Nodes : h.node[n] # None}

(* Every slot that is not in use is free once.                             *)
FreeOK(h) ==
  /\ \A i, j \in 1..Len(h.free) : h.free[i] = h.free[j] => i = j
  /\ \A i \in 1..Len(h.free) : h.free[i] \in DOMAIN h.links /\ h.links[h.free[i]] = None
  /\ \A c \in DOMAIN h.links : h.links[c] = None => \E i \in 1..Len(h.free) : h.free[i] = c

(* The links U of h make up the dependency lists s of its nodes, and the   *)
(* subscriber lists; the tails of the nodes M are the last links.          *)
DepLists(h, U, s) ==
  Lists(U, Here(h), [c \in U |-> h.links[c].sub], [c \in U |-> h.links[c].nextDep],
        [c \in U |-> h.links[c].prevDep], [n \in Here(h) |-> h.node[n].deps], s)
SubLists(h, U, s) ==
  Lists(U, Here(h), [c \in U |-> h.links[c].dep], [c \in U |-> h.links[c].nextSub],
        [c \in U |-> h.links[c].prevSub], [n \in Here(h) |-> h.node[n].subs], s)
LastOf(t) == IF Len(t) = 0 THEN None ELSE t[Len(t)]
DepTails(h, M, s) == \A n \in M : h.node[n].depsTail = LastOf(s[n])
SubTails(h, M, s) == \A n \in M : h.node[n].subsTail = LastOf(s[n])

(* g has the nodes of h, and the links U in the same dependency lists, or  *)
(* the same subscriber lists.                                              *)
SameDeps(h, g, U) ==
  /\ \A d \in U : /\ g.links[d].dep = h.links[d].dep /\ g.links[d].sub = h.links[d].sub
                  /\ g.links[d].prevDep = h.links[d].prevDep /\ g.links[d].nextDep = h.links[d].nextDep
  /\ \A n \in Here(h) : g.node[n].deps = h.node[n].deps /\ g.node[n].depsTail = h.node[n].depsTail
SameSubs(h, g, U) ==
  /\ \A d \in U : /\ g.links[d].dep = h.links[d].dep /\ g.links[d].sub = h.links[d].sub
                  /\ g.links[d].prevSub = h.links[d].prevSub /\ g.links[d].nextSub = h.links[d].nextSub
  /\ \A n \in Here(h) : g.node[n].subs = h.node[n].subs /\ g.node[n].subsTail = h.node[n].subsTail

(* None is no node, no number, no link and no list ends. *)
LEMMA NoneIs == None \notin Nodes /\ None \notin Nat /\ None \notin Link /\ None \notin Ends
  BY LinksAssumption

(* What an assignment to a field of a link does.                           *)
LEMMA SetLinkIs ==
  ASSUME NEW h \in HeapT, NEW c \in Live(h), NEW field \in {"prevDep", "nextDep", "prevSub", "nextSub"},
         NEW x \in Pointer, NEW g, g = SetLink(h, c, field, x)
  PROVE  /\ g \in HeapT /\ g.free = h.free /\ g.node = h.node /\ DOMAIN g.links = DOMAIN h.links
         /\ \A d \in DOMAIN h.links : g.links[d] = IF d = c THEN [h.links[c] EXCEPT ![field] = x] ELSE h.links[d]
<1>1. h.links \in Seq(Link \cup {None}) /\ h.links[c] \in Link /\ c \in DOMAIN h.links
  BY DEF HeapT, Live
<1>2. [h.links[c] EXCEPT ![field] = x] \in Link
  BY <1>1 DEF Link
<1>3. [h.links EXCEPT ![c] = [h.links[c] EXCEPT ![field] = x]] \in Seq(Link \cup {None})
  BY <1>1, <1>2
<1> QED
  BY <1>1, <1>2, <1>3 DEF SetLink, HeapT

(* What an assignment to an end of a list does.                            *)
LEMMA SetEndIs ==
  ASSUME NEW h \in HeapT, NEW n \in Nodes, NEW end \in {"deps", "depsTail", "subs", "subsTail"},
         NEW x \in Pointer, NEW g, g = SetEnd(h, n, end, x)
  PROVE  /\ g \in HeapT /\ g.free = h.free /\ g.links = h.links
         /\ \A m \in Nodes : g.node[m] = IF m = n /\ h.node[n] # None THEN [h.node[n] EXCEPT ![end] = x]
                                         ELSE h.node[m]
<1>1. h.node \in [Nodes -> Ends \cup {None}] /\ (h.node[n] # None => h.node[n] \in Ends)
  BY DEF HeapT
<1>2. h.node[n] # None => [h.node[n] EXCEPT ![end] = x] \in Ends
  BY <1>1 DEF Ends
<1> QED
  BY <1>1, <1>2 DEF SetEnd, HeapT

(* A heap with the links and the nodes of h, whose fields may differ.      *)
Alike(h, g) == g \in HeapT /\ g.free = h.free /\ DOMAIN g.links = DOMAIN h.links /\ Live(g) = Live(h) /\ Here(g) = Here(h)

(* An assignment to nextSub changes no dependency list. *)
LEMMA SetNextSub ==
  ASSUME NEW h \in HeapT, NEW c \in Live(h), NEW x \in Pointer, NEW g, g = SetLink(h, c, "nextSub", x)
  PROVE  /\ Alike(h, g) /\ SameDeps(h, g, Live(h))
         /\ \A d \in Live(h) : /\ g.links[d].nextSub = IF d = c THEN x ELSE h.links[d].nextSub
                               /\ g.links[d].prevSub = h.links[d].prevSub
         /\ \A n \in Here(h) : g.node[n].subs = h.node[n].subs /\ g.node[n].subsTail = h.node[n].subsTail
<1>1. /\ g \in HeapT /\ g.free = h.free /\ g.node = h.node /\ DOMAIN g.links = DOMAIN h.links
      /\ \A d \in DOMAIN h.links : g.links[d] = IF d = c THEN [h.links[c] EXCEPT !["nextSub"] = x] ELSE h.links[d]
  BY SetLinkIs
<1>2. \A d \in Live(h) : h.links[d] \in Link /\ d \in DOMAIN h.links
  BY DEF HeapT, Live
<1>3. [h.links[c] EXCEPT !["nextSub"] = x] \in Link
  BY <1>2 DEF Link
<1>4. Alike(h, g)
  BY <1>1, <1>3, NoneIs DEF Alike, Live, Here
<1>5. ASSUME NEW d \in Live(h)
      PROVE  /\ g.links[d].dep = h.links[d].dep /\ g.links[d].sub = h.links[d].sub
             /\ g.links[d].prevDep = h.links[d].prevDep /\ g.links[d].nextDep = h.links[d].nextDep
             /\ g.links[d].nextSub = IF d = c THEN x ELSE h.links[d].nextSub
             /\ g.links[d].prevSub = h.links[d].prevSub
  <2>1. CASE d = c
    <3>1. g.links[d] = [h.links[d] EXCEPT !["nextSub"] = x] /\ h.links[d] \in Link
      BY <1>1, <1>2, <2>1
    <3> QED
      BY ONLY <3>1, <2>1 DEF Link
  <2>2. CASE d # c
    BY <1>1, <1>2, <2>2
  <2> QED
    BY <2>1, <2>2
<1> QED
  BY ONLY <1>1, <1>4, <1>5 DEF SameDeps

(* Nor does an assignment to prevSub. *)
LEMMA SetPrevSub ==
  ASSUME NEW h \in HeapT, NEW c \in Live(h), NEW x \in Pointer, NEW g, g = SetLink(h, c, "prevSub", x)
  PROVE  /\ Alike(h, g) /\ SameDeps(h, g, Live(h))
         /\ \A d \in Live(h) : /\ g.links[d].prevSub = IF d = c THEN x ELSE h.links[d].prevSub
                               /\ g.links[d].nextSub = h.links[d].nextSub
         /\ \A n \in Here(h) : g.node[n].subs = h.node[n].subs /\ g.node[n].subsTail = h.node[n].subsTail
<1>1. /\ g \in HeapT /\ g.free = h.free /\ g.node = h.node /\ DOMAIN g.links = DOMAIN h.links
      /\ \A d \in DOMAIN h.links : g.links[d] = IF d = c THEN [h.links[c] EXCEPT !["prevSub"] = x] ELSE h.links[d]
  BY SetLinkIs
<1>2. \A d \in Live(h) : h.links[d] \in Link /\ d \in DOMAIN h.links
  BY DEF HeapT, Live
<1>3. [h.links[c] EXCEPT !["prevSub"] = x] \in Link
  BY <1>2 DEF Link
<1>4. Alike(h, g)
  BY <1>1, <1>3, NoneIs DEF Alike, Live, Here
<1>5. ASSUME NEW d \in Live(h)
      PROVE  /\ g.links[d].dep = h.links[d].dep /\ g.links[d].sub = h.links[d].sub
             /\ g.links[d].prevDep = h.links[d].prevDep /\ g.links[d].nextDep = h.links[d].nextDep
             /\ g.links[d].prevSub = IF d = c THEN x ELSE h.links[d].prevSub
             /\ g.links[d].nextSub = h.links[d].nextSub
  <2>1. CASE d = c
    <3>1. g.links[d] = [h.links[d] EXCEPT !["prevSub"] = x] /\ h.links[d] \in Link
      BY <1>1, <1>2, <2>1
    <3> QED
      BY ONLY <3>1, <2>1 DEF Link
  <2>2. CASE d # c
    BY <1>1, <1>2, <2>2
  <2> QED
    BY <2>1, <2>2
<1> QED
  BY ONLY <1>1, <1>4, <1>5 DEF SameDeps

(* Nor one to the head of a subscriber list. *)
LEMMA SetSubs ==
  ASSUME NEW h \in HeapT, NEW n \in Here(h), NEW x \in Pointer, NEW g, g = SetEnd(h, n, "subs", x)
  PROVE  /\ Alike(h, g) /\ SameDeps(h, g, Live(h)) /\ g.links = h.links
         /\ \A m \in Here(h) : /\ g.node[m].subs = IF m = n THEN x ELSE h.node[m].subs
                               /\ g.node[m].subsTail = h.node[m].subsTail
<1>1. /\ g \in HeapT /\ g.free = h.free /\ g.links = h.links
      /\ \A m \in Nodes : g.node[m] = IF m = n /\ h.node[n] # None THEN [h.node[n] EXCEPT !["subs"] = x]
                                         ELSE h.node[m]
  BY SetEndIs DEF Here
<1>2. \A m \in Here(h) : h.node[m] \in Ends /\ m \in Nodes
  BY DEF HeapT, Here
<1>3. [h.node[n] EXCEPT !["subs"] = x] \in Ends
  BY <1>2 DEF Ends
<1>4. Alike(h, g)
  BY <1>1, <1>3, NoneIs DEF Alike, Live, Here
<1>5. ASSUME NEW m \in Here(h)
      PROVE  /\ g.node[m].deps = h.node[m].deps /\ g.node[m].depsTail = h.node[m].depsTail
             /\ g.node[m].subs = IF m = n THEN x ELSE h.node[m].subs
             /\ g.node[m].subsTail = h.node[m].subsTail
  <2>1. CASE m = n
    <3>1. g.node[m] = [h.node[m] EXCEPT !["subs"] = x] /\ h.node[m] \in Ends
      BY <1>1, <1>2, <2>1 DEF Here
    <3> QED
      BY ONLY <3>1, <2>1 DEF Ends
  <2>2. CASE m # n
    BY <1>1, <1>2, <2>2
  <2> QED
    BY <2>1, <2>2
<1> QED
  BY ONLY <1>1, <1>4, <1>5 DEF SameDeps

(* Nor one to its tail. *)
LEMMA SetSubsTail ==
  ASSUME NEW h \in HeapT, NEW n \in Here(h), NEW x \in Pointer, NEW g, g = SetEnd(h, n, "subsTail", x)
  PROVE  /\ Alike(h, g) /\ SameDeps(h, g, Live(h)) /\ g.links = h.links
         /\ \A m \in Here(h) : /\ g.node[m].subsTail = IF m = n THEN x ELSE h.node[m].subsTail
                               /\ g.node[m].subs = h.node[m].subs
<1>1. /\ g \in HeapT /\ g.free = h.free /\ g.links = h.links
      /\ \A m \in Nodes : g.node[m] = IF m = n /\ h.node[n] # None THEN [h.node[n] EXCEPT !["subsTail"] = x]
                                         ELSE h.node[m]
  BY SetEndIs DEF Here
<1>2. \A m \in Here(h) : h.node[m] \in Ends /\ m \in Nodes
  BY DEF HeapT, Here
<1>3. [h.node[n] EXCEPT !["subsTail"] = x] \in Ends
  BY <1>2 DEF Ends
<1>4. Alike(h, g)
  BY <1>1, <1>3, NoneIs DEF Alike, Live, Here
<1>5. ASSUME NEW m \in Here(h)
      PROVE  /\ g.node[m].deps = h.node[m].deps /\ g.node[m].depsTail = h.node[m].depsTail
             /\ g.node[m].subsTail = IF m = n THEN x ELSE h.node[m].subsTail
             /\ g.node[m].subs = h.node[m].subs
  <2>1. CASE m = n
    <3>1. g.node[m] = [h.node[m] EXCEPT !["subsTail"] = x] /\ h.node[m] \in Ends
      BY <1>1, <1>2, <2>1 DEF Here
    <3> QED
      BY ONLY <3>1, <2>1 DEF Ends
  <2>2. CASE m # n
    BY <1>1, <1>2, <2>2
  <2> QED
    BY <2>1, <2>2
<1> QED
  BY ONLY <1>1, <1>4, <1>5 DEF SameDeps

(* unlink_from_dep_subs, field by field.                                   *)
LEMMA UnlinkSub ==
  ASSUME NEW h \in HeapT, NEW c \in Live(h), NEW l, l = h.links[c], l.dep \in Here(h),
         l.prevSub \in Live(h) \cup {None}, l.nextSub \in Live(h) \cup {None},
         NEW g, g = UnlinkFromDepSubs(h, c)
  PROVE  /\ Alike(h, g) /\ SameDeps(h, g, Live(h))
         /\ \A d \in Live(h) : /\ g.links[d].nextSub = IF d = l.prevSub THEN l.nextSub ELSE h.links[d].nextSub
                               /\ g.links[d].prevSub = IF d = l.nextSub THEN l.prevSub ELSE h.links[d].prevSub
         /\ \A n \in Here(h) :
              /\ g.node[n].subs = IF n = l.dep /\ l.prevSub = None THEN l.nextSub ELSE h.node[n].subs
              /\ g.node[n].subsTail = IF n = l.dep /\ l.nextSub = None THEN l.prevSub ELSE h.node[n].subsTail
<1> DEFINE h1 == IF l.prevSub # None THEN SetLink(h, l.prevSub, "nextSub", l.nextSub)
                 ELSE SetEnd(h, l.dep, "subs", l.nextSub)
<1>1. l.prevSub \in Pointer /\ l.nextSub \in Pointer /\ None \notin Live(h)
  <2>1. l \in Link
    BY DEF HeapT, Live
  <2>2. DOMAIN h.links \subseteq Nat
    BY DEF HeapT
  <2> QED
    BY <2>1, <2>2, NoneIs DEF Live, Link
<1>2. /\ Alike(h, h1) /\ SameDeps(h, h1, Live(h))
      /\ \A d \in Live(h) : /\ h1.links[d].nextSub = IF d = l.prevSub THEN l.nextSub ELSE h.links[d].nextSub
                            /\ h1.links[d].prevSub = h.links[d].prevSub
      /\ \A n \in Here(h) :
           /\ h1.node[n].subs = IF n = l.dep /\ l.prevSub = None THEN l.nextSub ELSE h.node[n].subs
           /\ h1.node[n].subsTail = h.node[n].subsTail
  <2>1. CASE l.prevSub # None
    BY <2>1, <1>1, SetNextSub
  <2>2. CASE l.prevSub = None
    BY <2>2, <1>1, SetSubs
  <2> QED
    BY <2>1, <2>2
<1>3. g = IF l.nextSub # None THEN SetLink(h1, l.nextSub, "prevSub", l.prevSub)
          ELSE SetEnd(h1, l.dep, "subsTail", l.prevSub)
  BY DEF UnlinkFromDepSubs
<1> HIDE DEF h1
<1>4. h1 \in HeapT /\ Live(h1) = Live(h) /\ Here(h1) = Here(h)
  BY <1>2 DEF Alike
<1>5. /\ Alike(h1, g) /\ SameDeps(h1, g, Live(h1))
      /\ \A d \in Live(h) : /\ g.links[d].prevSub = IF d = l.nextSub THEN l.prevSub ELSE h1.links[d].prevSub
                            /\ g.links[d].nextSub = h1.links[d].nextSub
      /\ \A n \in Here(h) :
           /\ g.node[n].subsTail = IF n = l.dep /\ l.nextSub = None THEN l.prevSub ELSE h1.node[n].subsTail
           /\ g.node[n].subs = h1.node[n].subs
  <2>1. CASE l.nextSub # None
    BY <2>1, <1>1, <1>3, <1>4, SetPrevSub, SMTT(30)
  <2>2. CASE l.nextSub = None
    BY <2>2, <1>1, <1>3, <1>4, SetSubsTail, SMTT(30)
  <2> QED
    BY <2>1, <2>2
<1>6. Alike(h, g)
  BY <1>2, <1>5 DEF Alike
<1>7. SameDeps(h, g, Live(h))
  BY <1>2, <1>4, <1>5 DEF SameDeps
<1> QED
  BY <1>2, <1>5, <1>6, <1>7

(* free_link.                                                              *)
LEMMA FreeLinkIs ==
  ASSUME NEW h \in HeapT, FreeOK(h), NEW c \in Live(h), NEW g, g = FreeLink(h, c)
  PROVE  /\ g \in HeapT /\ FreeOK(g) /\ g.node = h.node /\ DOMAIN g.links = DOMAIN h.links
         /\ Live(g) = Live(h) \ {c} /\ \A d \in DOMAIN h.links : d # c => g.links[d] = h.links[d]
         /\ Len(g.free) = Len(h.free) + 1
<1>1. /\ g.links = [h.links EXCEPT ![c] = None] /\ g.free = Append(h.free, c) /\ g.node = h.node
      /\ h.links \in Seq(Link \cup {None}) /\ h.free \in Seq(Nat \ {0}) /\ c \in DOMAIN h.links
      /\ h.links[c] # None /\ g = [links |-> g.links, free |-> g.free, node |-> g.node]
      /\ h.node \in [Nodes -> Ends \cup {None}]
  BY DEF HeapT, FreeLink, Live
<1>2. c \in Nat \ {0} /\ Len(h.free) \in Nat
  BY ONLY <1>1
<1>3. g \in HeapT /\ DOMAIN g.links = DOMAIN h.links
  <2>1. g.links \in Seq(Link \cup {None}) /\ g.free \in Seq(Nat \ {0}) /\ DOMAIN g.links = DOMAIN h.links
    BY ONLY <1>1, <1>2
  <2> QED
    BY ONLY <1>1, <2>1 DEF HeapT
<1>4. \A d \in DOMAIN h.links : g.links[d] = IF d = c THEN None ELSE h.links[d]
  BY ONLY <1>1
<1>5. /\ Len(g.free) = Len(h.free) + 1 /\ g.free[Len(h.free) + 1] = c
      /\ \A i \in 1..Len(h.free) : g.free[i] = h.free[i]
  BY ONLY <1>1, <1>2
<1>6. \A i \in 1..Len(h.free) : h.free[i] # c
  BY <1>1 DEF FreeOK
<1>7. \A i \in 1..Len(g.free) : i \in 1..Len(h.free) \/ i = Len(h.free) + 1
  BY ONLY <1>2, <1>5
<1>8. FreeOK(g)
  <2>1. \A i, j \in 1..Len(g.free) : g.free[i] = g.free[j] => i = j
    BY <1>5, <1>6, <1>7 DEF FreeOK
  <2>2. \A i \in 1..Len(g.free) : g.free[i] \in DOMAIN g.links /\ g.links[g.free[i]] = None
    BY <1>1, <1>3, <1>4, <1>5, <1>7 DEF FreeOK
  <2>3. ASSUME NEW d \in DOMAIN g.links, g.links[d] = None PROVE \E i \in 1..Len(g.free) : g.free[i] = d
    <3>1. CASE d = c
      BY ONLY <3>1, <1>2, <1>5
    <3>2. CASE d # c
      <4>1. PICK i \in 1..Len(h.free) : h.free[i] = d
        BY <1>3, <1>4, <2>3, <3>2 DEF FreeOK
      <4> QED
        BY ONLY <4>1, <1>2, <1>5
    <3> QED
      BY <3>1, <3>2
  <2> QED
    BY <2>1, <2>2, <2>3 DEF FreeOK
<1>9. Live(g) = Live(h) \ {c}
  BY <1>3, <1>4 DEF Live
<1> QED
  BY <1>1, <1>3, <1>4, <1>5, <1>8, <1>9

(* A link and its neighbours in a list.                                    *)
LEMMA Neighbours ==
  ASSUME NEW U, NEW N, NEW own, NEW next, NEW prev, NEW head, NEW s,
         Lists(U, N, own, next, prev, head, s), NEW c \in U
  PROVE  /\ own[c] \in N
         /\ prev[c] \in (U \ {c}) \cup {None} /\ next[c] \in (U \ {c}) \cup {None}
         /\ \E k \in 1..Len(s[own[c]]) :
              /\ s[own[c]][k] = c
              /\ prev[c] = IF k = 1 THEN None ELSE s[own[c]][k - 1]
              /\ next[c] = IF k = Len(s[own[c]]) THEN None ELSE s[own[c]][k + 1]
<1> DEFINE n == own[c]
           t == s[n]
<1>1. n \in N /\ t \in Seq(U)
  BY DEF Lists
<1>2. PICK k \in 1..Len(t) : t[k] = c
  BY DEF Lists
<1>3. prev[c] = (IF k = 1 THEN None ELSE t[k - 1]) /\ next[c] = (IF k = Len(t) THEN None ELSE t[k + 1])
  BY <1>1, <1>2 DEF Lists
<1>4. \A i, j \in 1..Len(t) : t[i] = t[j] => i = j
  BY <1>1 DEF Lists
<1> HIDE DEF n, t
<1>5. (k # 1 => t[k - 1] \in U \ {c}) /\ (k # Len(t) => t[k + 1] \in U \ {c})
  <2>1. Len(t) \in Nat /\ k \in Int /\ 1 <= k /\ k <= Len(t)
    BY <1>1, <1>2
  <2>2. k # 1 => k - 1 \in 1..Len(t) /\ k - 1 # k
    BY ONLY <2>1
  <2>3. k # Len(t) => k + 1 \in 1..Len(t) /\ k + 1 # k
    BY ONLY <2>1
  <2> QED
    BY ONLY <2>2, <2>3, <1>1, <1>2, <1>4
<1> QED
  BY <1>1, <1>2, <1>3, <1>5 DEF t, n

(* The last element, after one has been taken out.                         *)
LEMMA LastOfLess ==
  ASSUME NEW U, NEW t \in Seq(U), NEW k \in 1..Len(t), \A i, j \in 1..Len(t) : t[i] = t[j] => i = j
  PROVE  /\ LastOf(t) = t[Len(t)] /\ t[Len(t)] \in U
         /\ LastOf(Less(t, k)) = IF k = Len(t) THEN (IF k = 1 THEN None ELSE t[k - 1]) ELSE t[Len(t)]
<1>1. Len(Less(t, k)) = Len(t) - 1
  BY LessIs
<1>2. \A i \in 1..(Len(t) - 1) : Less(t, k)[i] = IF i < k THEN t[i] ELSE t[i + 1]
  BY LessIs
<1>3. Len(t) \in Nat /\ k \in Nat /\ 1 <= k /\ k <= Len(t) /\ t[Len(t)] \in U
  OBVIOUS
<1>4. CASE Len(t) = 1
  BY ONLY <1>1, <1>3, <1>4 DEF LastOf
<1>5. CASE Len(t) # 1
  <2>1. Len(t) - 1 \in 1..(Len(t) - 1) /\ Len(Less(t, k)) # 0 /\ Len(t) # 0
    BY ONLY <1>5, <1>1, <1>3
  <2>2. Less(t, k)[Len(t) - 1] = IF Len(t) - 1 < k THEN t[Len(t) - 1] ELSE t[(Len(t) - 1) + 1]
    BY ONLY <2>1, <1>2
  <2>3. (Len(t) - 1 < k <=> k = Len(t)) /\ (Len(t) - 1) + 1 = Len(t) /\ (k = Len(t) => k # 1)
    BY ONLY <1>5, <1>3
  <2> QED
    BY ONLY <2>1, <2>2, <2>3, <1>1, <1>3 DEF LastOf
<1> QED
  BY <1>4, <1>5

(* What is left of a list is in the same order.                            *)
Within(u, t) ==
  \A i, j \in 1..Len(u) : i < j => \E a, b \in 1..Len(t) : a < b /\ t[a] = u[i] /\ t[b] = u[j]

(* A list without one of its links. *)
LEMMA LessWithin ==
  ASSUME NEW U, NEW t \in Seq(U), NEW k \in 1..Len(t), \A i, j \in 1..Len(t) : t[i] = t[j] => i = j
  PROVE  Within(Less(t, k), t)
<1>1. Len(Less(t, k)) = Len(t) - 1
  BY LessIs
<1>2. \A i \in 1..(Len(t) - 1) : Less(t, k)[i] = IF i < k THEN t[i] ELSE t[i + 1]
  BY LessIs
<1>3. Len(t) \in Nat
  OBVIOUS
<1>4. ASSUME NEW i \in 1..(Len(t) - 1), NEW j \in 1..(Len(t) - 1), i < j
      PROVE  \E a, b \in 1..Len(t) : a < b /\ t[a] = Less(t, k)[i] /\ t[b] = Less(t, k)[j]
  <2> DEFINE a == IF i < k THEN i ELSE i + 1
             b == IF j < k THEN j ELSE j + 1
  <2>1. a \in 1..Len(t) /\ b \in 1..Len(t) /\ a < b
    BY <1>3, <1>4
  <2> QED
    BY <2>1, <1>2
<1> DEFINE u == Less(t, k)
<1>5. \A i \in 1..(Len(t) - 1) : \A j \in 1..(Len(t) - 1) :
        i < j => \E a, b \in 1..Len(t) : a < b /\ t[a] = u[i] /\ t[b] = u[j]
  BY <1>4
<1>6. Len(u) = Len(t) - 1
  BY <1>1
<1> HIDE DEF u
<1>7. Within(u, t)
  BY ONLY <1>3, <1>5, <1>6, SMTT(30) DEF Within
<1> QED
  BY <1>7 DEF u

(* The same holds of what is left of the rest.                             *)
LEMMA WithinWithin ==
  ASSUME NEW u, NEW v, NEW t, Within(u, v), Within(v, t)
  PROVE  Within(u, t)
<1>1. ASSUME NEW i \in 1..Len(u), NEW j \in 1..Len(u), i < j
      PROVE  \E a, b \in 1..Len(t) : a < b /\ t[a] = u[i] /\ t[b] = u[j]
  <2>1. PICK a, b \in 1..Len(v) : a < b /\ v[a] = u[i] /\ v[b] = u[j]
    BY <1>1 DEF Within
  <2>2. \E x, y \in 1..Len(t) : x < y /\ t[x] = v[a] /\ t[y] = v[b]
    BY <2>1 DEF Within
  <2> QED
    BY <2>1, <2>2
<1> QED
  BY <1>1 DEF Within

(* Taking out one link, from the lists of its source.                      *)
LEMMA PruneIs ==
  ASSUME NEW h \in HeapT, FreeOK(h), NEW c \in Live(h), NEW s,
         SubLists(h, Live(h), s), SubTails(h, Here(h), s), NEW g, g = Prune(h, c)
  PROVE  /\ g \in HeapT /\ FreeOK(g) /\ DOMAIN g.links = DOMAIN h.links
         /\ Live(g) = Live(h) \ {c} /\ Here(g) = Here(h) /\ SameDeps(h, g, Live(g))
         /\ Len(g.free) = Len(h.free) + 1
         /\ \E s2 : SubLists(g, Live(g), s2) /\ SubTails(g, Here(g), s2)
<1> DEFINE U == Live(h)
           l == h.links[c]
           n == l.dep
           h1 == UnlinkFromDepSubs(h, c)
           own == [d \in U |-> h.links[d].dep]
           next == [d \in U |-> h.links[d].nextSub]
           prev == [d \in U |-> h.links[d].prevSub]
           head == [m \in Here(h) |-> h.node[m].subs]
<1>1. Lists(U, Here(h), own, next, prev, head, s)
  BY DEF SubLists
<1>2. /\ n \in Here(h)
      /\ l.prevSub \in (U \ {c}) \cup {None} /\ l.nextSub \in (U \ {c}) \cup {None}
      /\ \E k \in 1..Len(s[n]) : /\ s[n][k] = c
                                 /\ l.prevSub = IF k = 1 THEN None ELSE s[n][k - 1]
                                 /\ l.nextSub = IF k = Len(s[n]) THEN None ELSE s[n][k + 1]
  <2>1. own[c] = n /\ next[c] = l.nextSub /\ prev[c] = l.prevSub
    OBVIOUS
  <2> HIDE DEF own, next, prev, head, U, l, n
  <2>2. c \in U
    BY DEF U
  <2> QED
    BY <1>1, <2>1, <2>2, Neighbours
<1>3. /\ Alike(h, h1) /\ SameDeps(h, h1, U)
      /\ \A d \in U : /\ h1.links[d].nextSub = IF d = l.prevSub THEN l.nextSub ELSE h.links[d].nextSub
                      /\ h1.links[d].prevSub = IF d = l.nextSub THEN l.prevSub ELSE h.links[d].prevSub
      /\ \A m \in Here(h) :
           /\ h1.node[m].subs = IF m = n /\ l.prevSub = None THEN l.nextSub ELSE h.node[m].subs
           /\ h1.node[m].subsTail = IF m = n /\ l.nextSub = None THEN l.prevSub ELSE h.node[m].subsTail
  BY <1>2, UnlinkSub, SMTT(30)
<1> HIDE DEF h1
<1>4. FreeOK(h1) /\ h1 \in HeapT /\ c \in Live(h1)
  <2>1. \A d \in DOMAIN h.links : h.links[d] = None <=> h1.links[d] = None
    BY <1>3 DEF Alike, Live
  <2> QED
    BY <1>3, <2>1 DEF Alike, FreeOK
<1>5. /\ g \in HeapT /\ FreeOK(g) /\ g.node = h1.node /\ DOMAIN g.links = DOMAIN h1.links
      /\ Live(g) = Live(h1) \ {c} /\ \A d \in DOMAIN h1.links : d # c => g.links[d] = h1.links[d]
      /\ Len(g.free) = Len(h.free) + 1
  BY <1>3, <1>4, FreeLinkIs DEF Prune, h1, Alike
<1>6. /\ DOMAIN g.links = DOMAIN h.links /\ Live(g) = U \ {c} /\ Here(g) = Here(h)
      /\ U \ {c} \subseteq DOMAIN h1.links
  BY <1>3, <1>5 DEF Alike, Live, Here
<1>7. SameDeps(h, g, Live(g))
  BY <1>3, <1>5, <1>6 DEF SameDeps
<1>8. PICK k \in 1..Len(s[n]) : /\ s[n][k] = c
                                /\ l.prevSub = IF k = 1 THEN None ELSE s[n][k - 1]
                                /\ l.nextSub = IF k = Len(s[n]) THEN None ELSE s[n][k + 1]
  BY <1>2
<1> DEFINE s2 == [s EXCEPT ![n] = Less(s[n], k)]
           own2 == [d \in Live(g) |-> g.links[d].dep]
           next2 == [d \in Live(g) |-> g.links[d].nextSub]
           prev2 == [d \in Live(g) |-> g.links[d].prevSub]
           head2 == [m \in Here(g) |-> g.node[m].subs]
<1>9. \A d \in U \ {c} : /\ own2[d] = own[d]
                         /\ next2[d] = IF d = prev[c] THEN next[c] ELSE next[d]
                         /\ prev2[d] = IF d = next[c] THEN prev[c] ELSE prev[d]
  BY <1>3, <1>5, <1>6 DEF SameDeps
<1>10. \A m \in Here(h) : head2[m] = IF m = n /\ prev[c] = None THEN next[c] ELSE head[m]
  BY <1>3, <1>5, <1>6
<1>11. None \notin U
  <2>1. U \subseteq Nat
    BY DEF HeapT, Live
  <2> QED
    BY <2>1, NoneIs
<1>12. Lists(U \ {c}, Here(h), own2, next2, prev2, head2, s2)
  <2> HIDE DEF own2, next2, prev2, head2, own, next, prev, head, n
  <2> QED
    BY ONLY <1>1, <1>2, <1>8, <1>9, <1>10, <1>11, Removed
<1>13. SubLists(g, Live(g), s2)
  BY <1>6, <1>12 DEF SubLists
<1>14. SubTails(g, Here(g), s2)
  <2>1. s \in [Here(h) -> Seq(U)] /\ s[n] \in Seq(U) /\ \A i, j \in 1..Len(s[n]) : s[n][i] = s[n][j] => i = j
    BY <1>1, <1>2 DEF Lists
  <2>2. \A m \in Here(h) : s2[m] = IF m = n THEN Less(s[n], k) ELSE s[m]
    BY <2>1, <1>2
  <2>3. ASSUME NEW m \in Here(h), m # n PROVE g.node[m].subsTail = LastOf(s2[m])
    BY <2>2, <2>3, <1>3, <1>5 DEF SubTails
  <2>4. g.node[n].subsTail = LastOf(Less(s[n], k))
    <3>1. s[n] \in Seq(U) /\ k \in 1..Len(s[n]) /\ \A i, j \in 1..Len(s[n]) : s[n][i] = s[n][j] => i = j
      BY <1>8, <2>1
    <3>2. /\ LastOf(s[n]) = s[n][Len(s[n])] /\ s[n][Len(s[n])] \in U
          /\ LastOf(Less(s[n], k)) = IF k = Len(s[n]) THEN (IF k = 1 THEN None ELSE s[n][k - 1])
                                     ELSE s[n][Len(s[n])]
      <4> HIDE DEF n, U
      <4> QED
        BY ONLY <3>1, LastOfLess
    <3>3. h.node[n].subsTail = LastOf(s[n])
      BY <1>2 DEF SubTails
    <3>4. g.node[n].subsTail = IF l.nextSub = None THEN l.prevSub ELSE h.node[n].subsTail
      <4> HIDE DEF n, l
      <4> QED
        BY ONLY <1>2, <1>3, <1>5
    <3>5. l.nextSub = None <=> k = Len(s[n])
      <4>1. k # Len(s[n]) => k + 1 \in 1..Len(s[n])
        BY ONLY <3>1
      <4>2. k # Len(s[n]) => s[n][k + 1] \in U
        BY ONLY <3>1, <4>1
      <4> HIDE DEF n, l, U
      <4> QED
        BY ONLY <4>2, <1>8, <1>11
    <3> HIDE DEF n, l, U
    <3> QED
      BY ONLY <1>8, <3>2, <3>3, <3>4, <3>5
  <2> QED
    BY <2>2, <2>3, <2>4, <1>6, <1>2 DEF SubTails
<1> QED
  BY <1>5, <1>6, <1>7, <1>13, <1>14

(* An assignment to nextDep changes no subscriber list. *)
LEMMA SetNextDep ==
  ASSUME NEW h \in HeapT, NEW c \in Live(h), NEW x \in Pointer, NEW g, g = SetLink(h, c, "nextDep", x)
  PROVE  /\ Alike(h, g) /\ SameSubs(h, g, Live(h))
         /\ \A d \in Live(h) : /\ g.links[d].nextDep = IF d = c THEN x ELSE h.links[d].nextDep
                               /\ g.links[d].prevDep = h.links[d].prevDep
         /\ \A n \in Here(h) : g.node[n].deps = h.node[n].deps /\ g.node[n].depsTail = h.node[n].depsTail
<1>1. /\ g \in HeapT /\ g.free = h.free /\ g.node = h.node /\ DOMAIN g.links = DOMAIN h.links
      /\ \A d \in DOMAIN h.links : g.links[d] = IF d = c THEN [h.links[c] EXCEPT !["nextDep"] = x] ELSE h.links[d]
  BY SetLinkIs
<1>2. \A d \in Live(h) : h.links[d] \in Link /\ d \in DOMAIN h.links
  BY DEF HeapT, Live
<1>3. [h.links[c] EXCEPT !["nextDep"] = x] \in Link
  BY <1>2 DEF Link
<1>4. Alike(h, g)
  BY <1>1, <1>3, NoneIs DEF Alike, Live, Here
<1>5. ASSUME NEW d \in Live(h)
      PROVE  /\ g.links[d].sub = h.links[d].sub /\ g.links[d].dep = h.links[d].dep
             /\ g.links[d].prevSub = h.links[d].prevSub /\ g.links[d].nextSub = h.links[d].nextSub
             /\ g.links[d].nextDep = IF d = c THEN x ELSE h.links[d].nextDep
             /\ g.links[d].prevDep = h.links[d].prevDep
  <2>1. CASE d = c
    <3>1. g.links[d] = [h.links[d] EXCEPT !["nextDep"] = x] /\ h.links[d] \in Link
      BY <1>1, <1>2, <2>1
    <3> QED
      BY ONLY <3>1, <2>1 DEF Link
  <2>2. CASE d # c
    BY <1>1, <1>2, <2>2
  <2> QED
    BY <2>1, <2>2
<1> QED
  BY ONLY <1>1, <1>4, <1>5 DEF SameSubs

(* Nor does an assignment to prevDep. *)
LEMMA SetPrevDep ==
  ASSUME NEW h \in HeapT, NEW c \in Live(h), NEW x \in Pointer, NEW g, g = SetLink(h, c, "prevDep", x)
  PROVE  /\ Alike(h, g) /\ SameSubs(h, g, Live(h))
         /\ \A d \in Live(h) : /\ g.links[d].prevDep = IF d = c THEN x ELSE h.links[d].prevDep
                               /\ g.links[d].nextDep = h.links[d].nextDep
         /\ \A n \in Here(h) : g.node[n].deps = h.node[n].deps /\ g.node[n].depsTail = h.node[n].depsTail
<1>1. /\ g \in HeapT /\ g.free = h.free /\ g.node = h.node /\ DOMAIN g.links = DOMAIN h.links
      /\ \A d \in DOMAIN h.links : g.links[d] = IF d = c THEN [h.links[c] EXCEPT !["prevDep"] = x] ELSE h.links[d]
  BY SetLinkIs
<1>2. \A d \in Live(h) : h.links[d] \in Link /\ d \in DOMAIN h.links
  BY DEF HeapT, Live
<1>3. [h.links[c] EXCEPT !["prevDep"] = x] \in Link
  BY <1>2 DEF Link
<1>4. Alike(h, g)
  BY <1>1, <1>3, NoneIs DEF Alike, Live, Here
<1>5. ASSUME NEW d \in Live(h)
      PROVE  /\ g.links[d].sub = h.links[d].sub /\ g.links[d].dep = h.links[d].dep
             /\ g.links[d].prevSub = h.links[d].prevSub /\ g.links[d].nextSub = h.links[d].nextSub
             /\ g.links[d].prevDep = IF d = c THEN x ELSE h.links[d].prevDep
             /\ g.links[d].nextDep = h.links[d].nextDep
  <2>1. CASE d = c
    <3>1. g.links[d] = [h.links[d] EXCEPT !["prevDep"] = x] /\ h.links[d] \in Link
      BY <1>1, <1>2, <2>1
    <3> QED
      BY ONLY <3>1, <2>1 DEF Link
  <2>2. CASE d # c
    BY <1>1, <1>2, <2>2
  <2> QED
    BY <2>1, <2>2
<1> QED
  BY ONLY <1>1, <1>4, <1>5 DEF SameSubs

(* Nor one to the head of a dependency list. *)
LEMMA SetDeps ==
  ASSUME NEW h \in HeapT, NEW n \in Here(h), NEW x \in Pointer, NEW g, g = SetEnd(h, n, "deps", x)
  PROVE  /\ Alike(h, g) /\ SameSubs(h, g, Live(h)) /\ g.links = h.links
         /\ \A m \in Here(h) : /\ g.node[m].deps = IF m = n THEN x ELSE h.node[m].deps
                               /\ g.node[m].depsTail = h.node[m].depsTail
<1>1. /\ g \in HeapT /\ g.free = h.free /\ g.links = h.links
      /\ \A m \in Nodes : g.node[m] = IF m = n /\ h.node[n] # None THEN [h.node[n] EXCEPT !["deps"] = x]
                                         ELSE h.node[m]
  BY SetEndIs DEF Here
<1>2. \A m \in Here(h) : h.node[m] \in Ends /\ m \in Nodes
  BY DEF HeapT, Here
<1>3. [h.node[n] EXCEPT !["deps"] = x] \in Ends
  BY <1>2 DEF Ends
<1>4. Alike(h, g)
  BY <1>1, <1>3, NoneIs DEF Alike, Live, Here
<1>5. ASSUME NEW m \in Here(h)
      PROVE  /\ g.node[m].subs = h.node[m].subs /\ g.node[m].subsTail = h.node[m].subsTail
             /\ g.node[m].deps = IF m = n THEN x ELSE h.node[m].deps
             /\ g.node[m].depsTail = h.node[m].depsTail
  <2>1. CASE m = n
    <3>1. g.node[m] = [h.node[m] EXCEPT !["deps"] = x] /\ h.node[m] \in Ends
      BY <1>1, <1>2, <2>1 DEF Here
    <3> QED
      BY ONLY <3>1, <2>1 DEF Ends
  <2>2. CASE m # n
    BY <1>1, <1>2, <2>2
  <2> QED
    BY <2>1, <2>2
<1> QED
  BY ONLY <1>1, <1>4, <1>5 DEF SameSubs

(* Nor one to the cursor. *)
LEMMA SetDepsTail ==
  ASSUME NEW h \in HeapT, NEW n \in Here(h), NEW x \in Pointer, NEW g, g = SetEnd(h, n, "depsTail", x)
  PROVE  /\ Alike(h, g) /\ SameSubs(h, g, Live(h)) /\ g.links = h.links
         /\ \A m \in Here(h) : /\ g.node[m].depsTail = IF m = n THEN x ELSE h.node[m].depsTail
                               /\ g.node[m].deps = h.node[m].deps
<1>1. /\ g \in HeapT /\ g.free = h.free /\ g.links = h.links
      /\ \A m \in Nodes : g.node[m] = IF m = n /\ h.node[n] # None THEN [h.node[n] EXCEPT !["depsTail"] = x]
                                         ELSE h.node[m]
  BY SetEndIs DEF Here
<1>2. \A m \in Here(h) : h.node[m] \in Ends /\ m \in Nodes
  BY DEF HeapT, Here
<1>3. [h.node[n] EXCEPT !["depsTail"] = x] \in Ends
  BY <1>2 DEF Ends
<1>4. Alike(h, g)
  BY <1>1, <1>3, NoneIs DEF Alike, Live, Here
<1>5. ASSUME NEW m \in Here(h)
      PROVE  /\ g.node[m].subs = h.node[m].subs /\ g.node[m].subsTail = h.node[m].subsTail
             /\ g.node[m].depsTail = IF m = n THEN x ELSE h.node[m].depsTail
             /\ g.node[m].deps = h.node[m].deps
  <2>1. CASE m = n
    <3>1. g.node[m] = [h.node[m] EXCEPT !["depsTail"] = x] /\ h.node[m] \in Ends
      BY <1>1, <1>2, <2>1 DEF Here
    <3> QED
      BY ONLY <3>1, <2>1 DEF Ends
  <2>2. CASE m # n
    BY <1>1, <1>2, <2>2
  <2> QED
    BY <2>1, <2>2
<1> QED
  BY ONLY <1>1, <1>4, <1>5 DEF SameSubs

(* unlink_from_sub_deps, field by field.                                   *)
LEMMA UnlinkDep ==
  ASSUME NEW h \in HeapT, NEW c \in Live(h), NEW l, l = h.links[c], l.sub \in Here(h),
         l.prevDep \in Live(h) \cup {None}, l.nextDep \in Live(h) \cup {None},
         NEW g, g = UnlinkFromSubDeps(h, c)
  PROVE  /\ Alike(h, g) /\ SameSubs(h, g, Live(h))
         /\ \A d \in Live(h) : /\ g.links[d].nextDep = IF d = l.prevDep THEN l.nextDep ELSE h.links[d].nextDep
                               /\ g.links[d].prevDep = IF d = l.nextDep THEN l.prevDep ELSE h.links[d].prevDep
         /\ \A n \in Here(h) :
              /\ g.node[n].deps = IF n = l.sub /\ l.prevDep = None THEN l.nextDep ELSE h.node[n].deps
              /\ g.node[n].depsTail = IF n = l.sub /\ l.nextDep = None THEN l.prevDep ELSE h.node[n].depsTail
<1> DEFINE h1 == IF l.prevDep # None THEN SetLink(h, l.prevDep, "nextDep", l.nextDep)
                 ELSE SetEnd(h, l.sub, "deps", l.nextDep)
<1>1. l.prevDep \in Pointer /\ l.nextDep \in Pointer /\ None \notin Live(h)
  <2>1. l \in Link
    BY DEF HeapT, Live
  <2>2. DOMAIN h.links \subseteq Nat
    BY DEF HeapT
  <2> QED
    BY <2>1, <2>2, NoneIs DEF Live, Link
<1>2. /\ Alike(h, h1) /\ SameSubs(h, h1, Live(h))
      /\ \A d \in Live(h) : /\ h1.links[d].nextDep = IF d = l.prevDep THEN l.nextDep ELSE h.links[d].nextDep
                            /\ h1.links[d].prevDep = h.links[d].prevDep
      /\ \A n \in Here(h) :
           /\ h1.node[n].deps = IF n = l.sub /\ l.prevDep = None THEN l.nextDep ELSE h.node[n].deps
           /\ h1.node[n].depsTail = h.node[n].depsTail
  <2>1. CASE l.prevDep # None
    BY <2>1, <1>1, SetNextDep
  <2>2. CASE l.prevDep = None
    BY <2>2, <1>1, SetDeps
  <2> QED
    BY <2>1, <2>2
<1>3. g = IF l.nextDep # None THEN SetLink(h1, l.nextDep, "prevDep", l.prevDep)
          ELSE SetEnd(h1, l.sub, "depsTail", l.prevDep)
  BY DEF UnlinkFromSubDeps
<1> HIDE DEF h1
<1>4. h1 \in HeapT /\ Live(h1) = Live(h) /\ Here(h1) = Here(h)
  BY <1>2 DEF Alike
<1>5. /\ Alike(h1, g) /\ SameSubs(h1, g, Live(h1))
      /\ \A d \in Live(h) : /\ g.links[d].prevDep = IF d = l.nextDep THEN l.prevDep ELSE h1.links[d].prevDep
                            /\ g.links[d].nextDep = h1.links[d].nextDep
      /\ \A n \in Here(h) :
           /\ g.node[n].depsTail = IF n = l.sub /\ l.nextDep = None THEN l.prevDep ELSE h1.node[n].depsTail
           /\ g.node[n].deps = h1.node[n].deps
  <2>1. CASE l.nextDep # None
    BY <2>1, <1>1, <1>3, <1>4, SetPrevDep, SMTT(30)
  <2>2. CASE l.nextDep = None
    BY <2>2, <1>1, <1>3, <1>4, SetDepsTail, SMTT(30)
  <2> QED
    BY <2>1, <2>2
<1>6. Alike(h, g)
  BY <1>2, <1>5 DEF Alike
<1>7. SameSubs(h, g, Live(h))
  BY <1>2, <1>4, <1>5 DEF SameSubs
<1> QED
  BY <1>2, <1>5, <1>6, <1>7

(* Taking out one link, from the list of its subscriber.                   *)
LEMMA DetachIs ==
  ASSUME NEW h \in HeapT, FreeOK(h), NEW c \in Live(h), NEW s,
         DepLists(h, Live(h), s), NEW M \in SUBSET Here(h), DepTails(h, M, s), h.links[c].sub \in M, NEW g, g = Detach(h, c)
  PROVE  /\ g \in HeapT /\ FreeOK(g) /\ DOMAIN g.links = DOMAIN h.links
         /\ Live(g) = Live(h) \ {c} /\ Here(g) = Here(h) /\ SameSubs(h, g, Live(g))
         /\ Len(g.free) = Len(h.free) + 1
         /\ \E s2 : /\ DepLists(g, Live(g), s2) /\ DepTails(g, M, s2)
                    /\ \A m \in Here(h) : m # h.links[c].sub =>
                         s2[m] = s[m] /\ g.node[m].depsTail = h.node[m].depsTail
                    /\ \A m \in Here(h) : Within(s2[m], s[m])
<1> DEFINE U == Live(h)
           l == h.links[c]
           n == l.sub
           h1 == UnlinkFromSubDeps(h, c)
           own == [d \in U |-> h.links[d].sub]
           next == [d \in U |-> h.links[d].nextDep]
           prev == [d \in U |-> h.links[d].prevDep]
           head == [m \in Here(h) |-> h.node[m].deps]
<1>1. Lists(U, Here(h), own, next, prev, head, s)
  BY DEF DepLists
<1>2. /\ n \in Here(h)
      /\ l.prevDep \in (U \ {c}) \cup {None} /\ l.nextDep \in (U \ {c}) \cup {None}
      /\ \E k \in 1..Len(s[n]) : /\ s[n][k] = c
                                 /\ l.prevDep = IF k = 1 THEN None ELSE s[n][k - 1]
                                 /\ l.nextDep = IF k = Len(s[n]) THEN None ELSE s[n][k + 1]
  <2>1. own[c] = n /\ next[c] = l.nextDep /\ prev[c] = l.prevDep
    OBVIOUS
  <2> HIDE DEF own, next, prev, head, U, l, n
  <2>2. c \in U
    BY DEF U
  <2> QED
    BY <1>1, <2>1, <2>2, Neighbours
<1>3. /\ Alike(h, h1) /\ SameSubs(h, h1, U)
      /\ \A d \in U : /\ h1.links[d].nextDep = IF d = l.prevDep THEN l.nextDep ELSE h.links[d].nextDep
                      /\ h1.links[d].prevDep = IF d = l.nextDep THEN l.prevDep ELSE h.links[d].prevDep
      /\ \A m \in Here(h) :
           /\ h1.node[m].deps = IF m = n /\ l.prevDep = None THEN l.nextDep ELSE h.node[m].deps
           /\ h1.node[m].depsTail = IF m = n /\ l.nextDep = None THEN l.prevDep ELSE h.node[m].depsTail
  <2>1. /\ h \in HeapT /\ c \in Live(h) /\ l = h.links[c] /\ l.sub \in Here(h)
        /\ l.prevDep \in Live(h) \cup {None} /\ l.nextDep \in Live(h) \cup {None}
    BY <1>2
  <2> HIDE DEF l, h1
  <2> QED
    BY ONLY <2>1, UnlinkDep DEF h1, n, U
<1> HIDE DEF h1
<1>4. FreeOK(h1) /\ h1 \in HeapT /\ c \in Live(h1)
  <2>1. \A d \in DOMAIN h.links : h.links[d] = None <=> h1.links[d] = None
    BY <1>3 DEF Alike, Live
  <2> QED
    BY <1>3, <2>1 DEF Alike, FreeOK
<1>5. /\ g \in HeapT /\ FreeOK(g) /\ g.node = h1.node /\ DOMAIN g.links = DOMAIN h1.links
      /\ Live(g) = Live(h1) \ {c} /\ \A d \in DOMAIN h1.links : d # c => g.links[d] = h1.links[d]
      /\ Len(g.free) = Len(h.free) + 1
  BY <1>3, <1>4, FreeLinkIs DEF Detach, h1, Alike
<1>6. /\ DOMAIN g.links = DOMAIN h.links /\ Live(g) = U \ {c} /\ Here(g) = Here(h)
      /\ U \ {c} \subseteq DOMAIN h1.links
  BY <1>3, <1>5 DEF Alike, Live, Here
<1>7. SameSubs(h, g, Live(g))
  BY <1>3, <1>5, <1>6 DEF SameSubs
<1>8. PICK k \in 1..Len(s[n]) : /\ s[n][k] = c
                                /\ l.prevDep = IF k = 1 THEN None ELSE s[n][k - 1]
                                /\ l.nextDep = IF k = Len(s[n]) THEN None ELSE s[n][k + 1]
  BY <1>2
<1> DEFINE s2 == [s EXCEPT ![n] = Less(s[n], k)]
           own2 == [d \in Live(g) |-> g.links[d].sub]
           next2 == [d \in Live(g) |-> g.links[d].nextDep]
           prev2 == [d \in Live(g) |-> g.links[d].prevDep]
           head2 == [m \in Here(g) |-> g.node[m].deps]
<1>9. \A d \in U \ {c} : /\ own2[d] = own[d]
                         /\ next2[d] = IF d = prev[c] THEN next[c] ELSE next[d]
                         /\ prev2[d] = IF d = next[c] THEN prev[c] ELSE prev[d]
  BY <1>3, <1>5, <1>6 DEF SameSubs
<1>10. \A m \in Here(h) : head2[m] = IF m = n /\ prev[c] = None THEN next[c] ELSE head[m]
  BY <1>3, <1>5, <1>6
<1>11. None \notin U
  <2>1. U \subseteq Nat
    BY DEF HeapT, Live
  <2> QED
    BY <2>1, NoneIs
<1>12. Lists(U \ {c}, Here(h), own2, next2, prev2, head2, s2)
  <2> HIDE DEF own2, next2, prev2, head2, own, next, prev, head, n
  <2> QED
    BY ONLY <1>1, <1>2, <1>8, <1>9, <1>10, <1>11, Removed
<1>13. DepLists(g, Live(g), s2)
  BY <1>6, <1>12 DEF DepLists
<1>14. DepTails(g, M, s2)
  <2>1. s \in [Here(h) -> Seq(U)] /\ s[n] \in Seq(U) /\ \A i, j \in 1..Len(s[n]) : s[n][i] = s[n][j] => i = j
    BY <1>1, <1>2 DEF Lists
  <2>2. \A m \in Here(h) : s2[m] = IF m = n THEN Less(s[n], k) ELSE s[m]
    BY <2>1, <1>2
  <2>3. ASSUME NEW m \in M, m # n PROVE g.node[m].depsTail = LastOf(s2[m])
    BY <2>2, <2>3, <1>3, <1>5 DEF DepTails
  <2>4. g.node[n].depsTail = LastOf(Less(s[n], k))
    <3>1. s[n] \in Seq(U) /\ k \in 1..Len(s[n]) /\ \A i, j \in 1..Len(s[n]) : s[n][i] = s[n][j] => i = j
      BY <1>8, <2>1
    <3>2. /\ LastOf(s[n]) = s[n][Len(s[n])] /\ s[n][Len(s[n])] \in U
          /\ LastOf(Less(s[n], k)) = IF k = Len(s[n]) THEN (IF k = 1 THEN None ELSE s[n][k - 1])
                                     ELSE s[n][Len(s[n])]
      <4> HIDE DEF n, U
      <4> QED
        BY ONLY <3>1, LastOfLess
    <3>3. h.node[n].depsTail = LastOf(s[n])
      BY <1>2 DEF DepTails
    <3>4. g.node[n].depsTail = IF l.nextDep = None THEN l.prevDep ELSE h.node[n].depsTail
      <4> HIDE DEF n, l
      <4> QED
        BY ONLY <1>2, <1>3, <1>5
    <3>5. l.nextDep = None <=> k = Len(s[n])
      <4>1. k # Len(s[n]) => k + 1 \in 1..Len(s[n])
        BY ONLY <3>1
      <4>2. k # Len(s[n]) => s[n][k + 1] \in U
        BY ONLY <3>1, <4>1
      <4> HIDE DEF n, l, U
      <4> QED
        BY ONLY <4>2, <1>8, <1>11
    <3> HIDE DEF n, l, U
    <3> QED
      BY ONLY <1>8, <3>2, <3>3, <3>4, <3>5
  <2> QED
    BY <2>2, <2>3, <2>4, <1>6, <1>2 DEF DepTails
<1>15. \A m \in Here(h) : m # n => s2[m] = s[m] /\ g.node[m].depsTail = h.node[m].depsTail
  BY <1>1, <1>3, <1>5 DEF Lists
<1>16. \A m \in Here(h) : Within(s2[m], s[m])
  <2>1. Within(Less(s[n], k), s[n])
    <3>1. s[n] \in Seq(U) /\ k \in 1..Len(s[n]) /\ \A i, j \in 1..Len(s[n]) : s[n][i] = s[n][j] => i = j
      BY <1>1, <1>2, <1>8 DEF Lists
    <3> HIDE DEF n, U
    <3> QED
      BY ONLY <3>1, LessWithin
  <2>2. s2[n] = Less(s[n], k)
    BY <1>1, <1>2, SMTT(30) DEF Lists
  <2>3. ASSUME NEW m \in Here(h) PROVE Within(s[m], s[m])
    BY DEF Within
  <2> HIDE DEF n, s2
  <2> QED
    BY <2>1, <2>2, <2>3, <1>15
<1> QED
  BY <1>5, <1>6, <1>7, <1>13, <1>14, <1>15, <1>16

(* A loop from a, whose i-th step takes a value of J[i - 1] to one of J[i]. *)
IsLoop(N, T, a, J, step) ==
  /\ N \in Nat /\ a \in J[0] /\ \A i \in 0..N : J[i] \subseteq T
  /\ \A i \in 1..N : \A x \in J[i - 1] : step[i][x] \in J[i]

(* Such a loop exists, and stays in the sets J. *)
LEMMA Loop ==
  ASSUME NEW N, NEW T, NEW a, NEW J, NEW step, IsLoop(N, T, a, J, step)
  PROVE  \E f \in [0..N -> T] :
           /\ f[0] = a
           /\ \A i \in 1..N : f[i - 1] \in J[i - 1] /\ f[i] = step[i][f[i - 1]]
<1> DEFINE Good(k, f) == /\ f[0] = a /\ f[k] \in J[k]
                         /\ \A i \in 1..k : f[i - 1] \in J[i - 1] /\ f[i] = step[i][f[i - 1]]
           A == {k \in 0..N : \E f \in [0..k -> T] : Good(k, f)}
<1> USE DEF IsLoop
<1>1. 0 \in A
  <2>1. a \in T
    OBVIOUS
  <2>2. 0..0 = {0} /\ 1..0 = {} /\ 0 \in 0..N
    OBVIOUS
  <2> DEFINE g == [i \in 0..0 |-> a]
  <2>3. g \in [0..0 -> T] /\ g[0] = a
    BY <2>1, <2>2
  <2> HIDE DEF g
  <2>4. Good(0, g)
    BY <2>2, <2>3
  <2> HIDE DEF Good
  <2> QED
    BY <2>2, <2>3, <2>4
<1>2. ASSUME NEW k \in 1..N, k - 1 \in A PROVE k \in A
  <2>1. PICK f \in [0..(k - 1) -> T] : Good(k - 1, f)
    BY <1>2
  <2> DEFINE x == step[k][f[k - 1]]
             g == [i \in 0..k |-> IF i = k THEN x ELSE f[i]]
  <2>2. x \in J[k] /\ x \in T
    BY <2>1
  <2>3. \A i \in 0..k : i # k => i \in 0..(k - 1)
    OBVIOUS
  <2>4. g \in [0..k -> T]
    BY <2>2, <2>3
  <2>5. g[0] = a /\ g[k] \in J[k]
    BY <2>1, <2>2
  <2>6. ASSUME NEW i \in 1..k PROVE g[i - 1] \in J[i - 1] /\ g[i] = step[i][g[i - 1]]
    <3>1. i - 1 \in 0..k /\ i - 1 # k /\ i \in 0..k
      OBVIOUS
    <3>2. g[i - 1] = f[i - 1]
      BY <3>1
    <3>3. CASE i = k
      BY <2>1, <3>1, <3>2, <3>3
    <3>4. CASE i # k
      <4>1. i \in 1..(k - 1)
        BY <3>4
      <4> QED
        BY <4>1, <2>1, <3>1, <3>2, <3>4
    <3> QED
      BY <3>3, <3>4
  <2>7. Good(k, g)
    <3> HIDE DEF g
    <3> QED
      BY <2>5, <2>6
  <2> HIDE DEF g, Good
  <2>8. k \in 0..N
    OBVIOUS
  <2> QED
    BY ONLY <2>4, <2>7, <2>8 DEF A
<1>3. N \in A
  <2> HIDE DEF A
  <2>1. 0..N \subseteq A
    BY <1>1, <1>2, Steps
  <2> QED
    BY <2>1
<1> QED
  BY <1>3

(* g is h after the links C have been taken out of the lists of their      *)
(* sources, and freed.                                                     *)
Pruned(h, g, C) ==
  /\ FreeOK(g) /\ DOMAIN g.links = DOMAIN h.links
  /\ Len(g.free) >= Len(h.free)
  /\ Live(g) = Live(h) \ C /\ Here(g) = Here(h) /\ SameDeps(h, g, Live(g))
  /\ \E s : SubLists(g, Live(g), s) /\ SubTails(g, Here(g), s)

(* end_tracking and clear_deps take out all the links that they are given. *)
LEMMA PruneAllIs ==
  ASSUME NEW h \in HeapT, Pruned(h, h, {}), NEW cs \in Seq(Live(h)),
         \A i, j \in 1..Len(cs) : cs[i] = cs[j] => i = j
  PROVE  PruneAll(h, cs) \in HeapT /\ Pruned(h, PruneAll(h, cs), {cs[j] : j \in 1..Len(cs)})
<1> DEFINE N == Len(cs)
           C(i) == {cs[j] : j \in 1..i}
           J == [i \in 0..N |-> {x \in HeapT : Pruned(h, x, C(i))}]
           step == [i \in 1..N |-> [x \in J[i - 1] |-> Prune(x, cs[i])]]
           loop == CHOOSE f : f = [i \in 0..N |-> IF i = 0 THEN h ELSE Prune(f[i - 1], cs[i])]
<1>1. N \in Nat /\ \A i \in 1..N : cs[i] \in Live(h) /\ i - 1 \in 0..N /\ i \in 0..N
  OBVIOUS
<1>2. h \in J[0]
  <2>1. C(0) = {} /\ 0 \in 0..N
    BY <1>1
  <2> QED
    BY <2>1
<1>3. ASSUME NEW i \in 1..N, NEW x \in J[i - 1] PROVE Prune(x, cs[i]) \in J[i]
  <2>1. x \in HeapT /\ Pruned(h, x, C(i - 1))
    BY <1>1
  <2>2. C(i) = C(i - 1) \cup {cs[i]} /\ cs[i] \notin C(i - 1)
    <3>1. \A j \in 1..i : j \in 1..(i - 1) \/ j = i
      OBVIOUS
    <3>2. \A j \in 1..(i - 1) : j \in 1..i /\ j \in 1..N /\ j # i
      BY <1>1
    <3> QED
      BY <3>1, <3>2
  <2>3. cs[i] \in Live(x)
    BY <1>1, <2>1, <2>2 DEF Pruned
  <2>4. PICK s : SubLists(x, Live(x), s) /\ SubTails(x, Here(x), s)
    BY <2>1 DEF Pruned
  <2> DEFINE g == Prune(x, cs[i])
  <2>5. /\ g \in HeapT /\ FreeOK(g) /\ DOMAIN g.links = DOMAIN x.links
        /\ Live(g) = Live(x) \ {cs[i]} /\ Here(g) = Here(x) /\ SameDeps(x, g, Live(g))
        /\ Len(g.free) = Len(x.free) + 1
        /\ \E s2 : SubLists(g, Live(g), s2) /\ SubTails(g, Here(g), s2)
    <3>1. FreeOK(x)
      BY <2>1 DEF Pruned
    <3> QED
      BY ONLY <2>1, <2>3, <2>4, <3>1, PruneIs
  <2> HIDE DEF g, C
  <2>6. SameDeps(h, g, Live(g))
    BY <2>1, <2>5 DEF Pruned, SameDeps
  <2>6a. Len(g.free) >= Len(h.free)
    BY <2>1, <2>5 DEF Pruned, HeapT
  <2>7. Pruned(h, g, C(i))
    BY <2>1, <2>2, <2>5, <2>6, <2>6a DEF Pruned
  <2>8. g \in J[i]
    BY <2>5, <2>7, <1>1
  <2> QED
    BY <2>8 DEF g
<1> HIDE DEF J
<1>4. \E f : f = [i \in 0..N |-> IF i = 0 THEN h ELSE Prune(f[i - 1], cs[i])]
  <2>1. \A i \in 1..N : \A x \in J[i - 1] : step[i][x] = Prune(x, cs[i])
    OBVIOUS
  <2>2. \A i \in 1..N : \A x \in J[i - 1] : step[i][x] \in J[i]
    BY <1>3, <2>1
  <2>3. PICK f \in [0..N -> HeapT] :
           /\ f[0] = h
           /\ \A i \in 1..N : f[i - 1] \in J[i - 1] /\ f[i] = step[i][f[i - 1]]
    <3>1. N \in Nat /\ \A i \in 0..N : J[i] \subseteq HeapT
      BY <1>1 DEF J
    <3> HIDE DEF step, N
    <3>2. IsLoop(N, HeapT, h, J, step)
      BY ONLY <3>1, <1>2, <2>2 DEF IsLoop
    <3> QED
      BY ONLY <3>2, Loop
  <2>4. \A i \in 1..N : f[i] = Prune(f[i - 1], cs[i])
    BY <2>1, <2>3
  <2>5. f = [i \in 0..N |-> IF i = 0 THEN h ELSE Prune(f[i - 1], cs[i])]
    <3> HIDE DEF step
    <3>1. \A i \in 0..N : f[i] = IF i = 0 THEN h ELSE Prune(f[i - 1], cs[i])
      BY <2>3, <2>4, <1>1
    <3> QED
      BY <3>1
  <2> QED
    BY <2>5
<1>5. loop = [i \in 0..N |-> IF i = 0 THEN h ELSE Prune(loop[i - 1], cs[i])]
  BY <1>4
<1>6. PruneAll(h, cs) = loop[N]
  BY DEF PruneAll
<1> HIDE DEF loop
<1>7. loop[N] \in J[N]
  <2> DEFINE A == {i \in 0..N : loop[i] \in J[i]}
  <2>1. 0 \in A
    BY <1>1, <1>2, <1>5
  <2>2. ASSUME NEW i \in 1..N, i - 1 \in A PROVE i \in A
    <3>1. loop[i] = Prune(loop[i - 1], cs[i])
      BY <1>1, <1>5
    <3> QED
      BY <1>1, <1>3, <2>2, <3>1
  <2>3. 0..N \subseteq A
    <3> HIDE DEF A, N
    <3> QED
      BY <1>1, <2>1, <2>2, Steps
  <2> QED
    BY <1>1, <2>3
<1> QED
  BY <1>1, <1>6, <1>7 DEF J

(* g is h, with the dependency lists s, after the links C have been taken  *)
(* out of the lists of their subscribers, some of M, and freed.            *)
Detached(h, g, C, M, s) ==
  /\ FreeOK(g) /\ DOMAIN g.links = DOMAIN h.links
  /\ Len(g.free) >= Len(h.free)
  /\ Live(g) = Live(h) \ C /\ Here(g) = Here(h) /\ SameSubs(h, g, Live(g))
  /\ \E s2 : /\ DepLists(g, Live(g), s2) /\ DepTails(g, M, s2)
             /\ \A m \in Here(h) : (\A c \in C : h.links[c].sub # m) =>
                  s2[m] = s[m] /\ g.node[m].depsTail = h.node[m].depsTail
             /\ \A m \in Here(h) : Within(s2[m], s[m])

(* So does detach_subs. *)
LEMMA DetachAllIs ==
  ASSUME NEW h \in HeapT, NEW s, NEW M \in SUBSET Here(h), Detached(h, h, {}, M, s), NEW cs \in Seq(Live(h)),
         \A i, j \in 1..Len(cs) : cs[i] = cs[j] => i = j,
         \A i \in 1..Len(cs) : h.links[cs[i]].sub \in M
  PROVE  DetachAll(h, cs) \in HeapT /\ Detached(h, DetachAll(h, cs), {cs[j] : j \in 1..Len(cs)}, M, s)
<1> DEFINE N == Len(cs)
           C(i) == {cs[j] : j \in 1..i}
           J == [i \in 0..N |-> {x \in HeapT : Detached(h, x, C(i), M, s)}]
           step == [i \in 1..N |-> [x \in J[i - 1] |-> Detach(x, cs[i])]]
           loop == CHOOSE f : f = [i \in 0..N |-> IF i = 0 THEN h ELSE Detach(f[i - 1], cs[i])]
<1>1. N \in Nat /\ \A i \in 1..N : cs[i] \in Live(h) /\ i - 1 \in 0..N /\ i \in 0..N
  OBVIOUS
<1>2. h \in J[0]
  <2>1. C(0) = {} /\ 0 \in 0..N
    BY <1>1
  <2> QED
    BY <2>1
<1>3. ASSUME NEW i \in 1..N, NEW x \in J[i - 1] PROVE Detach(x, cs[i]) \in J[i]
  <2>1. x \in HeapT /\ Detached(h, x, C(i - 1), M, s)
    BY <1>1
  <2>2. C(i) = C(i - 1) \cup {cs[i]} /\ cs[i] \notin C(i - 1)
    <3>1. \A j \in 1..i : j \in 1..(i - 1) \/ j = i
      OBVIOUS
    <3>2. \A j \in 1..(i - 1) : j \in 1..i /\ j \in 1..N /\ j # i
      BY <1>1
    <3> QED
      BY <3>1, <3>2
  <2>3. cs[i] \in Live(x)
    BY <1>1, <2>1, <2>2 DEF Detached
  <2>4. PICK sx : /\ DepLists(x, Live(x), sx) /\ DepTails(x, M, sx)
                  /\ \A m \in Here(h) : (\A c \in C(i - 1) : h.links[c].sub # m) =>
                       sx[m] = s[m] /\ x.node[m].depsTail = h.node[m].depsTail
                  /\ \A m \in Here(h) : Within(sx[m], s[m])
    BY <2>1 DEF Detached
  <2>4a. x.links[cs[i]].sub = h.links[cs[i]].sub /\ h.links[cs[i]].sub \in M /\ Here(x) = Here(h) /\ FreeOK(x)
    BY <2>1, <2>3 DEF Detached, SameSubs
  <2> DEFINE g == Detach(x, cs[i])
  <2>5. /\ g \in HeapT /\ FreeOK(g) /\ DOMAIN g.links = DOMAIN x.links
        /\ Live(g) = Live(x) \ {cs[i]} /\ Here(g) = Here(x) /\ SameSubs(x, g, Live(g))
        /\ Len(g.free) = Len(x.free) + 1
        /\ \E s2 : /\ DepLists(g, Live(g), s2) /\ DepTails(g, M, s2)
                   /\ \A m \in Here(x) : m # x.links[cs[i]].sub =>
                        s2[m] = sx[m] /\ g.node[m].depsTail = x.node[m].depsTail
                   /\ \A m \in Here(x) : Within(s2[m], sx[m])
    <3>1. M \in SUBSET Here(x) /\ x.links[cs[i]].sub \in M
      BY <2>4a
    <3> HIDE DEF C
    <3> QED
      BY ONLY <2>1, <2>3, <2>4, <2>4a, <3>1, DetachIs
  <2> HIDE DEF g
  <2>6. SameSubs(h, g, Live(g))
    BY <2>1, <2>5 DEF Detached, SameSubs
  <2>7. Detached(h, g, C(i), M, s)
    <3>1. PICK s2 : /\ DepLists(g, Live(g), s2) /\ DepTails(g, M, s2)
                    /\ \A m \in Here(x) : m # x.links[cs[i]].sub =>
                         s2[m] = sx[m] /\ g.node[m].depsTail = x.node[m].depsTail
                    /\ \A m \in Here(x) : Within(s2[m], sx[m])
      BY <2>5
    <3>2. ASSUME NEW m \in Here(h), \A c \in C(i) : h.links[c].sub # m
          PROVE  s2[m] = s[m] /\ g.node[m].depsTail = h.node[m].depsTail
      <4>1. m \in Here(x) /\ m # x.links[cs[i]].sub
        BY <2>2, <2>4a, <3>2
      <4>2. \A c \in C(i - 1) : h.links[c].sub # m
        <5> HIDE DEF C
        <5> QED
          BY <2>2, <3>2
      <4> QED
        BY ONLY <2>4, <3>1, <4>1, <4>2, m \in Here(h)
    <3> HIDE DEF C
    <3>3. DOMAIN g.links = DOMAIN h.links /\ Live(g) = Live(h) \ C(i) /\ Here(g) = Here(h)
      BY <2>1, <2>2, <2>5 DEF Detached
    <3>4. Len(g.free) >= Len(h.free)
      BY <2>1, <2>5 DEF Detached, HeapT
    <3>5. ASSUME NEW m \in Here(h) PROVE Within(s2[m], s[m])
      <4>1. Within(s2[m], sx[m]) /\ Within(sx[m], s[m])
        BY <2>4, <2>4a, <3>1
      <4> QED
        BY ONLY <4>1, WithinWithin
    <3> QED
      BY ONLY <2>5, <2>6, <3>1, <3>2, <3>3, <3>4, <3>5 DEF Detached
  <2> HIDE DEF C
  <2>8. g \in J[i]
    BY <2>5, <2>7, <1>1
  <2> QED
    BY <2>8 DEF g
<1> HIDE DEF J
<1>4. \E f : f = [i \in 0..N |-> IF i = 0 THEN h ELSE Detach(f[i - 1], cs[i])]
  <2>1. \A i \in 1..N : \A x \in J[i - 1] : step[i][x] = Detach(x, cs[i])
    OBVIOUS
  <2>2. \A i \in 1..N : \A x \in J[i - 1] : step[i][x] \in J[i]
    BY <1>3, <2>1
  <2>3. PICK f \in [0..N -> HeapT] :
           /\ f[0] = h
           /\ \A i \in 1..N : f[i - 1] \in J[i - 1] /\ f[i] = step[i][f[i - 1]]
    <3>1. N \in Nat /\ \A i \in 0..N : J[i] \subseteq HeapT
      BY <1>1 DEF J
    <3> HIDE DEF step, N
    <3>2. IsLoop(N, HeapT, h, J, step)
      BY ONLY <3>1, <1>2, <2>2 DEF IsLoop
    <3> QED
      BY ONLY <3>2, Loop
  <2>4. \A i \in 1..N : f[i] = Detach(f[i - 1], cs[i])
    BY <2>1, <2>3
  <2>5. f = [i \in 0..N |-> IF i = 0 THEN h ELSE Detach(f[i - 1], cs[i])]
    <3> HIDE DEF step
    <3>1. \A i \in 0..N : f[i] = IF i = 0 THEN h ELSE Detach(f[i - 1], cs[i])
      BY <2>3, <2>4, <1>1
    <3> QED
      BY <3>1
  <2> QED
    BY <2>5
<1>5. loop = [i \in 0..N |-> IF i = 0 THEN h ELSE Detach(loop[i - 1], cs[i])]
  BY <1>4
<1>6. DetachAll(h, cs) = loop[N]
  BY DEF DetachAll
<1> HIDE DEF loop
<1>7. loop[N] \in J[N]
  <2> DEFINE A == {i \in 0..N : loop[i] \in J[i]}
  <2>1. 0 \in A
    BY <1>1, <1>2, <1>5
  <2>2. ASSUME NEW i \in 1..N, i - 1 \in A PROVE i \in A
    <3>1. loop[i] = Detach(loop[i - 1], cs[i])
      BY <1>1, <1>5
    <3> QED
      BY <1>1, <1>3, <2>2, <3>1
  <2>3. 0..N \subseteq A
    <3> HIDE DEF A, N
    <3> QED
      BY <1>1, <2>1, <2>2, Steps
  <2> QED
    BY <1>1, <2>3
<1> QED
  BY <1>1, <1>6, <1>7 DEF J

-----------------------------------------------------------------------------
(* The links of t after the first k.                                       *)
From(t, k) == [i \in 1..(Len(t) - k) |-> t[k + i]]

(* The elements of a sequence after its first k. *)
LEMMA FromIs ==
  ASSUME NEW U, NEW t \in Seq(U), NEW k \in 0..Len(t)
  PROVE  /\ From(t, k) \in Seq(U) /\ Len(From(t, k)) = Len(t) - k
         /\ \A i \in 1..(Len(t) - k) : From(t, k)[i] = t[k + i] /\ k + i \in 1..Len(t)
<1>1. Len(t) \in Nat /\ k \in Nat /\ Len(t) - k \in Nat
  OBVIOUS
<1>2. \A i \in 1..(Len(t) - k) : k + i \in 1..Len(t) /\ t[k + i] \in U
  BY <1>1
<1> QED
  BY <1>1, <1>2 DEF From

(* A walk along sound pointers finds the rest of the list.                 *)
Leads(h, field, t) ==
  /\ h \in HeapT /\ t \in Seq(Live(h)) /\ \A i, j \in 1..Len(t) : t[i] = t[j] => i = j
  /\ \A i \in 1..Len(t) : h.links[t[i]][field] = IF i = Len(t) THEN None ELSE t[i + 1]

(* A dependency list is a chain, from any of its links. *)
LEMMA ListChain ==
  ASSUME NEW h, NEW field, NEW t, Leads(h, field, t), NEW k \in 0..Len(t)
  PROVE  Chain(h, IF k = Len(t) THEN None ELSE t[k + 1], field) = From(t, k)
<1> DEFINE s == From(t, k)
           c == IF k = Len(t) THEN None ELSE t[k + 1]
<1> USE DEF Leads
<1>1. h.links \in Seq(Link \cup {None}) /\ Live(h) \subseteq DOMAIN h.links /\ DOMAIN h.links \subseteq Nat
  BY DEF HeapT, Live
<1>2. /\ s \in Seq(Live(h)) /\ Len(s) = Len(t) - k /\ Len(t) \in Nat /\ k \in Nat /\ k <= Len(t)
      /\ \A i \in 1..(Len(t) - k) : s[i] = t[k + i] /\ k + i \in 1..Len(t)
  BY FromIs
<1> HIDE DEF s
<1>3. s \in Seq(DOMAIN h.links)
  <2>1. \A i \in 1..Len(s) : s[i] \in Live(h)
    BY <1>2
  <2>2. \A i \in 1..Len(s) : s[i] \in DOMAIN h.links
    BY ONLY <2>1, <1>1
  <2> QED
    BY ONLY <2>2, <1>2, SMTT(30)
<1>4. ASSUME NEW i \in 1..Len(s), NEW j \in 1..Len(s), s[i] = s[j] PROVE i = j
  <2>1. t[k + i] = t[k + j] /\ k + i \in 1..Len(t) /\ k + j \in 1..Len(t)
    BY <1>2, <1>4
  <2>2. k + i = k + j
    BY <2>1
  <2> QED
    BY ONLY <2>2, <1>2
<1>5. ASSUME NEW i \in 1..Len(s)
      PROVE  InUse(h, s[i]) /\ s[i] = IF i = 1 THEN c ELSE h.links[s[i - 1]][field]
  <2>1. s[i] = t[k + i] /\ k + i \in 1..Len(t) /\ s[i] \in Live(h)
    BY <1>2, <1>5
  <2>2. InUse(h, s[i])
    BY <2>1 DEF InUse, Live
  <2>3. CASE i = 1
    BY <2>1, <2>2, <2>3, <1>2
  <2>4. CASE i # 1
    <3>1. i - 1 \in 1..(Len(t) - k) /\ k + (i - 1) # Len(t) /\ (k + (i - 1)) + 1 = k + i
      BY ONLY <2>1, <2>4, <1>2, <1>5
    <3>2. s[i - 1] = t[k + (i - 1)] /\ k + (i - 1) \in 1..Len(t)
      BY ONLY <3>1, <1>2
    <3>3. h.links[t[k + (i - 1)]][field] = t[(k + (i - 1)) + 1]
      BY <3>1, <3>2
    <3> QED
      BY ONLY <2>1, <2>2, <2>4, <3>1, <3>2, <3>3
  <2> QED
    BY <2>3, <2>4
<1>6. ~InUse(h, IF s = <<>> THEN c ELSE h.links[s[Len(s)]][field])
  <2>1. ~InUse(h, None)
    BY <1>1, NoneIs DEF InUse
  <2>2. CASE k = Len(t)
    <3>1. s = <<>> /\ c = None
      BY <2>2, <1>2
    <3> QED
      BY <2>1, <3>1
  <2>3. CASE k # Len(t)
    <3>1. s # <<>> /\ Len(t) - k \in 1..(Len(t) - k) /\ k + (Len(t) - k) = Len(t)
      BY ONLY <2>3, <1>2
    <3>2. s[Len(s)] = t[Len(t)] /\ Len(t) \in 1..Len(t)
      BY ONLY <3>1, <1>2
    <3>3. h.links[t[Len(t)]][field] = None
      BY <3>2
    <3> QED
      BY ONLY <2>1, <3>1, <3>2, <3>3
  <2> QED
    BY <2>2, <2>3
<1> HIDE DEF c
<1>7. IsChain(h, c, field, s)
  BY ONLY <1>3, <1>4, <1>5, <1>6 DEF IsChain
<1> QED
  BY <1>1, <1>7, ChainIs DEF s, c

(* The pool h, with the dependency lists D and the subscriber lists S.     *)
Pool(h, D, S) ==
  /\ h \in HeapT /\ FreeOK(h)
  /\ DepLists(h, Live(h), D) /\ SubLists(h, Live(h), S) /\ SubTails(h, Here(h), S)

(* What a list is, in terms of the pool.                                   *)
LEMMA DepListIs ==
  ASSUME NEW h, NEW D, NEW S, Pool(h, D, S), NEW n \in Here(h)
  PROVE  /\ D[n] \in Seq(Live(h)) /\ Len(D[n]) \in Nat
         /\ \A i, j \in 1..Len(D[n]) : D[n][i] = D[n][j] => i = j
         /\ \A i \in 1..Len(D[n]) :
              /\ D[n][i] \in Live(h) /\ h.links[D[n][i]].sub = n
              /\ h.links[D[n][i]].prevDep = IF i = 1 THEN None ELSE D[n][i - 1]
              /\ h.links[D[n][i]].nextDep = IF i = Len(D[n]) THEN None ELSE D[n][i + 1]
         /\ h.node[n].deps = IF Len(D[n]) = 0 THEN None ELSE D[n][1]
         /\ \A c \in Live(h) : h.links[c].sub = n => \E i \in 1..Len(D[n]) : D[n][i] = c
<1>1. D[n] \in Seq(Live(h)) /\ Len(D[n]) \in Nat
  BY DEF Pool, DepLists, Lists
<1>2. \A i, j \in 1..Len(D[n]) : D[n][i] = D[n][j] => i = j
  BY DEF Pool, DepLists, Lists
<1>2a. \A i \in 1..Len(D[n]) : D[n][i] \in Live(h)
  BY ONLY <1>1
<1>3. \A i \in 1..Len(D[n]) :
        /\ D[n][i] \in Live(h) /\ h.links[D[n][i]].sub = n
        /\ h.links[D[n][i]].prevDep = IF i = 1 THEN None ELSE D[n][i - 1]
        /\ h.links[D[n][i]].nextDep = IF i = Len(D[n]) THEN None ELSE D[n][i + 1]
  <2> DEFINE own == [c \in Live(h) |-> h.links[c].sub]
             next == [c \in Live(h) |-> h.links[c].nextDep]
             prev == [c \in Live(h) |-> h.links[c].prevDep]
             head == [m \in Here(h) |-> h.node[m].deps]
  <2>1. Lists(Live(h), Here(h), own, next, prev, head, D)
    BY DEF Pool, DepLists
  <2>2. \A c \in Live(h) : own[c] = h.links[c].sub /\ next[c] = h.links[c].nextDep /\ prev[c] = h.links[c].prevDep
    OBVIOUS
  <2> HIDE DEF own, next, prev, head
  <2>3. OneList(Live(h), n, own, next, prev, head, D[n])
    BY ONLY <2>1, ListsAre, n \in Here(h)
  <2> SUFFICES ASSUME NEW i \in 1..Len(D[n])
               PROVE  /\ h.links[D[n][i]].sub = n
                      /\ h.links[D[n][i]].prevDep = IF i = 1 THEN None ELSE D[n][i - 1]
                      /\ h.links[D[n][i]].nextDep = IF i = Len(D[n]) THEN None ELSE D[n][i + 1]
    BY <1>2a
  <2>4. /\ own[D[n][i]] = n
        /\ prev[D[n][i]] = IF i = 1 THEN None ELSE D[n][i - 1]
        /\ next[D[n][i]] = IF i = Len(D[n]) THEN None ELSE D[n][i + 1]
    BY <2>3 DEF OneList
  <2> QED
    BY ONLY <1>2a, <2>2, <2>4, i \in 1..Len(D[n])
<1>4. h.node[n].deps = IF Len(D[n]) = 0 THEN None ELSE D[n][1]
  BY DEF Pool, DepLists, Lists
<1>5. \A c \in Live(h) : h.links[c].sub = n => \E i \in 1..Len(D[n]) : D[n][i] = c
  BY DEF Pool, DepLists, Lists
<1> QED
  BY ONLY <1>1, <1>2, <1>3, <1>4, <1>5, Zenon

(* The same for the subscriber list. *)
LEMMA SubListIs ==
  ASSUME NEW h, NEW D, NEW S, Pool(h, D, S), NEW n \in Here(h)
  PROVE  /\ S[n] \in Seq(Live(h)) /\ Len(S[n]) \in Nat
         /\ \A i, j \in 1..Len(S[n]) : S[n][i] = S[n][j] => i = j
         /\ \A i \in 1..Len(S[n]) :
              /\ S[n][i] \in Live(h) /\ h.links[S[n][i]].dep = n
              /\ h.links[S[n][i]].prevSub = IF i = 1 THEN None ELSE S[n][i - 1]
              /\ h.links[S[n][i]].nextSub = IF i = Len(S[n]) THEN None ELSE S[n][i + 1]
         /\ h.node[n].subs = IF Len(S[n]) = 0 THEN None ELSE S[n][1]
         /\ \A c \in Live(h) : h.links[c].dep = n => \E i \in 1..Len(S[n]) : S[n][i] = c
         /\ h.node[n].subsTail = LastOf(S[n])
<1>1. S[n] \in Seq(Live(h)) /\ Len(S[n]) \in Nat
  BY DEF Pool, SubLists, Lists
<1>2. \A i, j \in 1..Len(S[n]) : S[n][i] = S[n][j] => i = j
  BY DEF Pool, SubLists, Lists
<1>2a. \A i \in 1..Len(S[n]) : S[n][i] \in Live(h)
  BY ONLY <1>1
<1>3. \A i \in 1..Len(S[n]) :
        /\ S[n][i] \in Live(h) /\ h.links[S[n][i]].dep = n
        /\ h.links[S[n][i]].prevSub = IF i = 1 THEN None ELSE S[n][i - 1]
        /\ h.links[S[n][i]].nextSub = IF i = Len(S[n]) THEN None ELSE S[n][i + 1]
  <2> DEFINE own == [c \in Live(h) |-> h.links[c].dep]
             next == [c \in Live(h) |-> h.links[c].nextSub]
             prev == [c \in Live(h) |-> h.links[c].prevSub]
             head == [m \in Here(h) |-> h.node[m].subs]
  <2>1. Lists(Live(h), Here(h), own, next, prev, head, S)
    BY DEF Pool, SubLists
  <2>2. \A c \in Live(h) : own[c] = h.links[c].dep /\ next[c] = h.links[c].nextSub /\ prev[c] = h.links[c].prevSub
    OBVIOUS
  <2> HIDE DEF own, next, prev, head
  <2>3. OneList(Live(h), n, own, next, prev, head, S[n])
    BY ONLY <2>1, ListsAre, n \in Here(h)
  <2> SUFFICES ASSUME NEW i \in 1..Len(S[n])
               PROVE  /\ h.links[S[n][i]].dep = n
                      /\ h.links[S[n][i]].prevSub = IF i = 1 THEN None ELSE S[n][i - 1]
                      /\ h.links[S[n][i]].nextSub = IF i = Len(S[n]) THEN None ELSE S[n][i + 1]
    BY <1>2a
  <2>4. /\ own[S[n][i]] = n
        /\ prev[S[n][i]] = IF i = 1 THEN None ELSE S[n][i - 1]
        /\ next[S[n][i]] = IF i = Len(S[n]) THEN None ELSE S[n][i + 1]
    BY <2>3 DEF OneList
  <2> QED
    BY ONLY <1>2a, <2>2, <2>4, i \in 1..Len(S[n])
<1>4. h.node[n].subs = IF Len(S[n]) = 0 THEN None ELSE S[n][1]
  BY DEF Pool, SubLists, Lists
<1>5. \A c \in Live(h) : h.links[c].dep = n => \E i \in 1..Len(S[n]) : S[n][i] = c
  BY DEF Pool, SubLists, Lists
<1>6. h.node[n].subsTail = LastOf(S[n])
  BY DEF Pool, SubTails
<1> QED
  BY ONLY <1>1, <1>2, <1>3, <1>4, <1>5, <1>6, Zenon

(* All of them. *)
LEMMA FromStart ==
  ASSUME NEW U, NEW t \in Seq(U)
  PROVE  From(t, 0) = t
<1>1. Len(t) \in Nat /\ \A i \in 1..Len(t) : 0 + i = i
  OBVIOUS
<1> QED
  BY <1>1 DEF From

(* The lists are what collect_deps and collect_subs collect.               *)
LEMMA ListsFound ==
  ASSUME NEW h, NEW D, NEW S, Pool(h, D, S)
  PROVE  /\ D = [n \in Here(h) |-> DepLinks(h, n)] /\ S = [n \in Here(h) |-> SubLinks(h, n)]
         /\ \A n \in Here(h) : \A k \in 0..Len(D[n]) :
              Chain(h, IF k = Len(D[n]) THEN None ELSE D[n][k + 1], "nextDep") = From(D[n], k)
<1>1. h \in HeapT /\ DOMAIN D = Here(h) /\ D = [n \in DOMAIN D |-> D[n]]
      /\ DOMAIN S = Here(h) /\ S = [n \in DOMAIN S |-> S[n]]
  BY DEF Pool, DepLists, SubLists, Lists
<1>2. ASSUME NEW n \in Here(h), NEW k \in 0..Len(D[n])
      PROVE  Chain(h, IF k = Len(D[n]) THEN None ELSE D[n][k + 1], "nextDep") = From(D[n], k)
  <2>1. Leads(h, "nextDep", D[n])
    BY <1>1, DepListIs DEF Leads
  <2> QED
    BY ONLY <1>2, <2>1, ListChain
<1>3. ASSUME NEW n \in Here(h) PROVE DepLinks(h, n) = D[n]
  <2>1. D[n] \in Seq(Live(h)) /\ 0 \in 0..Len(D[n])
    BY DepListIs
  <2>2. h.node[n].deps = IF 0 = Len(D[n]) THEN None ELSE D[n][0 + 1]
    BY DepListIs
  <2>3. Chain(h, h.node[n].deps, "nextDep") = From(D[n], 0)
    BY <2>1, <2>2, <1>2
  <2> QED
    BY <2>1, <2>3, FromStart DEF DepLinks
<1>4. ASSUME NEW n \in Here(h) PROVE SubLinks(h, n) = S[n]
  <2>1. S[n] \in Seq(Live(h)) /\ 0 \in 0..Len(S[n])
    BY SubListIs
  <2>2. h.node[n].subs = IF 0 = Len(S[n]) THEN None ELSE S[n][0 + 1]
    BY SubListIs
  <2>3. Leads(h, "nextSub", S[n])
    BY <1>1, SubListIs DEF Leads
  <2>4. Chain(h, h.node[n].subs, "nextSub") = From(S[n], 0)
    BY ONLY <2>1, <2>2, <2>3, ListChain
  <2> QED
    BY <2>1, <2>4, FromStart DEF SubLinks
<1> QED
  BY <1>1, <1>2, <1>3, <1>4

(* Lists depend on the fields of their links only.                         *)
LEMMA SameLists ==
  ASSUME NEW h, NEW g, NEW U, Here(g) = Here(h), NEW s
  PROVE  /\ SameDeps(h, g, U) /\ DepLists(h, U, s) => DepLists(g, U, s)
         /\ SameSubs(h, g, U) /\ SubLists(h, U, s) => SubLists(g, U, s)
         /\ SameSubs(h, g, U) /\ SubTails(h, Here(h), s) => SubTails(g, Here(g), s)
<1>1. ASSUME SameDeps(h, g, U), DepLists(h, U, s) PROVE DepLists(g, U, s)
  <2> DEFINE own == [c \in U |-> h.links[c].sub]  own2 == [c \in U |-> g.links[c].sub]
             next == [c \in U |-> h.links[c].nextDep]  next2 == [c \in U |-> g.links[c].nextDep]
             prev == [c \in U |-> h.links[c].prevDep]  prev2 == [c \in U |-> g.links[c].prevDep]
             head == [m \in Here(h) |-> h.node[m].deps]  head2 == [m \in Here(h) |-> g.node[m].deps]
  <2>1. \A c \in U : own2[c] = own[c] /\ prev2[c] = prev[c] /\ next2[c] = next[c]
    BY <1>1 DEF SameDeps
  <2>2. \A m \in Here(h) : head2[m] = head[m]
    BY <1>1 DEF SameDeps
  <2>3. Lists(U, Here(h), own, next, prev, head, s)
    BY <1>1 DEF DepLists
  <2>4. Lists(U, Here(h), own2, next2, prev2, head2, s)
    <3> HIDE DEF own, own2, next, next2, prev, prev2, head, head2
    <3> QED
      BY ONLY <2>1, <2>2, <2>3, Untouched
  <2> QED
    BY <2>4 DEF DepLists
<1>2. ASSUME SameSubs(h, g, U), SubLists(h, U, s) PROVE SubLists(g, U, s)
  <2> DEFINE own == [c \in U |-> h.links[c].dep]  own2 == [c \in U |-> g.links[c].dep]
             next == [c \in U |-> h.links[c].nextSub]  next2 == [c \in U |-> g.links[c].nextSub]
             prev == [c \in U |-> h.links[c].prevSub]  prev2 == [c \in U |-> g.links[c].prevSub]
             head == [m \in Here(h) |-> h.node[m].subs]  head2 == [m \in Here(h) |-> g.node[m].subs]
  <2>1. \A c \in U : own2[c] = own[c] /\ prev2[c] = prev[c] /\ next2[c] = next[c]
    BY <1>2 DEF SameSubs
  <2>2. \A m \in Here(h) : head2[m] = head[m]
    BY <1>2 DEF SameSubs
  <2>3. Lists(U, Here(h), own, next, prev, head, s)
    BY <1>2 DEF SubLists
  <2>4. Lists(U, Here(h), own2, next2, prev2, head2, s)
    <3> HIDE DEF own, own2, next, next2, prev, prev2, head, head2
    <3> QED
      BY ONLY <2>1, <2>2, <2>3, Untouched
  <2> QED
    BY <2>4 DEF SubLists
<1>3. ASSUME SameSubs(h, g, U), SubTails(h, Here(h), s) PROVE SubTails(g, Here(g), s)
  BY <1>3 DEF SameSubs, SubTails
<1> QED
  BY <1>1, <1>2, <1>3

-----------------------------------------------------------------------------
(* new_node.                                                               *)
Joins(h, D, S, n, g, D2, S2) ==
  /\ Pool(h, D, S) /\ n \in Nodes \ Here(h)
  /\ g = [links |-> h.links, free |-> h.free, node |-> [h.node EXCEPT ![n] = NoLinks]]
  /\ D2 = [m \in Here(h) \cup {n} |-> IF m = n THEN <<>> ELSE D[m]]
  /\ S2 = [m \in Here(h) \cup {n} |-> IF m = n THEN <<>> ELSE S[m]]

(* It has no links. *)
LEMMA Created ==
  ASSUME NEW h, NEW D, NEW S, NEW n, NEW g, NEW D2, NEW S2, Joins(h, D, S, n, g, D2, S2)
  PROVE  /\ Pool(g, D2, S2)
         /\ Here(g) = Here(h) \cup {n} /\ Live(g) = Live(h) /\ g.links = h.links
         /\ g.node[n].depsTail = None /\ \A m \in Here(h) : g.node[m] = h.node[m]
<1>h. /\ Pool(h, D, S) /\ n \in Nodes \ Here(h)
      /\ g = [links |-> h.links, free |-> h.free, node |-> [h.node EXCEPT ![n] = NoLinks]]
      /\ D2 = [m \in Here(h) \cup {n} |-> IF m = n THEN <<>> ELSE D[m]]
      /\ S2 = [m \in Here(h) \cup {n} |-> IF m = n THEN <<>> ELSE S[m]]
  BY DEF Joins
<1> USE <1>h
<1>1. h \in HeapT /\ NoLinks \in Ends /\ NoLinks # None
  <2>1. NoLinks \in Ends
    BY DEF NoLinks, Ends, Pointer
  <2> QED
    BY <2>1, NoneIs DEF Pool
<1>2. g \in HeapT /\ g.links = h.links /\ g.free = h.free
      /\ \A m \in Nodes : g.node[m] = IF m = n THEN NoLinks ELSE h.node[m]
  BY <1>1 DEF HeapT
<1>3. Here(g) = Here(h) \cup {n} /\ Live(g) = Live(h) /\ FreeOK(g)
  <2>1. Here(g) = Here(h) \cup {n}
    BY <1>1, <1>2 DEF Here
  <2>2. Live(g) = Live(h)
    BY <1>2 DEF Live
  <2>3. FreeOK(g)
    BY <1>2 DEF Pool, FreeOK
  <2> QED
    BY <2>1, <2>2, <2>3
<1>4. \A m \in Here(h) : m # n /\ m \in Nodes /\ g.node[m] = h.node[m]
  BY <1>2 DEF Here
<1>5. g.node[n] = NoLinks
  BY <1>2
<1> DEFINE U == Live(h)
<1>6. DepLists(g, U, D2)
  <2> DEFINE own == [c \in U |-> h.links[c].sub]
             next == [c \in U |-> h.links[c].nextDep]
             prev == [c \in U |-> h.links[c].prevDep]
             head == [m \in Here(h) |-> h.node[m].deps]
             head2 == [m \in Here(h) \cup {n} |-> g.node[m].deps]
  <2>1. Lists(U, Here(h), own, next, prev, head, D)
    BY DEF Pool, DepLists
  <2>2. head2[n] = None /\ \A m \in Here(h) : head2[m] = head[m]
    BY <1>4, <1>5 DEF NoLinks
  <2>3. n \notin Here(h)
    OBVIOUS
  <2>4. Lists(U, Here(h) \cup {n}, own, next, prev, head2, D2)
    <3> HIDE DEF own, next, prev, head, head2
    <3>1. Lists(U, Here(h) \cup {n}, own, next, prev, head2,
                [m \in Here(h) \cup {n} |-> IF m = n THEN <<>> ELSE D[m]])
      BY ONLY <2>1, <2>2, <2>3, Joined
    <3> QED
      BY ONLY <3>1, <1>h
  <2> QED
    BY <2>4, <1>2, <1>3 DEF DepLists
<1>7. SubLists(g, U, S2)
  <2> DEFINE own == [c \in U |-> h.links[c].dep]
             next == [c \in U |-> h.links[c].nextSub]
             prev == [c \in U |-> h.links[c].prevSub]
             head == [m \in Here(h) |-> h.node[m].subs]
             head2 == [m \in Here(h) \cup {n} |-> g.node[m].subs]
  <2>1. Lists(U, Here(h), own, next, prev, head, S)
    BY DEF Pool, SubLists
  <2>2. head2[n] = None /\ \A m \in Here(h) : head2[m] = head[m]
    BY <1>4, <1>5 DEF NoLinks
  <2>3. n \notin Here(h)
    OBVIOUS
  <2>4. Lists(U, Here(h) \cup {n}, own, next, prev, head2, S2)
    <3> HIDE DEF own, next, prev, head, head2
    <3>1. Lists(U, Here(h) \cup {n}, own, next, prev, head2,
                [m \in Here(h) \cup {n} |-> IF m = n THEN <<>> ELSE S[m]])
      BY ONLY <2>1, <2>2, <2>3, Joined
    <3> QED
      BY ONLY <3>1, <1>h
  <2> QED
    BY <2>4, <1>2, <1>3 DEF SubLists
<1>8. SubTails(g, Here(g), S2)
  <2>1. ASSUME NEW m \in Here(h) PROVE g.node[m].subsTail = LastOf(S2[m])
    BY <1>4 DEF Pool, SubTails
  <2>2. g.node[n].subsTail = LastOf(S2[n])
    BY <1>5 DEF NoLinks, LastOf
  <2> QED
    BY <2>1, <2>2, <1>3 DEF SubTails
<1> QED
  BY <1>2, <1>3, <1>4, <1>5, <1>6, <1>7, <1>8 DEF Pool, NoLinks

(* The cursor of a node moves.                                             *)
LEMMA CursorMoved ==
  ASSUME NEW h, NEW D, NEW S, Pool(h, D, S), NEW n \in Here(h), NEW x \in Pointer,
         NEW g, g = SetEnd(h, n, "depsTail", x)
  PROVE  /\ Pool(g, D, S) /\ Here(g) = Here(h) /\ Live(g) = Live(h) /\ g.links = h.links /\ g.free = h.free
         /\ \A m \in Here(h) : g.node[m].depsTail = IF m = n THEN x ELSE h.node[m].depsTail
<1>1. h \in HeapT
  BY DEF Pool
<1>2. /\ Alike(h, g) /\ SameSubs(h, g, Live(h)) /\ g.links = h.links
      /\ \A m \in Here(h) : /\ g.node[m].depsTail = IF m = n THEN x ELSE h.node[m].depsTail
                            /\ g.node[m].deps = h.node[m].deps
  BY <1>1, SetDepsTail
<1>3. FreeOK(g) /\ g \in HeapT /\ Here(g) = Here(h) /\ Live(g) = Live(h)
  BY <1>2 DEF Pool, FreeOK, Alike
<1>4. SubLists(g, Live(g), S) /\ SubTails(g, Here(g), S)
  BY <1>2, <1>3, SameLists DEF Pool
<1>5. DepLists(g, Live(g), D)
  <2>1. [m \in Here(h) |-> g.node[m].deps] = [m \in Here(h) |-> h.node[m].deps]
    BY <1>2
  <2> QED
    BY <2>1, <1>2, <1>3 DEF Pool, DepLists
<1> QED
  BY <1>2, <1>3, <1>4, <1>5 DEF Pool, Alike

(* All but the last element, and one more.                                 *)
LEMMA FrontIs ==
  ASSUME NEW T, NEW s \in Seq(T), s # <<>>
  PROVE  /\ Front(s) \in Seq(T) /\ Len(Front(s)) = Len(s) - 1 /\ Len(s) - 1 \in Nat
         /\ \A i \in 1..(Len(s) - 1) : Front(s)[i] = s[i] /\ i \in 1..Len(s) /\ s[i] \in T
         /\ Last(s) = s[Len(s)] /\ Len(s) \in 1..Len(s) /\ Last(s) \in T
<1>1. /\ Len(s) - 1 \in Nat /\ Len(s) \in 1..Len(s)
      /\ \A i \in 1..(Len(s) - 1) : s[i] \in T /\ i \in 1..Len(s)
  OBVIOUS
<1>1a. Len(s) \in Nat \ {0} /\ DOMAIN s = 1..Len(s) /\ s[Len(s)] \in T
  OBVIOUS
<1>2. /\ Front(s) \in Seq(T) /\ Len(Front(s)) = Len(s) - 1
      /\ \A i \in 1..(Len(s) - 1) : Front(s)[i] = s[i]
  BY <1>1a DEF Front
<1> QED
  BY <1>1, <1>2 DEF Last

(* A sequence with one more element. *)
LEMMA AppendIs ==
  ASSUME NEW T, NEW s \in Seq(T), NEW x \in T
  PROVE  /\ Append(s, x) \in Seq(T) /\ Len(Append(s, x)) = Len(s) + 1 /\ Len(s) \in Nat
         /\ DOMAIN Append(s, x) = DOMAIN s \cup {Len(s) + 1} /\ DOMAIN s = 1..Len(s)
         /\ \A i \in DOMAIN s : Append(s, x)[i] = s[i]
         /\ Append(s, x)[Len(s) + 1] = x
<1>1. Append(s, x) \in Seq(T) /\ Len(Append(s, x)) = Len(s) + 1 /\ Len(s) \in Nat
  OBVIOUS
<1>2. DOMAIN Append(s, x) = 1..(Len(s) + 1) /\ DOMAIN s = 1..Len(s)
  BY <1>1
<1>3. 1..(Len(s) + 1) = 1..Len(s) \cup {Len(s) + 1}
  BY <1>1
<1> QED
  BY <1>1, <1>2, <1>3

(* alloc_link.                                                             *)
Filled(h, link, new, g) ==
  /\ h \in HeapT /\ FreeOK(h) /\ link \in Link
  /\ new = IF h.free # <<>> THEN Last(h.free) ELSE Len(h.links) + 1
  /\ g = IF h.free # <<>> THEN [h EXCEPT !.links[new] = link, !.free = Front(@)]
         ELSE [h EXCEPT !.links = Append(@, link)]

(* The slot was not in use. *)
LEMMA AllocIs ==
  ASSUME NEW h, NEW link, NEW new, NEW g, Filled(h, link, new, g)
  PROVE  /\ g \in HeapT /\ FreeOK(g) /\ g.node = h.node /\ Live(g) = Live(h) \cup {new}
         /\ new \notin Live(h) /\ new \in Pointer /\ new # None
         /\ g.links[new] = link /\ \A c \in Live(h) : g.links[c] = h.links[c]
<1>h. h \in HeapT /\ FreeOK(h) /\ link \in Link
  BY DEF Filled
<1>n. new = IF h.free # <<>> THEN Last(h.free) ELSE Len(h.links) + 1
  BY DEF Filled
<1>g. g = IF h.free # <<>> THEN [h EXCEPT !.links[new] = link, !.free = Front(@)]
         ELSE [h EXCEPT !.links = Append(@, link)]
  BY DEF Filled
<1> USE <1>h, <1>n, <1>g
<1>0. h.links \in Seq(Link \cup {None}) /\ h.free \in Seq(Nat \ {0}) /\ h.node \in [Nodes -> Ends \cup {None}]
      /\ h = [links |-> h.links, free |-> h.free, node |-> h.node]
  BY DEF HeapT
<1>1. CASE h.free # <<>>
  <2> DEFINE L == Len(h.free)
  <2>1. L \in Nat /\ L \in 1..L /\ new = h.free[L] /\ L - 1 \in Nat
    <3>1. new = Last(h.free)
      BY <1>1
    <3>2. /\ Last(h.free) = h.free[Len(h.free)] /\ Len(h.free) \in 1..Len(h.free)
          /\ Len(h.free) - 1 \in Nat
      BY ONLY <1>0, <1>1, FrontIs
    <3> QED
      BY ONLY <3>1, <3>2, <1>0
  <2>2. new \in DOMAIN h.links /\ h.links[new] = None
    BY <2>1 DEF FreeOK
  <2>3. g.links = [h.links EXCEPT ![new] = link] /\ g.free = Front(h.free) /\ g.node = h.node
        /\ g = [links |-> g.links, free |-> g.free, node |-> g.node]
    BY <1>0, <1>1
  <2>4. g.free \in Seq(Nat \ {0}) /\ Len(g.free) = L - 1 /\ \A i \in 1..(L - 1) : g.free[i] = h.free[i] /\ i \in 1..L /\ i # L
    <3>1. \A i \in 1..(L - 1) : i # L
      BY <2>1
    <3> QED
      BY <1>0, <1>1, <2>1, <2>3, <3>1, FrontIs
  <2>5. g.links \in Seq(Link \cup {None}) /\ DOMAIN g.links = DOMAIN h.links
        /\ \A d \in DOMAIN h.links : g.links[d] = IF d = new THEN link ELSE h.links[d]
    BY ONLY <1>0, <2>2, <2>3, link \in Link
  <2>6. g \in HeapT
    BY <1>0, <2>3, <2>4, <2>5 DEF HeapT
  <2>7. link # None
    BY NoneIs
  <2>8. Live(g) = Live(h) \cup {new} /\ new \notin Live(h)
    BY <2>2, <2>5, <2>7 DEF Live
  <2>9. FreeOK(g)
    <3>1. \A i, j \in 1..Len(h.free) : h.free[i] = h.free[j] => i = j
      BY DEF FreeOK
    <3>2. \A i \in 1..Len(h.free) : h.free[i] \in DOMAIN h.links /\ h.links[h.free[i]] = None
      BY DEF FreeOK
    <3>3. \A i, j \in 1..(L - 1) : g.free[i] = g.free[j] => i = j
      BY <2>4, <3>1
    <3>4. \A i \in 1..(L - 1) : g.free[i] \in DOMAIN g.links /\ g.links[g.free[i]] = None
      <4>1. \A i \in 1..(L - 1) : g.free[i] = h.free[i] /\ h.free[i] # new
        BY <2>1, <2>4, <3>1
      <4> QED
        BY ONLY <4>1, <2>4, <2>5, <3>2, ZenonT(30)
    <3>5. ASSUME NEW c \in DOMAIN g.links, g.links[c] = None PROVE \E i \in 1..(L - 1) : g.free[i] = c
      <4>1. c # new /\ c \in DOMAIN h.links /\ h.links[c] = None
        BY <2>5, <2>7, <3>5
      <4>2. PICK i \in 1..Len(h.free) : h.free[i] = c
        BY <4>1 DEF FreeOK
      <4>3. i \in 1..(L - 1)
        BY <2>1, <4>1, <4>2
      <4> QED
        BY <2>4, <4>2, <4>3
    <3> QED
      BY <2>4, <3>3, <3>4, <3>5 DEF FreeOK
  <2>10. \A c \in Live(h) : g.links[c] = h.links[c]
    BY <2>5, <2>8 DEF Live
  <2>11. new \in Pointer /\ new # None
    <3>1. new \in Nat \ {0}
      BY <1>0, <2>1
    <3> QED
      BY <3>1, NoneIs DEF Pointer
  <2> QED
    BY <2>2, <2>3, <2>5, <2>6, <2>8, <2>9, <2>10, <2>11
<1>2. CASE h.free = <<>>
  <2>1. new = Len(h.links) + 1 /\ Len(h.links) \in Nat /\ DOMAIN h.links = 1..Len(h.links)
    BY <1>0, <1>2
  <2>2. g.links = Append(h.links, link) /\ g.free = <<>> /\ g.node = h.node
        /\ g = [links |-> g.links, free |-> g.free, node |-> g.node]
    BY <1>0, <1>2
  <2>3. g.links \in Seq(Link \cup {None}) /\ DOMAIN g.links = DOMAIN h.links \cup {new} /\ g.links[new] = link
        /\ \A d \in DOMAIN h.links : g.links[d] = h.links[d]
    <3>1. link \in Link \cup {None}
      OBVIOUS
    <3> QED
      BY ONLY <1>0, <2>1, <2>2, <3>1, AppendIs
  <2>4. g \in HeapT
    <3>1. g.free \in Seq(Nat \ {0})
      BY ONLY <1>0, <1>2, <2>2
    <3>2. g.node \in [Nodes -> Ends \cup {None}] /\ g.links \in Seq(Link \cup {None})
      BY ONLY <1>0, <2>2, <2>3
    <3>3. g = [links |-> g.links, free |-> g.free, node |-> g.node]
      BY <2>2
    <3> HIDE DEF Link
    <3> QED
      BY ONLY <3>1, <3>2, <3>3 DEF HeapT
  <2>5. link # None /\ new \notin DOMAIN h.links
    BY <2>1, NoneIs
  <2>6. Live(g) = Live(h) \cup {new} /\ new \notin Live(h)
    BY <2>3, <2>5 DEF Live
  <2>7. FreeOK(g)
    <3>1. \A c \in DOMAIN h.links : h.links[c] # None
      BY <1>2 DEF FreeOK
    <3> QED
      BY <2>2, <2>3, <2>5, <3>1 DEF FreeOK
  <2>8. new \in Pointer /\ new # None
    BY <2>1, NoneIs DEF Pointer
  <2>9. \A c \in Live(h) : g.links[c] = h.links[c]
    BY <2>3 DEF Live
  <2> QED
    BY <2>2, <2>3, <2>4, <2>6, <2>7, <2>8, <2>9
<1> QED
  BY <1>1, <1>2

(* Changes of one field after the other. *)
LEMMA SameTwice ==
  ASSUME NEW a, NEW b, NEW c, NEW U, Here(b) = Here(a)
  PROVE  /\ SameSubs(a, b, U) /\ SameSubs(b, c, U) => SameSubs(a, c, U)
         /\ SameDeps(a, b, U) /\ SameDeps(b, c, U) => SameDeps(a, c, U)
         /\ Alike(a, b) /\ Alike(b, c) => Alike(a, c)
         /\ a \in HeapT => SameSubs(a, a, U) /\ SameDeps(a, a, U) /\ Alike(a, a)
  BY DEF SameSubs, SameDeps, Alike

(* The splice of a new link into the list of its subscriber.               *)
SpliceDep(h, sub, new, prev, next, g) ==
  /\ h \in HeapT /\ sub \in Here(h) /\ new \in Live(h) /\ new \in Pointer /\ new # None
  /\ prev \in Live(h) \cup {None} /\ next \in Live(h) \cup {None}
  /\ \E h1, h2 :
       /\ h1 = IF next = None THEN h ELSE SetLink(h, next, "prevDep", new)
       /\ h2 = IF prev = None THEN SetEnd(h1, sub, "deps", new) ELSE SetLink(h1, prev, "nextDep", new)
       /\ g = SetEnd(h2, sub, "depsTail", new)

(* Only its neighbours and the ends of that list change. *)
LEMMA SplicedDep ==
  ASSUME NEW h, NEW sub, NEW new, NEW prev, NEW next, NEW g, SpliceDep(h, sub, new, prev, next, g)
  PROVE  /\ Alike(h, g) /\ SameSubs(h, g, Live(h))
         /\ \A c \in Live(h) : /\ g.links[c].nextDep = IF c = prev THEN new ELSE h.links[c].nextDep
                               /\ g.links[c].prevDep = IF c = next THEN new ELSE h.links[c].prevDep
         /\ \A m \in Here(h) :
              /\ g.node[m].deps = IF m = sub /\ prev = None THEN new ELSE h.node[m].deps
              /\ g.node[m].depsTail = IF m = sub THEN new ELSE h.node[m].depsTail
<1>h. /\ h \in HeapT /\ sub \in Here(h) /\ new \in Live(h) /\ new \in Pointer /\ new # None
      /\ prev \in Live(h) \cup {None} /\ next \in Live(h) \cup {None}
  BY DEF SpliceDep
<1>p. PICK h1, h2 :
       /\ h1 = IF next = None THEN h ELSE SetLink(h, next, "prevDep", new)
       /\ h2 = IF prev = None THEN SetEnd(h1, sub, "deps", new) ELSE SetLink(h1, prev, "nextDep", new)
       /\ g = SetEnd(h2, sub, "depsTail", new)
  BY DEF SpliceDep
<1> USE <1>h, <1>p
<1>0. None \notin Live(h)
  <2>1. Live(h) \subseteq Nat
    BY DEF HeapT, Live
  <2> QED
    BY <2>1, NoneIs
<1>1. /\ Alike(h, h1) /\ SameSubs(h, h1, Live(h))
      /\ \A c \in Live(h) : /\ h1.links[c].nextDep = h.links[c].nextDep
                            /\ h1.links[c].prevDep = IF c = next THEN new ELSE h.links[c].prevDep
      /\ \A m \in Here(h) : h1.node[m].deps = h.node[m].deps /\ h1.node[m].depsTail = h.node[m].depsTail
  <2>1. CASE next = None
    BY <1>0, <2>1, SameTwice
  <2>2. CASE next # None
    BY <2>2, SetPrevDep
  <2> QED
    BY <2>1, <2>2
<1>2. h1 \in HeapT /\ Live(h1) = Live(h) /\ Here(h1) = Here(h)
  BY <1>1 DEF Alike
<1>3. /\ Alike(h1, h2) /\ SameSubs(h1, h2, Live(h))
      /\ \A c \in Live(h) : /\ h2.links[c].nextDep = IF c = prev THEN new ELSE h1.links[c].nextDep
                            /\ h2.links[c].prevDep = h1.links[c].prevDep
      /\ \A m \in Here(h) : /\ h2.node[m].deps = IF m = sub /\ prev = None THEN new ELSE h1.node[m].deps
                            /\ h2.node[m].depsTail = h1.node[m].depsTail
  <2>1. CASE prev = None
    BY <1>0, <1>2, <2>1, SetDeps
  <2>2. CASE prev # None
    BY <1>2, <2>2, SetNextDep
  <2> QED
    BY <2>1, <2>2
<1>4. h2 \in HeapT /\ Live(h2) = Live(h) /\ Here(h2) = Here(h)
  BY <1>2, <1>3 DEF Alike
<1>5. /\ Alike(h2, g) /\ SameSubs(h2, g, Live(h)) /\ g.links = h2.links
      /\ \A m \in Here(h) : /\ g.node[m].depsTail = IF m = sub THEN new ELSE h2.node[m].depsTail
                            /\ g.node[m].deps = h2.node[m].deps
  BY <1>4, SetDepsTail
<1>6. Alike(h, g) /\ SameSubs(h, g, Live(h))
  <2>1. Alike(h, h2) /\ SameSubs(h, h2, Live(h))
    BY <1>1, <1>2, <1>3, SameTwice
  <2> QED
    BY <2>1, <1>4, <1>5, SameTwice
<1> QED
  BY <1>1, <1>3, <1>5, <1>6, SMTT(30)

(* The splice of a new link into the list of its source, at the end.       *)
SpliceSub(h, dep, new, last, g) ==
  /\ h \in HeapT /\ dep \in Here(h) /\ new \in Live(h) /\ new \in Pointer /\ new # None
  /\ last \in Live(h) \cup {None}
  /\ \E h1 :
       /\ h1 = IF last = None THEN SetEnd(h, dep, "subs", new) ELSE SetLink(h, last, "nextSub", new)
       /\ g = SetEnd(h1, dep, "subsTail", new)

(* The splice into the list of its source changes its last link and the ends. *)
LEMMA SplicedSub ==
  ASSUME NEW h, NEW dep, NEW new, NEW last, NEW g, SpliceSub(h, dep, new, last, g)
  PROVE  /\ Alike(h, g) /\ SameDeps(h, g, Live(h))
         /\ \A c \in Live(h) : /\ g.links[c].nextSub = IF c = last THEN new ELSE h.links[c].nextSub
                               /\ g.links[c].prevSub = h.links[c].prevSub
         /\ \A m \in Here(h) :
              /\ g.node[m].subs = IF m = dep /\ last = None THEN new ELSE h.node[m].subs
              /\ g.node[m].subsTail = IF m = dep THEN new ELSE h.node[m].subsTail
<1>h. /\ h \in HeapT /\ dep \in Here(h) /\ new \in Live(h) /\ new \in Pointer /\ new # None
      /\ last \in Live(h) \cup {None}
  BY DEF SpliceSub
<1>p. PICK h1 :
       /\ h1 = IF last = None THEN SetEnd(h, dep, "subs", new) ELSE SetLink(h, last, "nextSub", new)
       /\ g = SetEnd(h1, dep, "subsTail", new)
  BY DEF SpliceSub
<1> USE <1>h, <1>p
<1>0. None \notin Live(h)
  <2>1. Live(h) \subseteq Nat
    BY DEF HeapT, Live
  <2> QED
    BY <2>1, NoneIs
<1>3. /\ Alike(h, h1) /\ SameDeps(h, h1, Live(h))
      /\ \A c \in Live(h) : /\ h1.links[c].nextSub = IF c = last THEN new ELSE h.links[c].nextSub
                            /\ h1.links[c].prevSub = h.links[c].prevSub
      /\ \A m \in Here(h) : /\ h1.node[m].subs = IF m = dep /\ last = None THEN new ELSE h.node[m].subs
                            /\ h1.node[m].subsTail = h.node[m].subsTail
  <2>1. CASE last = None
    BY <1>0, <2>1, SetSubs
  <2>2. CASE last # None
    BY <2>2, SetNextSub
  <2> QED
    BY <2>1, <2>2
<1>4. h1 \in HeapT /\ Live(h1) = Live(h) /\ Here(h1) = Here(h)
  BY <1>3 DEF Alike
<1>5. /\ Alike(h1, g) /\ SameDeps(h1, g, Live(h)) /\ g.links = h1.links
      /\ \A m \in Here(h) : /\ g.node[m].subsTail = IF m = dep THEN new ELSE h1.node[m].subsTail
                            /\ g.node[m].subs = h1.node[m].subs
  BY <1>4, SetSubsTail
<1>6. Alike(h, g) /\ SameDeps(h, g, Live(h))
  BY ONLY <1>3, <1>4, <1>5, SameTwice
<1> QED
  BY <1>3, <1>5, <1>6

(* The heap with a link from sub to dep, new, after the links prev and last, *)
(* before next.                                                            *)
Added(h, g, new, sub, dep, prev, next, last) ==
  /\ g \in HeapT /\ FreeOK(g) /\ Here(g) = Here(h) /\ Live(g) = Live(h) \cup {new}
  /\ new \notin Live(h) /\ new \in Pointer /\ new # None
  /\ g.links[new].dep = dep /\ g.links[new].sub = sub
  /\ g.links[new].prevDep = prev /\ g.links[new].nextDep = next
  /\ g.links[new].prevSub = last /\ g.links[new].nextSub = None
  /\ \A c \in Live(h) :
       /\ g.links[c].dep = h.links[c].dep /\ g.links[c].sub = h.links[c].sub
       /\ g.links[c].nextDep = IF c = prev THEN new ELSE h.links[c].nextDep
       /\ g.links[c].prevDep = IF c = next THEN new ELSE h.links[c].prevDep
       /\ g.links[c].nextSub = IF c = last THEN new ELSE h.links[c].nextSub
       /\ g.links[c].prevSub = h.links[c].prevSub
  /\ \A m \in Here(h) :
       /\ g.node[m].deps = IF m = sub /\ prev = None THEN new ELSE h.node[m].deps
       /\ g.node[m].depsTail = IF m = sub THEN new ELSE h.node[m].depsTail
       /\ g.node[m].subs = IF m = dep /\ last = None THEN new ELSE h.node[m].subs
       /\ g.node[m].subsTail = IF m = dep THEN new ELSE h.node[m].subsTail

(* The assignments of link that put a new link in.                         *)
Adds(h, g, new, sub, dep, prev, next, last) ==
  LET link == [dep |-> dep, sub |-> sub, prevDep |-> prev, nextDep |-> next,
               prevSub |-> last, nextSub |-> None]
      h0 == IF h.free # <<>>
            THEN [h EXCEPT !.links[new] = link, !.free = Front(@)]
            ELSE [h EXCEPT !.links = Append(@, link)]
      h1 == IF next = None THEN h0 ELSE SetLink(h0, next, "prevDep", new)
      h2 == IF prev = None THEN SetEnd(h1, sub, "deps", new) ELSE SetLink(h1, prev, "nextDep", new)
      h3 == SetEnd(h2, sub, "depsTail", new)
      h4 == IF last = None THEN SetEnd(h3, dep, "subs", new) ELSE SetLink(h3, last, "nextSub", new)
  IN /\ new = IF h.free # <<>> THEN Last(h.free) ELSE Len(h.links) + 1
     /\ g = SetEnd(h4, dep, "subsTail", new)

(* Together they change no more than the neighbours of the new link. *)
LEMMA AddedIs ==
  ASSUME NEW h \in HeapT, FreeOK(h), NEW sub \in Here(h), NEW dep \in Here(h),
         NEW prev \in Live(h) \cup {None}, NEW next \in Live(h) \cup {None}, NEW last \in Live(h) \cup {None},
         NEW new, NEW g, Adds(h, g, new, sub, dep, prev, next, last)
  PROVE  Added(h, g, new, sub, dep, prev, next, last)
<1> DEFINE link == [dep |-> dep, sub |-> sub, prevDep |-> prev, nextDep |-> next,
                    prevSub |-> last, nextSub |-> None]
           h0 == IF h.free # <<>>
                 THEN [h EXCEPT !.links[new] = link, !.free = Front(@)]
                 ELSE [h EXCEPT !.links = Append(@, link)]
           h1 == IF next = None THEN h0 ELSE SetLink(h0, next, "prevDep", new)
           h2 == IF prev = None THEN SetEnd(h1, sub, "deps", new) ELSE SetLink(h1, prev, "nextDep", new)
           h3 == SetEnd(h2, sub, "depsTail", new)
           h4 == IF last = None THEN SetEnd(h3, dep, "subs", new) ELSE SetLink(h3, last, "nextSub", new)
<1>z. g = SetEnd(h4, dep, "subsTail", new)
  BY DEF Adds
<1>0. Live(h) \subseteq Nat \ {0} /\ None \notin Live(h)
  <2>1. Live(h) \subseteq Nat \ {0}
    BY DEF HeapT, Live
  <2> QED
    BY <2>1, NoneIs
<1>a. h0 = IF h.free # <<>> THEN [h EXCEPT !.links[new] = link, !.free = Front(@)]
                   ELSE [h EXCEPT !.links = Append(@, link)]
  OBVIOUS
<1>b. new = IF h.free # <<>> THEN Last(h.free) ELSE Len(h.links) + 1
  BY DEF Adds
<1>c. /\ h1 = IF next = None THEN h0 ELSE SetLink(h0, next, "prevDep", new)
      /\ h2 = IF prev = None THEN SetEnd(h1, sub, "deps", new) ELSE SetLink(h1, prev, "nextDep", new)
      /\ h3 = SetEnd(h2, sub, "depsTail", new)
  OBVIOUS
<1>d. /\ h4 = IF last = None THEN SetEnd(h3, dep, "subs", new) ELSE SetLink(h3, last, "nextSub", new)
      /\ g = SetEnd(h4, dep, "subsTail", new)
  BY <1>z
<1>e. h \in HeapT /\ FreeOK(h) /\ sub \in Here(h) /\ dep \in Here(h)
  OBVIOUS
<1>f. prev \in Live(h) \cup {None} /\ next \in Live(h) \cup {None} /\ last \in Live(h) \cup {None}
  OBVIOUS
<1>g. link = [dep |-> dep, sub |-> sub, prevDep |-> prev, nextDep |-> next,
              prevSub |-> last, nextSub |-> None]
  OBVIOUS
<1> HIDE DEF link, h0, h1, h2, h3, h4
<1>1. link \in Link
  <2>1. prev \in Pointer /\ next \in Pointer /\ last \in Pointer /\ None \in Pointer
    BY ONLY <1>0, <1>f DEF Pointer
  <2> QED
    BY ONLY <1>e, <1>g, <2>1 DEF Link, Here
<1>2. /\ h0 \in HeapT /\ FreeOK(h0) /\ h0.node = h.node /\ Live(h0) = Live(h) \cup {new}
      /\ new \notin Live(h) /\ new \in Pointer /\ new # None
      /\ h0.links[new] = link /\ \A c \in Live(h) : h0.links[c] = h.links[c]
  <2>1. Filled(h, link, new, h0)
    BY ONLY <1>1, <1>a, <1>b, <1>e DEF Filled
  <2> QED
    BY ONLY <2>1, AllocIs
<1>3. Here(h0) = Here(h)
  BY <1>2 DEF Here
<1>4. /\ Alike(h0, h3) /\ SameSubs(h0, h3, Live(h0))
      /\ \A c \in Live(h0) : /\ h3.links[c].nextDep = IF c = prev THEN new ELSE h0.links[c].nextDep
                             /\ h3.links[c].prevDep = IF c = next THEN new ELSE h0.links[c].prevDep
      /\ \A m \in Here(h) :
           /\ h3.node[m].deps = IF m = sub /\ prev = None THEN new ELSE h0.node[m].deps
           /\ h3.node[m].depsTail = IF m = sub THEN new ELSE h0.node[m].depsTail
  <2>1. /\ sub \in Here(h0) /\ new \in Live(h0)
        /\ prev \in Live(h0) \cup {None} /\ next \in Live(h0) \cup {None}
    BY ONLY <1>2, <1>3, <1>e, <1>f
  <2>2. SpliceDep(h0, sub, new, prev, next, h3)
    BY ONLY <1>2, <1>c, <2>1 DEF SpliceDep
  <2> QED
    BY ONLY <1>3, <2>2, SplicedDep
<1>5. h3 \in HeapT /\ Live(h3) = Live(h0) /\ Here(h3) = Here(h)
  BY ONLY <1>3, <1>4 DEF Alike
<1>6. /\ Alike(h3, g) /\ SameDeps(h3, g, Live(h3))
      /\ \A c \in Live(h3) : /\ g.links[c].nextSub = IF c = last THEN new ELSE h3.links[c].nextSub
                             /\ g.links[c].prevSub = h3.links[c].prevSub
      /\ \A m \in Here(h) :
           /\ g.node[m].subs = IF m = dep /\ last = None THEN new ELSE h3.node[m].subs
           /\ g.node[m].subsTail = IF m = dep THEN new ELSE h3.node[m].subsTail
  <2>1. dep \in Here(h3) /\ new \in Live(h3) /\ last \in Live(h3) \cup {None}
    BY ONLY <1>2, <1>5, <1>e, <1>f
  <2>2. SpliceSub(h3, dep, new, last, g)
    BY ONLY <1>2, <1>5, <1>d, <2>1 DEF SpliceSub
  <2> QED
    BY ONLY <1>5, <2>2, SplicedSub
<1>7. Alike(h0, g)
  BY ONLY <1>4, <1>6 DEF Alike
<1>8. FreeOK(g) /\ g \in HeapT /\ Here(g) = Here(h) /\ Live(g) = Live(h) \cup {new}
  <2>1. \A c \in DOMAIN h0.links : h0.links[c] = None <=> g.links[c] = None
    BY ONLY <1>7, <1>2 DEF Alike, Live
  <2>2. DOMAIN g.links = DOMAIN h0.links /\ g.free = h0.free /\ g \in HeapT /\ Here(g) = Here(h) /\ Live(g) = Live(h) \cup {new}
    BY ONLY <1>2, <1>3, <1>7 DEF Alike
  <2> QED
    BY ONLY <1>2, <2>1, <2>2 DEF FreeOK
<1>9. \A c \in Live(h0) :
        /\ g.links[c].dep = h0.links[c].dep /\ g.links[c].sub = h0.links[c].sub
        /\ g.links[c].nextDep = IF c = prev THEN new ELSE h0.links[c].nextDep
        /\ g.links[c].prevDep = IF c = next THEN new ELSE h0.links[c].prevDep
        /\ g.links[c].nextSub = IF c = last THEN new ELSE h0.links[c].nextSub
        /\ g.links[c].prevSub = h0.links[c].prevSub
  BY ONLY <1>4, <1>5, <1>6 DEF SameSubs, SameDeps
<1>10. new # prev /\ new # next /\ new # last
  BY ONLY <1>0, <1>2, <1>f
<1>11. /\ g.links[new].dep = dep /\ g.links[new].sub = sub
       /\ g.links[new].prevDep = prev /\ g.links[new].nextDep = next
       /\ g.links[new].prevSub = last /\ g.links[new].nextSub = None
  BY ONLY <1>2, <1>9, <1>10, <1>g
<1>12. \A m \in Here(h) :
       /\ g.node[m].deps = IF m = sub /\ prev = None THEN new ELSE h.node[m].deps
       /\ g.node[m].depsTail = IF m = sub THEN new ELSE h.node[m].depsTail
       /\ g.node[m].subs = IF m = dep /\ last = None THEN new ELSE h.node[m].subs
       /\ g.node[m].subsTail = IF m = dep THEN new ELSE h.node[m].subsTail
  BY ONLY <1>2, <1>3, <1>4, <1>5, <1>6 DEF SameSubs, SameDeps
<1>13. \A c \in Live(h) : c \in Live(h0) /\ h0.links[c] = h.links[c]
  BY ONLY <1>2
<1>14. \A c \in Live(h) :
       /\ g.links[c].dep = h.links[c].dep /\ g.links[c].sub = h.links[c].sub
       /\ g.links[c].nextDep = IF c = prev THEN new ELSE h.links[c].nextDep
       /\ g.links[c].prevDep = IF c = next THEN new ELSE h.links[c].prevDep
       /\ g.links[c].nextSub = IF c = last THEN new ELSE h.links[c].nextSub
       /\ g.links[c].prevSub = h.links[c].prevSub
  BY ONLY <1>9, <1>13
<1> QED
  BY ONLY <1>2, <1>8, <1>11, <1>12, <1>14 DEF Added

-----------------------------------------------------------------------------
(* The k-th link of a list, and the one after it.                          *)
Before(t, k) == IF k = 0 THEN None ELSE t[k]
After(t, k) == IF k = Len(t) THEN None ELSE t[k + 1]

(* A new link goes into the list of its subscriber after the first k, and  *)
(* to the end of the list of its source.                                   *)
LEMMA NewIs ==
  ASSUME NEW h, NEW D, NEW S, Pool(h, D, S), NEW sub \in Here(h), NEW dep \in Here(h),
         NEW k \in 0..Len(D[sub]), NEW new, NEW g,
         Added(h, g, new, sub, dep, Before(D[sub], k), After(D[sub], k), LastOf(S[dep])),
         NEW D2, D2 = [D EXCEPT ![sub] = With(D[sub], k, new)],
         NEW S2, S2 = [S EXCEPT ![dep] = With(S[dep], Len(S[dep]), new)]
  PROVE  Pool(g, D2, S2)
<1> DEFINE U == Live(h)
           prev == Before(D[sub], k)
           next == After(D[sub], k)
           last == LastOf(S[dep])
<1>0. /\ DepLists(h, U, D) /\ SubLists(h, U, S) /\ SubTails(h, Here(h), S)
      /\ g \in HeapT /\ FreeOK(g) /\ Here(g) = Here(h) /\ Live(g) = U \cup {new}
      /\ new \notin U /\ new # None
  BY DEF Pool, Added
<1>1. None \notin U
  <2>1. U \subseteq Nat
    BY DEF Pool, HeapT, Live
  <2> QED
    BY <2>1, NoneIs
<1>2. /\ g.links[new].dep = dep /\ g.links[new].sub = sub
      /\ g.links[new].prevDep = prev /\ g.links[new].nextDep = next
      /\ g.links[new].prevSub = last /\ g.links[new].nextSub = None
  BY DEF Added
<1>3. \A c \in U :
       /\ g.links[c].dep = h.links[c].dep /\ g.links[c].sub = h.links[c].sub
       /\ g.links[c].nextDep = IF c = prev THEN new ELSE h.links[c].nextDep
       /\ g.links[c].prevDep = IF c = next THEN new ELSE h.links[c].prevDep
       /\ g.links[c].nextSub = IF c = last THEN new ELSE h.links[c].nextSub
       /\ g.links[c].prevSub = h.links[c].prevSub
  BY DEF Added
<1>4. \A m \in Here(h) :
       /\ g.node[m].deps = IF m = sub /\ prev = None THEN new ELSE h.node[m].deps
       /\ g.node[m].depsTail = IF m = sub THEN new ELSE h.node[m].depsTail
       /\ g.node[m].subs = IF m = dep /\ last = None THEN new ELSE h.node[m].subs
       /\ g.node[m].subsTail = IF m = dep THEN new ELSE h.node[m].subsTail
  BY DEF Added
<1>5. DepLists(g, Live(g), D2)
  <2> DEFINE own == [c \in U |-> h.links[c].sub]
             nx == [c \in U |-> h.links[c].nextDep]
             pv == [c \in U |-> h.links[c].prevDep]
             head == [m \in Here(h) |-> h.node[m].deps]
             V == U \cup {new}
             own2 == [c \in V |-> g.links[c].sub]
             nx2 == [c \in V |-> g.links[c].nextDep]
             pv2 == [c \in V |-> g.links[c].prevDep]
             head2 == [m \in Here(h) |-> g.node[m].deps]
  <2>1. Lists(U, Here(h), own, nx, pv, head, D)
    BY <1>0 DEF DepLists
  <2>2. prev = (IF k = 0 THEN None ELSE D[sub][k]) /\ next = (IF k = Len(D[sub]) THEN None ELSE D[sub][k + 1])
    BY DEF Before, After
  <2>3. \A c \in U : /\ own2[c] = own[c]
                     /\ nx2[c] = IF c = prev THEN new ELSE nx[c]
                     /\ pv2[c] = IF c = next THEN new ELSE pv[c]
    BY <1>3
  <2>4. own2[new] = sub /\ nx2[new] = next /\ pv2[new] = prev
    BY <1>2
  <2>5. \A m \in Here(h) : head2[m] = IF m = sub /\ prev = None THEN new ELSE head[m]
    BY <1>4
  <2>6. Lists(V, Here(h), own2, nx2, pv2, head2, [D EXCEPT ![sub] = With(D[sub], k, new)])
    <3> HIDE DEF own, nx, pv, head, own2, nx2, pv2, head2, U, prev, next
    <3>1. Inserts(U, Here(h), own, nx, pv, head, D, sub, k, new, prev, next, own2, nx2, pv2, head2)
      BY ONLY <1>0, <1>1, <2>1, <2>2, <2>3, <2>4, <2>5, sub \in Here(h), k \in 0..Len(D[sub]) DEF Inserts
    <3> QED
      BY ONLY <3>1, Inserted
  <2> QED
    BY <2>6, <1>0 DEF DepLists
<1>6. S[dep] \in Seq(U) /\ Len(S[dep]) \in Nat /\ \A i, j \in 1..Len(S[dep]) : S[dep][i] = S[dep][j] => i = j
  BY SubListIs
<1>7. SubLists(g, Live(g), S2)
  <2> DEFINE own == [c \in U |-> h.links[c].dep]
             nx == [c \in U |-> h.links[c].nextSub]
             pv == [c \in U |-> h.links[c].prevSub]
             head == [m \in Here(h) |-> h.node[m].subs]
             V == U \cup {new}
             own2 == [c \in V |-> g.links[c].dep]
             nx2 == [c \in V |-> g.links[c].nextSub]
             pv2 == [c \in V |-> g.links[c].prevSub]
             head2 == [m \in Here(h) |-> g.node[m].subs]
             j == Len(S[dep])
             after == IF j = Len(S[dep]) THEN None ELSE S[dep][j + 1]
  <2>1. Lists(U, Here(h), own, nx, pv, head, S)
    BY <1>0 DEF SubLists
  <2>2. last = (IF j = 0 THEN None ELSE S[dep][j]) /\ after = None
    BY DEF LastOf
  <2>3. \A c \in U : /\ own2[c] = own[c]
                     /\ nx2[c] = IF c = last THEN new ELSE nx[c]
                     /\ pv2[c] = IF c = after THEN new ELSE pv[c]
    BY <1>1, <1>3, <2>2
  <2>4. own2[new] = dep /\ nx2[new] = after /\ pv2[new] = last
    BY <1>2
  <2>5. \A m \in Here(h) : head2[m] = IF m = dep /\ last = None THEN new ELSE head[m]
    BY <1>4
  <2>6. j \in 0..Len(S[dep])
    BY <1>6
  <2>7. after = IF j = Len(S[dep]) THEN None ELSE S[dep][j + 1]
    OBVIOUS
  <2>8. Lists(V, Here(h), own2, nx2, pv2, head2, [S EXCEPT ![dep] = With(S[dep], j, new)])
    <3> HIDE DEF own, nx, pv, head, own2, nx2, pv2, head2, U, last, after, j
    <3>1. Inserts(U, Here(h), own, nx, pv, head, S, dep, j, new, last, after, own2, nx2, pv2, head2)
      BY ONLY <1>0, <1>1, <2>1, <2>2, <2>3, <2>4, <2>5, <2>6, <2>7, dep \in Here(h) DEF Inserts
    <3> QED
      BY ONLY <3>1, Inserted
  <2> QED
    BY <2>8, <1>0 DEF SubLists
<1>8. SubTails(g, Here(g), S2)
  <2>1. S \in [Here(h) -> Seq(U)]
    BY <1>0 DEF SubLists, Lists
  <2>2. LastOf(With(S[dep], Len(S[dep]), new)) = new
    <3> DEFINE j == Len(S[dep])
               w == With(S[dep], j, new)
    <3>1. j \in 0..Len(S[dep]) /\ j \in Nat /\ j + 1 \in 1..(j + 1) /\ j + 1 # 0 /\ ~(j + 1 <= j)
      BY <1>6
    <3>2. /\ Len(w) = j + 1
          /\ \A i \in 1..(j + 1) : w[i] = IF i <= j THEN S[dep][i] ELSE IF i = j + 1 THEN new ELSE S[dep][i - 1]
      <4>1. Adding(U, S[dep], j, new, U \cup {new})
        BY ONLY <1>0, <1>6, <3>1 DEF Adding
      <4> QED
        BY ONLY <4>1, WithIs
    <3>3. LastOf(w) = new
      <4> HIDE DEF w, j
      <4> QED
        BY ONLY <3>1, <3>2 DEF LastOf
    <3> QED
      BY <3>3
  <2>3. ASSUME NEW m \in Here(h) PROVE g.node[m].subsTail = LastOf(S2[m])
    BY <1>0, <1>4, <2>1, <2>2 DEF SubTails
  <2> QED
    BY <1>0, <2>3 DEF SubTails
<1> QED
  BY <1>0, <1>5, <1>7, <1>8 DEF Pool

-----------------------------------------------------------------------------
(* Of the dependency list of n, the first k links are left in g.           *)
CutOff(h, g, t, n, k) ==
  /\ n \in Here(h) /\ k \in 0..Len(t) /\ t \in Seq(Live(h)) /\ Here(g) = Here(h)
  /\ Live(g) = Live(h) \ {From(t, k)[j] : j \in 1..Len(From(t, k))}
  /\ \A c \in Live(g) :
       /\ g.links[c].sub = h.links[c].sub /\ g.links[c].prevDep = h.links[c].prevDep
       /\ g.links[c].nextDep = IF k # 0 /\ c = t[k] THEN None ELSE h.links[c].nextDep
  /\ \A m \in Here(h) : g.node[m].deps = IF m = n /\ k = 0 THEN None ELSE h.node[m].deps

(* The dependency lists stay sound. *)
LEMMA CutIs ==
  ASSUME NEW h, NEW g, NEW D, NEW S, Pool(h, D, S), NEW n, NEW k, CutOff(h, g, D[n], n, k)
  PROVE  DepLists(g, Live(g), [D EXCEPT ![n] = FirstOf(D[n], k)])
<1> DEFINE U == Live(h)
           V == Live(g)
           t == D[n]
           own == [c \in U |-> h.links[c].sub]
           nx == [c \in U |-> h.links[c].nextDep]
           pv == [c \in U |-> h.links[c].prevDep]
           head == [m \in Here(h) |-> h.node[m].deps]
           own2 == [c \in V |-> g.links[c].sub]
           nx2 == [c \in V |-> g.links[c].nextDep]
           pv2 == [c \in V |-> g.links[c].prevDep]
           head2 == [m \in Here(h) |-> g.node[m].deps]
<1>0. n \in Here(h) /\ k \in 0..Len(t) /\ t \in Seq(U) /\ Here(g) = Here(h)
  BY DEF CutOff
<1>1. Lists(U, Here(h), own, nx, pv, head, D)
  BY DEF Pool, DepLists
<1>2. /\ Len(t) \in Nat /\ \A i, j \in 1..Len(t) : t[i] = t[j] => i = j
  <2> HIDE DEF own, nx, pv, head
  <2> QED
    BY ONLY <1>0, <1>1 DEF Lists
<1>a. /\ \A i \in 1..Len(t) : t[i] \in U /\ h.links[t[i]].sub = n
      /\ \A c \in U : h.links[c].sub = n => \E i \in 1..Len(t) : t[i] = c
  BY <1>0, DepListIs
<1>3. V = {c \in U : own[c] # n \/ \E i \in 1..k : t[i] = c}
  <2> DEFINE r == From(t, k)
  <2>1. /\ Len(r) = Len(t) - k /\ \A i \in 1..(Len(t) - k) : r[i] = t[k + i] /\ k + i \in 1..Len(t)
    BY <1>0, FromIs
  <2>2. \A c : c \in V <=> c \in U /\ ~\E j \in 1..Len(r) : r[j] = c
    BY DEF CutOff
  <2> HIDE DEF r
  <2>3. ASSUME NEW c \in U, own[c] = n, ~\E i \in 1..k : t[i] = c PROVE \E j \in 1..Len(r) : r[j] = c
    <3>1. PICK i \in 1..Len(t) : t[i] = c
      BY <1>a, <2>3
    <3>2. i - k \in 1..(Len(t) - k) /\ k + (i - k) = i
      BY <1>0, <1>2, <2>3, <3>1
    <3> QED
      BY ONLY <2>1, <3>1, <3>2
  <2>4. ASSUME NEW j \in 1..Len(r) PROVE r[j] \in U /\ own[r[j]] = n /\ \A i \in 1..k : t[i] # r[j]
    <3>1. r[j] = t[k + j] /\ k + j \in 1..Len(t)
      BY ONLY <2>1, j \in 1..Len(r)
    <3>2. \A i \in 1..k : i # k + j /\ i \in 1..Len(t)
      BY <1>0, <1>2, <2>1
    <3>3. r[j] \in U /\ own[r[j]] = n
      BY <1>a, <3>1
    <3> QED
      BY ONLY <1>2, <3>1, <3>2, <3>3
  <2> HIDE DEF own
  <2> QED
    BY ONLY <2>2, <2>3, <2>4
<1>4. \A c \in V : /\ c \in U /\ own2[c] = own[c] /\ pv2[c] = pv[c]
                   /\ nx2[c] = IF k # 0 /\ c = t[k] THEN None ELSE nx[c]
  <2>1. \A c \in V : c \in U
    BY <1>3
  <2> QED
    BY <2>1 DEF CutOff
<1>5. \A m \in Here(h) : head2[m] = IF m = n /\ k = 0 THEN None ELSE head[m]
  BY DEF CutOff
<1>6. Lists(V, Here(h), own2, nx2, pv2, head2, [D EXCEPT ![n] = FirstOf(D[n], k)])
  <2> HIDE DEF own, nx, pv, head, own2, nx2, pv2, head2, U, V
  <2>1. Cuts(U, Here(h), own, nx, pv, head, D, n, k, V, own2, nx2, pv2, head2)
    BY ONLY <1>0, <1>1, <1>3, <1>4, <1>5 DEF Cuts
  <2> QED
    BY ONLY <2>1, Cut
<1> QED
  BY <1>0, <1>6 DEF DepLists

(* All the links of the subscriber list of n are gone in g.                *)
SubsOff(h, g, t, n) ==
  /\ n \in Here(h) /\ t \in Seq(Live(h)) /\ Here(g) = Here(h)
  /\ Live(g) = Live(h) \ {t[j] : j \in 1..Len(t)}
  /\ \A c \in Live(g) :
       /\ g.links[c].dep = h.links[c].dep /\ g.links[c].prevSub = h.links[c].prevSub
       /\ g.links[c].nextSub = h.links[c].nextSub
  /\ \A m \in Here(h) : /\ g.node[m].subs = IF m = n THEN None ELSE h.node[m].subs
                        /\ g.node[m].subsTail = IF m = n THEN None ELSE h.node[m].subsTail

(* No links: the first none of a sequence. *)
LEMMA NoneLeft ==
  ASSUME NEW T, NEW t \in Seq(T)
  PROVE  /\ FirstOf(t, 0) = <<>> /\ 0 \in 0..Len(t) /\ <<>> \in Seq(T)
  BY DEF FirstOf

(* The subscriber lists stay sound, and that of n is empty. *)
LEMMA SubsCutIs ==
  ASSUME NEW h, NEW g, NEW D, NEW S, SubLists(h, Live(h), S), SubTails(h, Here(h), S),
         NEW n, SubsOff(h, g, S[n], n)
  PROVE  SubLists(g, Live(g), [S EXCEPT ![n] = <<>>]) /\ SubTails(g, Here(g), [S EXCEPT ![n] = <<>>])
<1> DEFINE U == Live(h)
           V == Live(g)
           t == S[n]
           own == [c \in U |-> h.links[c].dep]
           nx == [c \in U |-> h.links[c].nextSub]
           pv == [c \in U |-> h.links[c].prevSub]
           head == [m \in Here(h) |-> h.node[m].subs]
           own2 == [c \in V |-> g.links[c].dep]
           nx2 == [c \in V |-> g.links[c].nextSub]
           pv2 == [c \in V |-> g.links[c].prevSub]
           head2 == [m \in Here(h) |-> g.node[m].subs]
<1>0. n \in Here(h) /\ t \in Seq(U) /\ Here(g) = Here(h)
  BY DEF SubsOff
<1>1. Lists(U, Here(h), own, nx, pv, head, S)
  BY DEF SubLists
<1>2. FirstOf(t, 0) = <<>> /\ 0 \in 0..Len(t) /\ Len(t) \in Nat
  BY <1>0, NoneLeft
<1>3. V = {c \in U : own[c] # n \/ \E i \in 1..0 : t[i] = c}
  <2>1. \A c : c \in V <=> c \in U /\ ~\E j \in 1..Len(t) : t[j] = c
    BY DEF SubsOff
  <2>2. \A c \in U : own[c] = n => \E j \in 1..Len(t) : t[j] = c
    <3> HIDE DEF own, nx, pv, head
    <3> QED
      BY ONLY <1>1 DEF Lists
  <2>3. \A j \in 1..Len(t) : own[t[j]] = n
    <3> HIDE DEF own, nx, pv, head
    <3> QED
      BY ONLY <1>0, <1>1 DEF Lists
  <2> HIDE DEF own
  <2> QED
    BY ONLY <2>1, <2>2, <2>3
<1>4. \A c \in V : /\ c \in U /\ own2[c] = own[c] /\ pv2[c] = pv[c] /\ nx2[c] = nx[c]
  <2>1. \A c \in V : c \in U
    BY <1>3
  <2> QED
    BY <2>1 DEF SubsOff
<1>5. \A m \in Here(h) : head2[m] = IF m = n THEN None ELSE head[m]
  BY DEF SubsOff
<1>6. Lists(V, Here(h), own2, nx2, pv2, head2, [S EXCEPT ![n] = <<>>])
  <2>1. Lists(V, Here(h), own2, nx2, pv2, head2, [S EXCEPT ![n] = FirstOf(S[n], 0)])
    <3> HIDE DEF own, nx, pv, head, own2, nx2, pv2, head2, U, V
    <3>1. Cuts(U, Here(h), own, nx, pv, head, S, n, 0, V, own2, nx2, pv2, head2)
      BY ONLY <1>0, <1>1, <1>2, <1>3, <1>4, <1>5 DEF Cuts
    <3> QED
      BY ONLY <3>1, Cut
  <2> QED
    BY <2>1, <1>2
<1>7. SubTails(g, Here(g), [S EXCEPT ![n] = <<>>])
  <2>1. S \in [Here(h) -> Seq(U)]
    <3> HIDE DEF own, nx, pv, head
    <3> QED
      BY ONLY <1>1 DEF Lists
  <2>2. LastOf(<<>>) = None
    BY DEF LastOf
  <2>3. ASSUME NEW m \in Here(h) PROVE g.node[m].subsTail = LastOf([S EXCEPT ![n] = <<>>][m])
    BY <2>1, <2>2 DEF SubsOff, SubTails
  <2> QED
    BY <1>0, <2>3 DEF SubTails
<1> QED
  BY <1>0, <1>6, <1>7 DEF SubLists

(* end_tracking cuts the list of n at its cursor and frees the rest.       *)
Trims(h, n, D, k, g, D2) ==
  /\ n \in Here(h) /\ k \in 0..Len(D[n]) /\ h.node[n].depsTail = Before(D[n], k)
  /\ LET tail == h.node[n].depsTail
         cut == IF tail = None THEN SetEnd(h, n, "deps", None)
                ELSE SetLink(h, tail, "nextDep", None)
     IN g = PruneAll(cut, Chain(h, After(D[n], k), "nextDep"))
  /\ D2 = [D EXCEPT ![n] = FirstOf(D[n], k)]

(* The pool stays sound: the list of n ends at its cursor. *)
LEMMA EndedIs ==
  ASSUME NEW h, NEW D, NEW S, Pool(h, D, S), NEW n, NEW k, NEW g, NEW D2, Trims(h, n, D, k, g, D2)
  PROVE  /\ \E S2 : Pool(g, D2, S2)
         /\ Here(g) = Here(h) /\ Len(g.free) >= Len(h.free) /\ DOMAIN g.links = DOMAIN h.links
         /\ \A c \in Live(g) : c \in Live(h) /\ g.links[c].dep = h.links[c].dep
         /\ \A m \in Here(h) : g.node[m].depsTail = h.node[m].depsTail
<1> DEFINE t == D[n]
           tail == h.node[n].depsTail
           cut == IF tail = None THEN SetEnd(h, n, "deps", None)
                  ELSE SetLink(h, tail, "nextDep", None)
           cs == From(t, k)
           C == {cs[j] : j \in 1..Len(cs)}
<1>0. n \in Here(h) /\ k \in 0..Len(t) /\ tail = Before(t, k) /\ g = PruneAll(cut, Chain(h, After(t, k), "nextDep"))
  BY DEF Trims
<1>1. h \in HeapT /\ FreeOK(h) /\ SubLists(h, Live(h), S) /\ SubTails(h, Here(h), S)
  BY DEF Pool
<1>2. t \in Seq(Live(h)) /\ Len(t) \in Nat
  BY <1>0, DepListIs
<1>3. \A i, j \in 1..Len(t) : t[i] = t[j] => i = j
  BY <1>0, DepListIs
<1>4. None \notin Live(h) /\ None \in Pointer
  <2>1. Live(h) \subseteq Nat
    BY <1>1 DEF HeapT, Live
  <2> QED
    BY <2>1, NoneIs DEF Pointer
<1>5. tail = (IF k = 0 THEN None ELSE t[k]) /\ (k # 0 => t[k] \in Live(h) /\ t[k] # None)
  BY <1>0, <1>2, <1>4 DEF Before
<1>6. /\ Alike(h, cut) /\ SameSubs(h, cut, Live(h))
      /\ \A c \in Live(h) : /\ cut.links[c].nextDep = IF k # 0 /\ c = t[k] THEN None ELSE h.links[c].nextDep
                            /\ cut.links[c].prevDep = h.links[c].prevDep
      /\ \A m \in Here(h) : /\ cut.node[m].deps = IF m = n /\ k = 0 THEN None ELSE h.node[m].deps
                            /\ cut.node[m].depsTail = h.node[m].depsTail
  <2>1. CASE k = 0
    <3>1. cut = SetEnd(h, n, "deps", None)
      BY <2>1, <1>5
    <3> HIDE DEF cut
    <3>2. /\ Alike(h, cut) /\ SameSubs(h, cut, Live(h)) /\ cut.links = h.links
          /\ \A m \in Here(h) : /\ cut.node[m].deps = IF m = n THEN None ELSE h.node[m].deps
                                /\ cut.node[m].depsTail = h.node[m].depsTail
      BY ONLY <3>1, <1>0, <1>1, <1>4, SetDeps
    <3> QED
      BY ONLY <2>1, <3>2
  <2>2. CASE k # 0
    <3>1. cut = SetLink(h, t[k], "nextDep", None)
      BY <2>2, <1>5
    <3> HIDE DEF cut
    <3>2. /\ Alike(h, cut) /\ SameSubs(h, cut, Live(h))
          /\ \A d \in Live(h) : /\ cut.links[d].nextDep = IF d = t[k] THEN None ELSE h.links[d].nextDep
                                /\ cut.links[d].prevDep = h.links[d].prevDep
          /\ \A m \in Here(h) : cut.node[m].deps = h.node[m].deps /\ cut.node[m].depsTail = h.node[m].depsTail
      BY ONLY <3>1, <2>2, <1>1, <1>4, <1>5, SetNextDep
    <3> QED
      BY ONLY <2>2, <3>2
  <2> QED
    BY <2>1, <2>2
<1> HIDE DEF cut
<1>7. cut \in HeapT /\ Live(cut) = Live(h) /\ Here(cut) = Here(h) /\ cut.free = h.free
      /\ DOMAIN cut.links = DOMAIN h.links /\ FreeOK(cut)
  <2>1. cut \in HeapT /\ Live(cut) = Live(h) /\ Here(cut) = Here(h) /\ cut.free = h.free
        /\ DOMAIN cut.links = DOMAIN h.links
    BY <1>6 DEF Alike
  <2>2. FreeOK(cut)
    BY ONLY <2>1, <1>1 DEF FreeOK, Live
  <2> QED
    BY <2>1, <2>2
<1>8. Pruned(cut, cut, {})
  <2>1. SubLists(cut, Live(cut), S) /\ SubTails(cut, Here(cut), S)
    BY ONLY <1>1, <1>6, <1>7, SameLists
  <2>2. SameDeps(cut, cut, Live(cut))
    BY DEF SameDeps
  <2>3. Len(cut.free) >= Len(cut.free) /\ Live(cut) = Live(cut) \ {}
    BY <1>7 DEF HeapT
  <2> QED
    BY <2>1, <2>2, <2>3, <1>7 DEF Pruned
<1>9. /\ cs \in Seq(Live(h)) /\ Len(cs) = Len(t) - k
      /\ \A i \in 1..(Len(t) - k) : cs[i] = t[k + i] /\ k + i \in 1..Len(t)
  BY <1>0, <1>2, FromIs
<1>10. Chain(h, After(t, k), "nextDep") = cs
  BY <1>0, ListsFound DEF After
<1> HIDE DEF cs
<1>11. g \in HeapT /\ Pruned(cut, g, C)
  <2>1. \A i, j \in 1..Len(cs) : cs[i] = cs[j] => i = j
    <3> SUFFICES ASSUME NEW i \in 1..Len(cs), NEW j \in 1..Len(cs), cs[i] = cs[j] PROVE i = j
      OBVIOUS
    <3>1. k + i = k + j
      BY <1>3, <1>9
    <3> QED
      BY ONLY <3>1, <1>0, <1>9
  <2>2. cs \in Seq(Live(cut)) /\ g = PruneAll(cut, cs)
    BY ONLY <1>0, <1>7, <1>9, <1>10
  <2> QED
    BY <1>7, <1>8, <2>1, <2>2, PruneAllIs
<1>12. /\ FreeOK(g) /\ DOMAIN g.links = DOMAIN h.links /\ Len(g.free) >= Len(h.free)
       /\ Live(g) = Live(h) \ C /\ Here(g) = Here(h) /\ SameDeps(cut, g, Live(g))
       /\ \E s : SubLists(g, Live(g), s) /\ SubTails(g, Here(g), s)
  BY ONLY <1>7, <1>11 DEF Pruned
<1>13. \A c \in Live(g) : c \in Live(h) /\ g.links[c].dep = h.links[c].dep
                          /\ g.links[c].sub = h.links[c].sub
                          /\ g.links[c].prevDep = h.links[c].prevDep
                          /\ g.links[c].nextDep = IF k # 0 /\ c = t[k] THEN None ELSE h.links[c].nextDep
  <2>1. \A c \in Live(g) : c \in Live(h)
    BY <1>12
  <2> QED
    BY ONLY <2>1, <1>6, <1>7, <1>12 DEF SameDeps, SameSubs
<1>14. \A m \in Here(h) : /\ g.node[m].deps = IF m = n /\ k = 0 THEN None ELSE h.node[m].deps
                          /\ g.node[m].depsTail = h.node[m].depsTail
  BY ONLY <1>6, <1>7, <1>12 DEF SameDeps
<1>15. DepLists(g, Live(g), [D EXCEPT ![n] = FirstOf(D[n], k)])
  <2>1. CutOff(h, g, t, n, k)
    BY <1>0, <1>2, <1>12, <1>13, <1>14 DEF CutOff, cs
  <2> QED
    BY ONLY <2>1, CutIs, Pool(h, D, S)
<1>16. DepLists(g, Live(g), D2)
  BY <1>15 DEF Trims
<1> QED
  BY ONLY <1>11, <1>12, <1>13, <1>14, <1>16 DEF Pool

(* dispose_node frees the links of the dependency list.                    *)
LEMMA ClearedIs ==
  ASSUME NEW h, NEW D, NEW S, Pool(h, D, S), NEW n \in Here(h), NEW g, g = ClearDeps(h, n)
  PROVE  /\ \E S2 : Pool(g, [D EXCEPT ![n] = <<>>], S2)
         /\ Here(g) = Here(h) /\ Len(g.free) >= Len(h.free) /\ DOMAIN g.links = DOMAIN h.links
         /\ \A c \in Live(g) : c \in Live(h) /\ g.links[c].dep = h.links[c].dep /\ g.links[c].sub = h.links[c].sub
         /\ \A c \in Live(h) : h.links[c].sub # n => c \in Live(g)
         /\ \A m \in Here(h) : g.node[m].depsTail = IF m = n THEN None ELSE h.node[m].depsTail
<1> DEFINE t == D[n]
           C == {t[j] : j \in 1..Len(t)}
           p == PruneAll(h, DepLinks(h, n))
           q == SetEnd(p, n, "deps", None)
<1>11. g = SetEnd(q, n, "depsTail", None)
  BY DEF ClearDeps
<1>1. h \in HeapT /\ FreeOK(h) /\ SubLists(h, Live(h), S) /\ SubTails(h, Here(h), S) /\ n \in Here(h)
  BY DEF Pool
<1>2. t \in Seq(Live(h)) /\ Len(t) \in Nat
  BY DepListIs
<1>3. \A i, j \in 1..Len(t) : t[i] = t[j] => i = j
  BY DepListIs
<1>4. DepLinks(h, n) = t
  <2>1. D = [m \in Here(h) |-> DepLinks(h, m)]
    BY ListsFound
  <2> QED
    BY <2>1
<1>5. Pruned(h, h, {})
  <2>1. SameDeps(h, h, Live(h)) /\ Len(h.free) >= Len(h.free) /\ Live(h) = Live(h) \ {}
    BY <1>1 DEF SameDeps, HeapT
  <2> QED
    BY <1>1, <2>1 DEF Pruned
<1>6. p \in HeapT /\ Pruned(h, p, C)
  <2> HIDE DEF t
  <2> QED
    BY ONLY <1>1, <1>2, <1>3, <1>4, <1>5, PruneAllIs
<1> HIDE DEF p
<1>7. /\ FreeOK(p) /\ DOMAIN p.links = DOMAIN h.links /\ Len(p.free) >= Len(h.free)
      /\ Live(p) = Live(h) \ C /\ Here(p) = Here(h) /\ SameDeps(h, p, Live(p))
  BY ONLY <1>6 DEF Pruned
<1>8. PICK s : SubLists(p, Live(p), s) /\ SubTails(p, Here(p), s)
  BY ONLY <1>6 DEF Pruned
<1>9. None \in Pointer
  BY DEF Pointer
<1>q. q = SetEnd(p, n, "deps", None)
  OBVIOUS
<1> HIDE DEF q
<1>10. /\ Alike(p, q) /\ SameSubs(p, q, Live(p)) /\ q.links = p.links
       /\ \A m \in Here(p) : /\ q.node[m].deps = IF m = n THEN None ELSE p.node[m].deps
                             /\ q.node[m].depsTail = p.node[m].depsTail
  <2>1. p \in HeapT /\ n \in Here(p)
    BY ONLY <1>1, <1>6, <1>7
  <2> QED
    BY ONLY <2>1, <1>9, <1>q, SetDeps
<1>12. /\ Alike(q, g) /\ SameSubs(q, g, Live(q)) /\ g.links = q.links
       /\ \A m \in Here(q) : /\ g.node[m].depsTail = IF m = n THEN None ELSE q.node[m].depsTail
                             /\ g.node[m].deps = q.node[m].deps
  <2>1. q \in HeapT /\ n \in Here(q)
    BY ONLY <1>1, <1>7, <1>10 DEF Alike
  <2> QED
    BY ONLY <1>9, <1>11, <2>1, SetDepsTail
<1>13. /\ g \in HeapT /\ Live(g) = Live(h) \ C /\ Here(g) = Here(h) /\ g.free = p.free /\ g.links = p.links
       /\ Live(g) = Live(p) /\ Here(g) = Here(p)
  BY ONLY <1>7, <1>10, <1>12 DEF Alike
<1>14. FreeOK(g)
  BY ONLY <1>7, <1>13 DEF FreeOK
<1>15. SubLists(g, Live(g), s) /\ SubTails(g, Here(g), s)
  <2>1. Here(q) = Here(p) /\ Live(q) = Live(p)
    BY ONLY <1>10 DEF Alike
  <2>2. SubLists(q, Live(p), s) /\ SubTails(q, Here(q), s)
    BY ONLY <1>8, <1>10, <2>1, SameLists
  <2> QED
    BY ONLY <2>1, <2>2, <1>12, <1>13, SameLists
<1>16. /\ \A c \in Live(g) : c \in Live(h) /\ g.links[c].dep = h.links[c].dep
                             /\ g.links[c].sub = h.links[c].sub
                             /\ g.links[c].prevDep = h.links[c].prevDep
                             /\ g.links[c].nextDep = h.links[c].nextDep
  <2>1. \A c \in Live(g) : c \in Live(h)
    BY <1>13
  <2> QED
    BY ONLY <2>1, <1>7, <1>13 DEF SameDeps
<1>17. \A m \in Here(h) : /\ g.node[m].deps = IF m = n THEN None ELSE h.node[m].deps
                          /\ g.node[m].depsTail = IF m = n THEN None ELSE h.node[m].depsTail
  <2>1. Here(q) = Here(h) /\ Here(p) = Here(h)
    BY ONLY <1>7, <1>10 DEF Alike
  <2>2. \A m \in Here(h) : p.node[m].deps = h.node[m].deps /\ p.node[m].depsTail = h.node[m].depsTail
    BY ONLY <1>7 DEF SameDeps
  <2> QED
    BY ONLY <1>10, <1>12, <2>1, <2>2
<1>18. DepLists(g, Live(g), [D EXCEPT ![n] = <<>>])
  <2>1. From(t, 0) = t /\ FirstOf(t, 0) = <<>> /\ 0 \in 0..Len(t)
    BY ONLY <1>2, FromStart, NoneLeft
  <2>2. CutOff(h, g, t, n, 0)
    <3> HIDE DEF t
    <3> QED
      BY ONLY <1>1, <1>2, <1>13, <1>16, <1>17, <2>1 DEF CutOff, C
  <2>3. DepLists(g, Live(g), [D EXCEPT ![n] = FirstOf(D[n], 0)])
    BY ONLY <2>2, CutIs, Pool(h, D, S)
  <2> QED
    BY <2>1, <2>3
<1>19. Pool(g, [D EXCEPT ![n] = <<>>], s)
  BY ONLY <1>13, <1>14, <1>15, <1>18 DEF Pool
<1>20. \A c \in Live(h) : h.links[c].sub # n => c \in Live(g)
  <2>1. \A j \in 1..Len(t) : h.links[t[j]].sub = n
    BY DepListIs
  <2> HIDE DEF t
  <2> QED
    BY ONLY <1>13, <2>1 DEF C
<1> QED
  BY ONLY <1>7, <1>13, <1>16, <1>17, <1>19, <1>20

(* detach_subs, on a pool whose nodes outside R have their tails.          *)
Detaches(h, D, S, n, M, g) ==
  /\ Pool(h, D, S) /\ n \in Here(h) /\ M \subseteq Here(h) /\ DepTails(h, M, D) /\ D[n] = <<>>
  /\ \A c \in Live(h) : h.links[c].dep = n => h.links[c].sub \in M
  /\ g = DetachSubs(h, n)

(* The pool stays sound, and n has no links. *)
LEMMA DetachedIs ==
  ASSUME NEW h, NEW D, NEW S, NEW n, NEW M, NEW g, Detaches(h, D, S, n, M, g)
  PROVE  /\ Here(g) = Here(h) /\ Len(g.free) >= Len(h.free) /\ DOMAIN g.links = DOMAIN h.links
         /\ \A c \in Live(g) : c \in Live(h) /\ g.links[c].dep = h.links[c].dep /\ g.links[c].sub = h.links[c].sub
         /\ \A c \in Live(h) : h.links[c].dep # n => c \in Live(g)
         /\ \E D2, S2 : /\ Pool(g, D2, S2) /\ DepTails(g, M, D2) /\ D2[n] = <<>> /\ S2[n] = <<>>
                        /\ \A m \in Here(h) \ M : D2[m] = D[m] /\ g.node[m].depsTail = h.node[m].depsTail
                        /\ \A m \in Here(h) : Within(D2[m], D[m])
<1> DEFINE t == S[n]
           C == {t[j] : j \in 1..Len(t)}
           p == DetachAll(h, SubLinks(h, n))
           q == SetEnd(p, n, "subs", None)
<1>q. q = SetEnd(p, n, "subs", None)
  OBVIOUS
<1>g. g = SetEnd(q, n, "subsTail", None)
  BY DEF DetachSubs, Detaches
<1> HIDE DEF q
<1>0. Pool(h, D, S) /\ n \in Here(h) /\ M \subseteq Here(h) /\ DepTails(h, M, D) /\ D[n] = <<>>
  BY DEF Detaches
<1>1. h \in HeapT /\ FreeOK(h) /\ DepLists(h, Live(h), D) /\ SubLists(h, Live(h), S) /\ SubTails(h, Here(h), S)
  BY <1>0 DEF Pool
<1>2. t \in Seq(Live(h)) /\ Len(t) \in Nat
  BY <1>0, SubListIs
<1>3. \A i, j \in 1..Len(t) : t[i] = t[j] => i = j
  BY <1>0, SubListIs
<1>4. SubLinks(h, n) = t
  <2>1. S = [m \in Here(h) |-> SubLinks(h, m)]
    BY <1>0, ListsFound
  <2> QED
    BY <1>0, <2>1
<1>5. \A j \in 1..Len(t) : t[j] \in Live(h) /\ h.links[t[j]].dep = n
  BY <1>0, SubListIs
<1>6. \A i \in 1..Len(t) : h.links[t[i]].sub \in M
  <2> HIDE DEF t
  <2> QED
    BY <1>5 DEF Detaches
<1>7. Detached(h, h, {}, M, D)
  <2>1. SameSubs(h, h, Live(h)) /\ Len(h.free) >= Len(h.free) /\ Live(h) = Live(h) \ {}
    BY <1>1 DEF SameSubs, HeapT
  <2>2. \A m \in Here(h) : Within(D[m], D[m])
    BY DEF Within
  <2> QED
    BY ONLY <1>0, <1>1, <2>1, <2>2 DEF Detached
<1>8. p \in HeapT /\ Detached(h, p, C, M, D)
  <2>1. M \in SUBSET Here(h)
    BY <1>0
  <2> HIDE DEF t
  <2> QED
    BY ONLY <1>1, <1>2, <1>3, <1>4, <1>6, <1>7, <2>1, DetachAllIs
<1> HIDE DEF p
<1>9. /\ FreeOK(p) /\ DOMAIN p.links = DOMAIN h.links /\ Len(p.free) >= Len(h.free)
      /\ Live(p) = Live(h) \ C /\ Here(p) = Here(h) /\ SameSubs(h, p, Live(p))
  BY ONLY <1>8 DEF Detached
<1>10. PICK D2 : /\ DepLists(p, Live(p), D2) /\ DepTails(p, M, D2)
                 /\ \A m \in Here(h) : (\A c \in C : h.links[c].sub # m) =>
                      D2[m] = D[m] /\ p.node[m].depsTail = h.node[m].depsTail
                 /\ \A m \in Here(h) : Within(D2[m], D[m])
  BY ONLY <1>8 DEF Detached
<1>11. None \in Pointer
  BY DEF Pointer
<1>12. /\ Alike(p, q) /\ SameDeps(p, q, Live(p)) /\ q.links = p.links
       /\ \A m \in Here(p) : /\ q.node[m].subs = IF m = n THEN None ELSE p.node[m].subs
                             /\ q.node[m].subsTail = p.node[m].subsTail
  <2>1. p \in HeapT /\ n \in Here(p)
    BY ONLY <1>0, <1>8, <1>9
  <2> QED
    BY ONLY <2>1, <1>11, <1>q, SetSubs
<1>13. /\ Alike(q, g) /\ SameDeps(q, g, Live(q)) /\ g.links = q.links
       /\ \A m \in Here(q) : /\ g.node[m].subsTail = IF m = n THEN None ELSE q.node[m].subsTail
                             /\ g.node[m].subs = q.node[m].subs
  <2>1. q \in HeapT /\ n \in Here(q)
    BY ONLY <1>0, <1>9, <1>12 DEF Alike
  <2> QED
    BY ONLY <2>1, <1>11, <1>g, SetSubsTail
<1>14. /\ g \in HeapT /\ Live(g) = Live(h) \ C /\ Here(g) = Here(h) /\ g.free = p.free /\ g.links = p.links
       /\ Live(g) = Live(p) /\ Here(g) = Here(p) /\ Here(q) = Here(p) /\ Live(q) = Live(p)
  BY ONLY <1>9, <1>12, <1>13 DEF Alike
<1>15. FreeOK(g)
  BY ONLY <1>9, <1>14 DEF FreeOK
<1>16. DepLists(g, Live(g), D2) /\ DepTails(g, M, D2)
  <2>2. DepLists(q, Live(p), D2)
    BY ONLY <1>10, <1>12, <1>14, SameLists
  <2>3. DepLists(g, Live(g), D2)
    BY ONLY <2>2, <1>13, <1>14, SameLists
  <2>4. DepTails(g, M, D2)
    BY ONLY <1>0, <1>9, <1>10, <1>12, <1>13, <1>14 DEF DepTails, SameDeps
  <2> QED
    BY <2>3, <2>4
<1>17. \A c \in Live(g) : c \in Live(h) /\ g.links[c].dep = h.links[c].dep
                          /\ g.links[c].sub = h.links[c].sub
                          /\ g.links[c].prevSub = h.links[c].prevSub
                          /\ g.links[c].nextSub = h.links[c].nextSub
  <2>1. \A c \in Live(g) : c \in Live(h)
    BY <1>14
  <2> QED
    BY ONLY <2>1, <1>9, <1>14 DEF SameSubs
<1>18. \A m \in Here(h) : /\ g.node[m].subs = IF m = n THEN None ELSE h.node[m].subs
                          /\ g.node[m].subsTail = IF m = n THEN None ELSE h.node[m].subsTail
                          /\ g.node[m].depsTail = p.node[m].depsTail
  <2>2. \A m \in Here(h) : p.node[m].subs = h.node[m].subs /\ p.node[m].subsTail = h.node[m].subsTail
    BY ONLY <1>9 DEF SameSubs
  <2>3. \A m \in Here(h) : g.node[m].depsTail = p.node[m].depsTail
    BY ONLY <1>9, <1>12, <1>13, <1>14 DEF SameDeps
  <2> QED
    BY ONLY <1>9, <1>12, <1>13, <1>14, <2>2, <2>3
<1>19. SubLists(g, Live(g), [S EXCEPT ![n] = <<>>]) /\ SubTails(g, Here(g), [S EXCEPT ![n] = <<>>])
  <2>1. SubsOff(h, g, t, n)
    <3> HIDE DEF t
    <3> QED
      BY ONLY <1>0, <1>2, <1>14, <1>17, <1>18 DEF SubsOff, C
  <2> QED
    BY ONLY <1>1, <2>1, SubsCutIs
<1>20. [S EXCEPT ![n] = <<>>][n] = <<>>
  <2>1. S = [m \in Here(h) |-> SubLinks(h, m)]
    BY <1>0, ListsFound
  <2> QED
    BY <1>0, <2>1
<1>21. \A m \in Here(h) \ M : D2[m] = D[m] /\ g.node[m].depsTail = h.node[m].depsTail
  <2>1. \A m \in Here(h) \ M : \A c \in C : h.links[c].sub # m
    <3> HIDE DEF t
    <3> QED
      BY <1>6 DEF C
  <2> QED
    BY ONLY <1>10, <1>18, <2>1
<1>22. D2[n] = <<>>
  <2>1. \A c \in Live(h) : h.links[c].sub # n
    <3>1. Len(D[n]) = 0
      BY <1>0
    <3>2. \A c \in Live(h) : h.links[c].sub = n => \E i \in 1..Len(D[n]) : D[n][i] = c
      BY <1>0, DepListIs
    <3> QED
      BY ONLY <3>1, <3>2
  <2>2. \A c \in C : h.links[c].sub # n
    <3> HIDE DEF t
    <3> QED
      BY ONLY <1>5, <2>1 DEF C
  <2> QED
    BY ONLY <1>0, <1>10, <2>2
<1>23. \A c \in Live(h) : h.links[c].dep # n => c \in Live(g)
  <2> HIDE DEF t
  <2> QED
    BY ONLY <1>14, <1>5 DEF C
<1>24. Pool(g, D2, [S EXCEPT ![n] = <<>>])
  BY ONLY <1>14, <1>15, <1>16, <1>19 DEF Pool
<1> QED
  BY ONLY <1>9, <1>10, <1>14, <1>16, <1>17, <1>20, <1>21, <1>22, <1>23, <1>24

(* The node whose lists are empty leaves.                                  *)
Leaves(h, D, S, n, g, D2, S2) ==
  /\ Pool(h, D, S) /\ n \in Here(h) /\ D[n] = <<>> /\ S[n] = <<>>
  /\ g = [h EXCEPT !.node[n] = None]
  /\ D2 = [m \in Here(h) \ {n} |-> D[m]] /\ S2 = [m \in Here(h) \ {n} |-> S[m]]

(* The pool stays sound. *)
LEMMA NodeLeft ==
  ASSUME NEW h, NEW D, NEW S, NEW n, NEW g, NEW D2, NEW S2, Leaves(h, D, S, n, g, D2, S2)
  PROVE  /\ Pool(g, D2, S2)
         /\ Here(g) = Here(h) \ {n} /\ Live(g) = Live(h) /\ g.links = h.links /\ g.free = h.free
         /\ \A m \in Here(g) : g.node[m] = h.node[m]
<1>0. /\ Pool(h, D, S) /\ n \in Here(h) /\ D[n] = <<>> /\ S[n] = <<>>
      /\ g = [h EXCEPT !.node[n] = None]
      /\ D2 = [m \in Here(h) \ {n} |-> D[m]] /\ S2 = [m \in Here(h) \ {n} |-> S[m]]
  BY DEF Leaves
<1> USE <1>0
<1>1. h \in HeapT /\ FreeOK(h) /\ DepLists(h, Live(h), D) /\ SubLists(h, Live(h), S) /\ SubTails(h, Here(h), S)
  BY DEF Pool
<1>2. g \in HeapT /\ g.links = h.links /\ g.free = h.free
      /\ \A m \in Nodes : g.node[m] = IF m = n THEN None ELSE h.node[m]
  BY <1>1 DEF HeapT
<1>3. Here(g) = Here(h) \ {n} /\ Live(g) = Live(h) /\ FreeOK(g)
  <2>1. Here(g) = Here(h) \ {n}
    BY ONLY <1>2 DEF Here
  <2>2. Live(g) = Live(h) /\ FreeOK(g)
    BY ONLY <1>1, <1>2 DEF Live, FreeOK
  <2> QED
    BY <2>1, <2>2
<1>4. \A m \in Here(h) \ {n} : g.node[m] = h.node[m]
  BY ONLY <1>2 DEF Here
<1> DEFINE U == Live(h)
<1>6. DepLists(g, U, D2)
  <2> DEFINE own == [c \in U |-> h.links[c].sub]
             next == [c \in U |-> h.links[c].nextDep]
             prev == [c \in U |-> h.links[c].prevDep]
             head == [m \in Here(h) |-> h.node[m].deps]
             head2 == [m \in Here(h) \ {n} |-> g.node[m].deps]
  <2>1. Lists(U, Here(h), own, next, prev, head, D)
    BY <1>1 DEF DepLists
  <2>2. \A m \in Here(h) \ {n} : head2[m] = head[m]
    BY <1>4
  <2>4. Lists(U, Here(h) \ {n}, own, next, prev, head2, D2)
    <3> HIDE DEF own, next, prev, head, head2
    <3> QED
      BY ONLY <1>0, <2>1, <2>2, Left
  <2> QED
    BY <2>4, <1>2, <1>3 DEF DepLists
<1>7. SubLists(g, U, S2)
  <2> DEFINE own == [c \in U |-> h.links[c].dep]
             next == [c \in U |-> h.links[c].nextSub]
             prev == [c \in U |-> h.links[c].prevSub]
             head == [m \in Here(h) |-> h.node[m].subs]
             head2 == [m \in Here(h) \ {n} |-> g.node[m].subs]
  <2>1. Lists(U, Here(h), own, next, prev, head, S)
    BY <1>1 DEF SubLists
  <2>2. \A m \in Here(h) \ {n} : head2[m] = head[m]
    BY <1>4
  <2>4. Lists(U, Here(h) \ {n}, own, next, prev, head2, S2)
    <3> HIDE DEF own, next, prev, head, head2
    <3> QED
      BY ONLY <1>0, <2>1, <2>2, Left
  <2> QED
    BY <2>4, <1>2, <1>3 DEF SubLists
<1>8. SubTails(g, Here(g), S2)
  BY <1>1, <1>3, <1>4 DEF SubTails
<1> QED
  BY <1>2, <1>3, <1>4, <1>6, <1>7, <1>8 DEF Pool

(* dispose_node, when no closure of R is the node or depends on it.        *)
Disposes(h, D, S, n, R, g) ==
  /\ Pool(h, D, S) /\ n \in Here(h) /\ R \subseteq Here(h) /\ n \notin R
  /\ DepTails(h, Here(h) \ R, D)
  /\ \A m \in R : \A i \in 1..Len(D[m]) : h.links[D[m][i]].dep # n
  /\ g = [DetachSubs(ClearDeps(h, n), n) EXCEPT !.node[n] = None]

(* What it leaves: the lists of R as they were, the others in their order. *)
Disposed(h, D, n, R, g) ==
  /\ Here(g) = Here(h) \ {n} /\ Len(g.free) >= Len(h.free) /\ DOMAIN g.links = DOMAIN h.links
  /\ \A c \in Live(g) : c \in Live(h) /\ g.links[c].dep = h.links[c].dep /\ g.links[c].sub = h.links[c].sub
  /\ \A c \in Live(h) : h.links[c].dep # n /\ h.links[c].sub # n => c \in Live(g)
  /\ \E D2, S2 : /\ Pool(g, D2, S2) /\ DepTails(g, Here(g) \ R, D2)
                 /\ \A m \in R : D2[m] = D[m] /\ g.node[m].depsTail = h.node[m].depsTail
                 /\ \A m \in Here(g) : Within(D2[m], D[m])

(* The pool stays sound. *)
LEMMA DisposedIs ==
  ASSUME NEW h, NEW D, NEW S, NEW n, NEW R, NEW g, Disposes(h, D, S, n, R, g)
  PROVE  Disposed(h, D, n, R, g)
<1> DEFINE h1 == ClearDeps(h, n)
           h2 == DetachSubs(h1, n)
           D1 == [D EXCEPT ![n] = <<>>]
           M == Here(h) \ R
<1>0. /\ Pool(h, D, S) /\ n \in Here(h) /\ R \subseteq Here(h) /\ n \notin R
      /\ DepTails(h, M, D) /\ g = [h2 EXCEPT !.node[n] = None]
      /\ \A m \in R : \A i \in 1..Len(D[m]) : h.links[D[m][i]].dep # n
  BY DEF Disposes
<1>b. h2 = DetachSubs(h1, n)
  OBVIOUS
<1>1. /\ \E S2 : Pool(h1, D1, S2)
      /\ Here(h1) = Here(h) /\ Len(h1.free) >= Len(h.free) /\ DOMAIN h1.links = DOMAIN h.links
      /\ \A c \in Live(h1) : c \in Live(h) /\ h1.links[c].dep = h.links[c].dep /\ h1.links[c].sub = h.links[c].sub
      /\ \A c \in Live(h) : h.links[c].sub # n => c \in Live(h1)
      /\ \A m \in Here(h) : h1.node[m].depsTail = IF m = n THEN None ELSE h.node[m].depsTail
  BY ONLY <1>0, ClearedIs, SMTT(30)
<1> HIDE DEF h1, h2
<1>2. PICK S1 : Pool(h1, D1, S1)
  BY <1>1
<1>3. /\ D1[n] = <<>> /\ \A m \in Here(h) : m # n => D1[m] = D[m]
  <2>1. D = [m \in Here(h) |-> DepLinks(h, m)]
    BY <1>0, ListsFound
  <2> QED
    BY ONLY <1>0, <2>1
<1>4. DepTails(h1, M, D1)
  <2>1. LastOf(<<>>) = None
    BY DEF LastOf
  <2> QED
    BY ONLY <1>0, <1>1, <1>3, <2>1 DEF DepTails
<1>5. \A c \in Live(h1) : h1.links[c].dep = n => h1.links[c].sub \in M
  <2> SUFFICES ASSUME NEW c \in Live(h1), h1.links[c].dep = n PROVE h1.links[c].sub \in M
    OBVIOUS
  <2>1. c \in Live(h) /\ h.links[c].dep = n /\ h1.links[c].sub = h.links[c].sub
    BY <1>1
  <2>2. h.links[c].sub \in Here(h)
    <3> DEFINE own == [d \in Live(h) |-> h.links[d].sub]
    <3>1. own[c] \in Here(h)
      BY <1>0, <2>1, Neighbours DEF Pool, DepLists
    <3> QED
      BY <3>1, <2>1
  <2>3. \E i \in 1..Len(D[h.links[c].sub]) : D[h.links[c].sub][i] = c
    BY <1>0, <2>1, <2>2, DepListIs
  <2>4. h.links[c].sub \notin R
    BY ONLY <1>0, <2>1, <2>3
  <2> QED
    BY <2>1, <2>2, <2>4
<1>6. Detaches(h1, D1, S1, n, M, h2)
  <2>1. M \subseteq Here(h1) /\ n \in Here(h1)
    BY <1>0, <1>1
  <2> QED
    BY ONLY <1>2, <1>3, <1>4, <1>5, <1>b, <2>1 DEF Detaches
<1>7. /\ Here(h2) = Here(h1) /\ Len(h2.free) >= Len(h1.free) /\ DOMAIN h2.links = DOMAIN h1.links
      /\ \A c \in Live(h2) : c \in Live(h1) /\ h2.links[c].dep = h1.links[c].dep /\ h2.links[c].sub = h1.links[c].sub
      /\ \A c \in Live(h1) : h1.links[c].dep # n => c \in Live(h2)
      /\ \E D2, S2 : /\ Pool(h2, D2, S2) /\ DepTails(h2, M, D2) /\ D2[n] = <<>> /\ S2[n] = <<>>
                     /\ \A m \in Here(h1) \ M : D2[m] = D1[m] /\ h2.node[m].depsTail = h1.node[m].depsTail
                     /\ \A m \in Here(h1) : Within(D2[m], D1[m])
  <2> HIDE DEF M, D1
  <2> QED
    BY ONLY <1>6, DetachedIs
<1>8. PICK D2, S2 : /\ Pool(h2, D2, S2) /\ DepTails(h2, M, D2) /\ D2[n] = <<>> /\ S2[n] = <<>>
                    /\ \A m \in Here(h1) \ M : D2[m] = D1[m] /\ h2.node[m].depsTail = h1.node[m].depsTail
                    /\ \A m \in Here(h1) : Within(D2[m], D1[m])
  BY ONLY <1>7
<1> DEFINE D3 == [m \in Here(h2) \ {n} |-> D2[m]]
           S3 == [m \in Here(h2) \ {n} |-> S2[m]]
<1>9. n \in Here(h2)
  BY ONLY <1>0, <1>1, <1>7
<1>10. /\ Pool(g, D3, S3)
       /\ Here(g) = Here(h2) \ {n} /\ Live(g) = Live(h2) /\ g.links = h2.links /\ g.free = h2.free
       /\ \A m \in Here(g) : g.node[m] = h2.node[m]
  <2>1. Leaves(h2, D2, S2, n, g, D3, S3)
    BY ONLY <1>0, <1>8, <1>9 DEF Leaves
  <2> HIDE DEF D3, S3
  <2> QED
    BY ONLY <2>1, NodeLeft
<1>11. \A m \in Here(g) : D3[m] = D2[m]
  BY <1>10
<1>12. DepTails(g, Here(g) \ R, D3)
  <2>1. \A m \in Here(g) \ R : m \in M
    BY ONLY <1>1, <1>7, <1>10
  <2> HIDE DEF D3, M
  <2> QED
    BY ONLY <2>1, <1>8, <1>10, <1>11 DEF DepTails
<1>13. ASSUME NEW m \in R PROVE D3[m] = D[m] /\ g.node[m].depsTail = h.node[m].depsTail
  <2>1. m \in Here(h1) \ M /\ m # n /\ m \in Here(h) /\ m \in Here(g)
    BY <1>0, <1>1, <1>7, <1>10
  <2> HIDE DEF D3, D1, M
  <2> QED
    BY ONLY <2>1, <1>1, <1>3, <1>8, <1>10, <1>11
<1>14. ASSUME NEW m \in Here(g) PROVE Within(D3[m], D[m])
  <2>1. m \in Here(h1) /\ m # n /\ m \in Here(h)
    BY <1>1, <1>7, <1>10
  <2> HIDE DEF D3, D1, M
  <2> QED
    BY ONLY <2>1, <1>14, <1>3, <1>8, <1>11
<1>15. \A c \in Live(g) : c \in Live(h) /\ g.links[c].dep = h.links[c].dep /\ g.links[c].sub = h.links[c].sub
  BY ONLY <1>1, <1>7, <1>10
<1>16. \A c \in Live(h) : h.links[c].dep # n /\ h.links[c].sub # n => c \in Live(g)
  BY ONLY <1>1, <1>7, <1>10
<1>17. Here(g) = Here(h) \ {n} /\ Len(g.free) >= Len(h.free) /\ DOMAIN g.links = DOMAIN h.links
  <2>1. Here(g) = Here(h) \ {n} /\ DOMAIN g.links = DOMAIN h.links
    BY ONLY <1>1, <1>7, <1>10
  <2>2. Len(g.free) \in Nat /\ Len(h.free) \in Nat /\ Len(h1.free) \in Nat
    BY <1>0, <1>2, <1>10 DEF Pool, HeapT
  <2> QED
    BY ONLY <1>1, <1>7, <1>10, <2>1, <2>2
<1> HIDE DEF D3, S3
<1> QED
  BY ONLY <1>10, <1>12, <1>13, <1>14, <1>15, <1>16, <1>17 DEF Disposed

-----------------------------------------------------------------------------
(* What a run has read, r, and the sources e of the links up to its        *)
(* cursor, k: the same sources, and in the same order where they were read *)
(* once; a source with two links was read twice.                           *)
Twice(r, d) == \E i, j \in 1..Len(r) : i # j /\ r[i] = d /\ r[j] = d

Record(e, k, r) ==
  /\ \A i \in 1..k : \E j \in 1..Len(r) : r[j] = e[i]
  /\ \A j \in 1..Len(r) : \E i \in 1..k : e[i] = r[j]
  /\ \A i, j \in 1..k : i < j /\ e[i] = e[j] => Twice(r, e[i])
  /\ \A i, j \in 1..k : \A p, q \in 1..Len(r) :
       i < j /\ r[p] = e[i] /\ r[q] = e[j] /\ ~Twice(r, e[i]) /\ ~Twice(r, e[j]) => p < q

(* The last source read is at the cursor, unless it was read twice.        *)
Late(e, k, r) == Len(r) # 0 => k # 0 /\ (e[k] = r[Len(r)] \/ Twice(r, r[Len(r)]))

(* As long as a run repeats the run before, l, which read each source      *)
(* once, the links are those of l, and the cursor is at the last read.     *)
Repeats(r, l) ==
  /\ \A i, j \in 1..Len(l) : l[i] = l[j] => i = j
  /\ Len(r) <= Len(l) /\ \A i \in 1..Len(r) : r[i] = l[i]

Rerun(e, k, r, l) ==
  /\ \A j \in 1..Len(l) : \E i \in 1..Len(e) : e[i] = l[j]
  /\ Repeats(r, l) => Len(e) = Len(l) /\ (\A i \in 1..Len(l) : e[i] = l[i]) /\ k = Len(r)

(* A read: the history has each source once for reads in a row.            *)
ReadTo(r, d, r2) ==
  /\ r \in Seq(Nodes) /\ d \in Nodes
  /\ r2 = IF Len(r) # 0 /\ r[Len(r)] = d THEN r ELSE Append(r, d)

(* The history grows by one source, or stays. *)
LEMMA ReadToIs ==
  ASSUME NEW r, NEW d, NEW r2, ReadTo(r, d, r2)
  PROVE  /\ r2 \in Seq(Nodes) /\ Len(r2) \in Nat /\ Len(r) \in Nat /\ Len(r2) # 0 /\ r2[Len(r2)] = d
         /\ \A i \in 1..Len(r) : r2[i] = r[i] /\ i \in 1..Len(r2)
         /\ \A i \in 1..Len(r2) : (i \in 1..Len(r) /\ r2[i] = r[i]) \/ (i = Len(r) + 1 /\ r2[i] = d)
         /\ \A x : Twice(r, x) => Twice(r2, x)
         /\ Len(r2) = Len(r) => Len(r) # 0 /\ r[Len(r)] = d
         /\ Len(r2) = Len(r) \/ Len(r2) = Len(r) + 1
<1>0. r \in Seq(Nodes) /\ d \in Nodes /\ Len(r) \in Nat
  BY DEF ReadTo
<1>1. CASE Len(r) # 0 /\ r[Len(r)] = d
  <2>1. r2 = r
    BY <1>1 DEF ReadTo
  <2> QED
    BY ONLY <1>0, <1>1, <2>1
<1>2. CASE ~(Len(r) # 0 /\ r[Len(r)] = d)
  <2>1. r2 = Append(r, d)
    BY <1>2 DEF ReadTo
  <2>2. /\ r2 \in Seq(Nodes) /\ Len(r2) = Len(r) + 1 /\ r2[Len(r) + 1] = d
        /\ \A i \in DOMAIN r : r2[i] = r[i]
    BY ONLY <1>0, <2>1, AppendIs
  <2>3. \A i \in 1..Len(r) : i \in DOMAIN r /\ i \in 1..(Len(r) + 1)
    BY ONLY <1>0
  <2>4. \A i \in 1..(Len(r) + 1) : i \in 1..Len(r) \/ i = Len(r) + 1
    BY ONLY <1>0
  <2>5. ASSUME NEW x, Twice(r, x) PROVE Twice(r2, x)
    BY ONLY <2>2, <2>3, <2>5 DEF Twice
  <2>6. Len(r) + 1 \in Nat /\ Len(r) + 1 # 0 /\ Len(r) + 1 # Len(r)
    BY ONLY <1>0
  <2> QED
    BY ONLY <1>0, <2>2, <2>3, <2>4, <2>5, <2>6
<1> QED
  BY <1>1, <1>2

(* A source is read that the run has read already, or one that is new.     *)
LEMMA ReadTwice ==
  ASSUME NEW r, NEW d, NEW r2, ReadTo(r, d, r2), NEW i \in 1..Len(r), r[i] = d
  PROVE  Len(r2) = Len(r) + 1 => Twice(r2, d)
<1>1. /\ Len(r) \in Nat /\ r2[Len(r2)] = d /\ r2[i] = r[i] /\ i \in 1..Len(r2)
  BY ONLY ReadTo(r, d, r2), i \in 1..Len(r), ReadToIs
<1>2. SUFFICES ASSUME Len(r2) = Len(r) + 1 PROVE Twice(r2, d)
  OBVIOUS
<1>3. i # Len(r2) /\ Len(r2) \in 1..Len(r2)
  BY ONLY <1>1, <1>2, i \in 1..Len(r)
<1> QED
  BY ONLY <1>1, <1>3, r[i] = d DEF Twice

(* A run that has read nothing. *)
LEMMA RecordStart ==
  ASSUME NEW e
  PROVE  Record(e, 0, <<>>) /\ Late(e, 0, <<>>)
  BY DEF Record, Late

(* Only the links up to the cursor count. *)
LEMMA RecordSame ==
  ASSUME NEW e, NEW f, NEW k, NEW r, \A i \in 1..k : f[i] = e[i]
  PROVE  Record(e, k, r) => Record(f, k, r)
  BY DEF Record

(* The source that is read has a link up to the cursor.                    *)
LEMMA RecordAgain ==
  ASSUME NEW e, NEW k, NEW r, NEW d, NEW r2, ReadTo(r, d, r2), Record(e, k, r),
         NEW m \in 1..k, e[m] = d
  PROVE  Record(e, k, r2) /\ (Len(r2) = Len(r) + 1 => Twice(r2, d))
<1>0. /\ \A i \in 1..Len(r) : r2[i] = r[i] /\ i \in 1..Len(r2)
      /\ \A i \in 1..Len(r2) : (i \in 1..Len(r) /\ r2[i] = r[i]) \/ (i = Len(r) + 1 /\ r2[i] = d)
      /\ \A x : Twice(r, x) => Twice(r2, x)
      /\ Len(r) \in Nat /\ Len(r2) \in Nat
  BY ONLY ReadTo(r, d, r2), ReadToIs
<1>1. PICK h \in 1..Len(r) : r[h] = d
  BY DEF Record
<1>2. Len(r2) = Len(r) + 1 => Twice(r2, d)
  BY ONLY ReadTo(r, d, r2), <1>1, ReadTwice
<1>3. \A i \in 1..k : \E j \in 1..Len(r2) : r2[j] = e[i]
  BY <1>0 DEF Record
<1>4. \A j \in 1..Len(r2) : \E i \in 1..k : e[i] = r2[j]
  BY <1>0 DEF Record
<1>5. \A i, j \in 1..k : i < j /\ e[i] = e[j] => Twice(r2, e[i])
  BY <1>0 DEF Record
<1>6. ASSUME NEW i \in 1..k, NEW j \in 1..k, NEW p \in 1..Len(r2), NEW q \in 1..Len(r2),
             i < j, r2[p] = e[i], r2[q] = e[j], ~Twice(r2, e[i]), ~Twice(r2, e[j])
      PROVE  p < q
  <2>1. ASSUME NEW x \in 1..Len(r2), ~Twice(r2, r2[x]) PROVE x \in 1..Len(r) /\ r2[x] = r[x]
    BY ONLY <1>0, <1>2, <2>1
  <2>2. p \in 1..Len(r) /\ q \in 1..Len(r) /\ r[p] = e[i] /\ r[q] = e[j]
    BY ONLY <2>1, <1>6
  <2>3. ~Twice(r, e[i]) /\ ~Twice(r, e[j])
    BY ONLY <1>0, <1>6
  <2> QED
    BY <2>2, <2>3, <1>6 DEF Record
<1>7. Record(e, k, r2)
  BY ONLY <1>3, <1>4, <1>5, <1>6, ZenonT(30) DEF Record
<1> QED
  BY ONLY <1>2, <1>7

(* The cursor moves to a link of the source that is read.                  *)
Moves(e, f, k, r, d, r2) ==
  /\ ReadTo(r, d, r2) /\ Record(e, k, r) /\ Late(e, k, r) /\ ~(k # 0 /\ e[k] = d)
  /\ k \in Nat /\ (\A i \in 1..k : f[i] = e[i]) /\ f[k + 1] = d

(* The history and the links up to the cursor stay in step. *)
LEMMA RecordMoves ==
  ASSUME NEW e, NEW f, NEW k, NEW r, NEW d, NEW r2, Moves(e, f, k, r, d, r2)
  PROVE  Record(f, k + 1, r2) /\ Late(f, k + 1, r2)
<1>h. /\ ReadTo(r, d, r2) /\ Record(e, k, r) /\ Late(e, k, r) /\ ~(k # 0 /\ e[k] = d)
      /\ k \in Nat /\ (\A i \in 1..k : f[i] = e[i]) /\ f[k + 1] = d
  BY DEF Moves
<1>0. /\ \A i \in 1..Len(r) : r2[i] = r[i] /\ i \in 1..Len(r2)
      /\ \A i \in 1..Len(r2) : (i \in 1..Len(r) /\ r2[i] = r[i]) \/ (i = Len(r) + 1 /\ r2[i] = d)
      /\ \A x : Twice(r, x) => Twice(r2, x)
      /\ Len(r) \in Nat /\ Len(r2) \in Nat
      /\ Len(r2) # 0 /\ r2[Len(r2)] = d
      /\ Len(r2) = Len(r) => Len(r) # 0 /\ r[Len(r)] = d
      /\ Len(r2) = Len(r) \/ Len(r2) = Len(r) + 1
  BY ONLY <1>h, ReadToIs
<1>1. Record(f, k, r)
  BY ONLY <1>h, RecordSame
<1>2. /\ \A i \in 1..(k + 1) : i \in 1..k \/ i = k + 1
      /\ \A i \in 1..k : i \in 1..(k + 1) /\ i < k + 1
      /\ k + 1 \in 1..(k + 1) /\ k + 1 # 0 /\ Len(r2) \in 1..Len(r2)
  BY ONLY <1>h, <1>0
<1>3. \A i \in 1..(k + 1) : \E j \in 1..Len(r2) : r2[j] = f[i]
  <2>1. ASSUME NEW i \in 1..k PROVE \E j \in 1..Len(r2) : r2[j] = f[i]
    <3>1. PICK j \in 1..Len(r) : r[j] = f[i]
      BY <1>1 DEF Record
    <3> QED
      BY ONLY <1>0, <3>1
  <2>2. \E j \in 1..Len(r2) : r2[j] = f[k + 1]
    BY ONLY <1>h, <1>0, <1>2
  <2> QED
    BY ONLY <1>2, <2>1, <2>2
<1>4. \A j \in 1..Len(r2) : \E i \in 1..(k + 1) : f[i] = r2[j]
  BY ONLY <1>h, <1>0, <1>1, <1>2 DEF Record
<1>5. ASSUME NEW i \in 1..k, f[i] = d PROVE Twice(r2, d)
  <2>1. PICK h \in 1..Len(r) : r[h] = d
    BY <1>1, <1>5 DEF Record
  <2>2. Len(r2) = Len(r) + 1 => Twice(r2, d)
    BY ONLY <1>h, <2>1, ReadTwice
  <2>3. CASE Len(r2) = Len(r)
    <3>1. Twice(r, d)
      BY ONLY <1>h, <1>0, <2>3 DEF Late
    <3> QED
      BY <1>0, <3>1
  <2> QED
    BY <1>0, <2>2, <2>3
<1>6. \A i, j \in 1..(k + 1) : i < j /\ f[i] = f[j] => Twice(r2, f[i])
  <2> SUFFICES ASSUME NEW i \in 1..(k + 1), NEW j \in 1..(k + 1), i < j, f[i] = f[j] PROVE Twice(r2, f[i])
    OBVIOUS
  <2>1. i \in 1..k
    BY ONLY <1>h, i \in 1..(k + 1), j \in 1..(k + 1), i < j
  <2>2. CASE j \in 1..k
    BY <1>0, <1>1, <2>1, <2>2 DEF Record
  <2>3. CASE j = k + 1
    BY <1>h, <1>5, <2>1, <2>3
  <2> QED
    BY <1>2, <2>2, <2>3
<1>7. ASSUME NEW i \in 1..(k + 1), NEW j \in 1..(k + 1), NEW p \in 1..Len(r2), NEW q \in 1..Len(r2),
             i < j, r2[p] = f[i], r2[q] = f[j], ~Twice(r2, f[i]), ~Twice(r2, f[j])
      PROVE  p < q
  <2>1. i \in 1..k
    BY ONLY <1>h, <1>7
  <2>2. f[i] # d /\ p \in 1..Len(r) /\ r[p] = f[i] /\ ~Twice(r, f[i])
    BY ONLY <1>0, <1>5, <1>7, <2>1
  <2>3. CASE j = k + 1
    <3>1. f[j] = d
      BY <1>h, <2>3
    <3>2. ~Twice(r, d)
      BY ONLY <1>0, <1>7, <3>1
    <3>3. Len(r2) = Len(r) + 1
      <4>1. SUFFICES ASSUME Len(r2) = Len(r) PROVE FALSE
        BY <1>0
      <4> QED
        BY ONLY <1>h, <1>0, <3>2, <4>1 DEF Late
    <3>4. p # q
      BY ONLY <2>2, <3>1, <1>7
    <3>5. q = Len(r2)
      <4>1. SUFFICES ASSUME q # Len(r2) PROVE FALSE
        OBVIOUS
      <4>2. Twice(r2, d)
        BY ONLY <1>0, <1>2, <1>7, <3>1, <4>1 DEF Twice
      <4> QED
        BY ONLY <1>7, <3>1, <4>2
    <3> QED
      BY ONLY <1>0, <2>2, <3>3, <3>5
  <2>4. CASE j \in 1..k
    <3>1. f[j] # d
      BY ONLY <1>5, <1>7, <2>4
    <3>2. q \in 1..Len(r) /\ r[q] = f[j] /\ ~Twice(r, f[j])
      BY ONLY <1>0, <1>7, <3>1
    <3> QED
      BY ONLY <1>1, <1>7, <2>1, <2>2, <2>4, <3>2 DEF Record
  <2> QED
    BY <1>2, <2>3, <2>4
<1>8. Late(f, k + 1, r2)
  BY ONLY <1>h, <1>0, <1>2 DEF Late
<1> QED
  BY ONLY <1>3, <1>4, <1>6, <1>7, <1>8 DEF Record

(* The links of a run that read each source once are its sources, in order.*)
LEMMA OnceIs ==
  ASSUME NEW e, NEW l, Len(e) \in Nat, Len(l) \in Nat, Record(e, Len(e), l),
         \A i, j \in 1..Len(l) : l[i] = l[j] => i = j
  PROVE  Len(e) = Len(l) /\ \A i \in 1..Len(l) : e[i] = l[i]
<1>1. \A x : ~Twice(l, x)
  BY DEF Twice
<1>2. /\ \A i \in 1..Len(e) : \E j \in 1..Len(l) : l[j] = e[i]
      /\ \A j \in 1..Len(l) : \E i \in 1..Len(e) : e[i] = l[j]
      /\ \A i, j \in 1..Len(e) : e[i] = e[j] => i = j
  <2>1. /\ \A i \in 1..Len(e) : \E j \in 1..Len(l) : l[j] = e[i]
        /\ \A j \in 1..Len(l) : \E i \in 1..Len(e) : e[i] = l[j]
        /\ \A i, j \in 1..Len(e) : i < j /\ e[i] = e[j] => FALSE
    BY <1>1 DEF Record
  <2>2. ASSUME NEW i \in 1..Len(e), NEW j \in 1..Len(e), e[i] = e[j] PROVE i = j
    <3>1. ~(i < j) /\ ~(j < i)
      BY ONLY <2>1, <2>2
    <3> QED
      BY ONLY <3>1, i \in 1..Len(e), j \in 1..Len(e), Len(e) \in Nat
  <2> QED
    BY <2>1, <2>2
<1>3. \A i, j \in 1..Len(e) : \A p, q \in 1..Len(l) : i < j /\ l[p] = e[i] /\ l[q] = e[j] => p < q
  BY <1>1 DEF Record
<1>4. \A i, j \in 1..Len(l) : l[i] = l[j] => i = j
  OBVIOUS
<1> DEFINE A == {m \in 0..Len(e) : m <= Len(l) /\ \A i \in 1..m : e[i] = l[i]}
<1>5. 0 \in A
  OBVIOUS
<1>6. ASSUME NEW m \in 1..Len(e), m - 1 \in A PROVE m \in A
  <2>1. m - 1 <= Len(l) /\ \A i \in 1..(m - 1) : e[i] = l[i]
    BY <1>6
  <2> HIDE DEF A
  <2>2. \A i \in 1..m : i \in 1..(m - 1) \/ i = m
    OBVIOUS
  <2>3. PICK p \in 1..Len(l) : l[p] = e[m]
    BY ONLY <1>2, m \in 1..Len(e)
  <2>4. ASSUME p < m PROVE FALSE
    <3>1. p \in 1..(m - 1) /\ p \in 1..Len(e) /\ p # m
      BY ONLY <2>4, p \in 1..Len(l), m \in 1..Len(e), Len(e) \in Nat, Len(l) \in Nat
    <3> QED
      BY ONLY <1>2, <2>1, <2>3, <3>1, m \in 1..Len(e)
  <2>5. m \in 1..Len(l) /\ p >= m
    BY ONLY <2>4, p \in 1..Len(l), m \in 1..Len(e), Len(e) \in Nat, Len(l) \in Nat
  <2>6. PICK h \in 1..Len(e) : e[h] = l[m]
    BY ONLY <1>2, <2>5
  <2>7. ASSUME h < m PROVE FALSE
    <3>1. h \in 1..(m - 1) /\ h \in 1..Len(l) /\ h # m
      BY ONLY <2>5, <2>7, h \in 1..Len(e), Len(e) \in Nat, Len(l) \in Nat
    <3> QED
      BY ONLY <1>4, <2>1, <2>5, <2>6, <3>1
  <2>8. ASSUME h > m PROVE FALSE
    <3>1. p < m
      BY ONLY <1>3, <2>3, <2>5, <2>6, <2>8, m \in 1..Len(e), h \in 1..Len(e), p \in 1..Len(l)
    <3> QED
      BY ONLY <3>1, <2>4
  <2>9. h = m
    BY ONLY <2>7, <2>8, h \in 1..Len(e), m \in 1..Len(e), Len(e) \in Nat
  <2>10. \A i \in 1..m : e[i] = l[i]
    BY ONLY <2>1, <2>2, <2>6, <2>9
  <2>11. m \in 0..Len(e) /\ m <= Len(l)
    BY ONLY <2>5, m \in 1..Len(e), Len(e) \in Nat, Len(l) \in Nat
  <2> QED
    BY <2>10, <2>11 DEF A
<1>7. Len(e) \in A
  <2>1. 0..Len(e) \subseteq A
    <3> HIDE DEF A
    <3> QED
      BY ONLY <1>5, <1>6, Steps, Len(e) \in Nat
  <2> QED
    BY <2>1
<1>8. Len(e) <= Len(l) /\ \A i \in 1..Len(e) : e[i] = l[i]
  BY <1>7
<1> HIDE DEF A
<1>9. Len(e) >= Len(l)
  <2>1. SUFFICES ASSUME Len(e) < Len(l) PROVE FALSE
    OBVIOUS
  <2>2. Len(e) + 1 \in 1..Len(l)
    BY ONLY <2>1, Len(e) \in Nat, Len(l) \in Nat
  <2>3. PICK h \in 1..Len(e) : e[h] = l[Len(e) + 1]
    BY ONLY <1>2, <2>2
  <2>4. h \in 1..Len(l) /\ h # Len(e) + 1
    BY ONLY <2>1, h \in 1..Len(e), Len(e) \in Nat, Len(l) \in Nat
  <2> QED
    BY ONLY <1>4, <1>8, <2>2, <2>3, <2>4
<1>10. Len(e) = Len(l)
  BY ONLY <1>8, <1>9, Len(e) \in Nat, Len(l) \in Nat
<1> QED
  BY ONLY <1>8, <1>10

(* A run starts.                                                           *)
LEMMA RerunStart ==
  ASSUME NEW e, NEW l, Len(e) \in Nat, Len(l) \in Nat, Record(e, Len(e), l)
  PROVE  Rerun(e, 0, <<>>, l)
<1>1. \A j \in 1..Len(l) : \E i \in 1..Len(e) : e[i] = l[j]
  BY DEF Record
<1>2. Repeats(<<>>, l) => Len(e) = Len(l) /\ (\A i \in 1..Len(l) : e[i] = l[i])
  BY OnceIs DEF Repeats
<1>3. Len(<<>>) = 0
  OBVIOUS
<1> QED
  BY ONLY <1>1, <1>2, <1>3 DEF Rerun

(* A run that repeats the one before has done so up to the last read.      *)
LEMMA RepeatsBefore ==
  ASSUME NEW r, NEW d, NEW r2, ReadTo(r, d, r2), NEW l, Len(l) \in Nat, Repeats(r2, l)
  PROVE  Repeats(r, l) /\ Len(r2) \in 1..Len(l) /\ l[Len(r2)] = d /\ ~Twice(r2, d)
<1>1. /\ Len(r) \in Nat /\ Len(r2) \in Nat /\ Len(r2) # 0 /\ r2[Len(r2)] = d
      /\ \A i \in 1..Len(r) : r2[i] = r[i] /\ i \in 1..Len(r2)
      /\ Len(r2) = Len(r) \/ Len(r2) = Len(r) + 1
  BY ONLY ReadTo(r, d, r2), ReadToIs
<1>2. /\ \A i, j \in 1..Len(l) : l[i] = l[j] => i = j
      /\ Len(r2) <= Len(l) /\ \A i \in 1..Len(r2) : r2[i] = l[i]
  BY DEF Repeats
<1>3. Len(r2) \in 1..Len(r2) /\ \A i \in 1..Len(r2) : i \in 1..Len(l)
  BY ONLY <1>1, <1>2, Len(l) \in Nat
<1>4. Repeats(r, l)
  <2>1. Len(r) <= Len(l)
    BY ONLY <1>1, <1>2, Len(l) \in Nat
  <2>2. \A i \in 1..Len(r) : r[i] = l[i]
    BY ONLY <1>1, <1>2
  <2> QED
    BY ONLY <1>2, <2>1, <2>2 DEF Repeats
<1>5. ~Twice(r2, d)
  BY ONLY <1>2, <1>3 DEF Twice
<1> QED
  BY ONLY <1>1, <1>2, <1>3, <1>4, <1>5

(* It repeats the run before no longer when it goes back to a source. *)
LEMMA RerunAgain ==
  ASSUME NEW e, NEW k, NEW r, NEW d, NEW r2, NEW l, Len(l) \in Nat, Rerun(e, k, r, l), ReadTo(r, d, r2),
         Len(r2) = Len(r) + 1 => Twice(r2, d)
  PROVE  Rerun(e, k, r2, l)
<1>1. Len(r2) = Len(r) \/ Len(r2) = Len(r) + 1
  BY ONLY ReadTo(r, d, r2), ReadToIs
<1>2. ASSUME Repeats(r2, l) PROVE Repeats(r, l) /\ Len(r2) = Len(r)
  BY <1>1, <1>2, RepeatsBefore
<1> QED
  BY <1>2 DEF Rerun

(* A read that repeats the run before finds its link after the cursor.     *)
LEMMA RepeatIsNext ==
  ASSUME NEW e, NEW k, NEW r, NEW d, NEW r2, NEW l, Len(l) \in Nat, Rerun(e, k, r, l), ReadTo(r, d, r2),
         ~(k # 0 /\ e[k] = d), Repeats(r2, l)
  PROVE  /\ Len(e) = Len(l) /\ (\A i \in 1..Len(l) : e[i] = l[i]) /\ k = Len(r)
         /\ k + 1 = Len(r2) /\ k + 1 \in 1..Len(e) /\ e[k + 1] = d
<1>1. Repeats(r, l) /\ Len(r2) \in 1..Len(l) /\ l[Len(r2)] = d
  BY RepeatsBefore
<1>2. Len(e) = Len(l) /\ (\A i \in 1..Len(l) : e[i] = l[i]) /\ k = Len(r)
  BY <1>1 DEF Rerun
<1>3. Len(r2) = Len(r) + 1
  <2>1. /\ Len(r2) = Len(r) => Len(r) # 0 /\ r[Len(r)] = d
        /\ Len(r2) = Len(r) \/ Len(r2) = Len(r) + 1
    BY ONLY ReadTo(r, d, r2), ReadToIs
  <2>2. Len(r2) # Len(r)
    BY ONLY <1>1, <1>2, <2>1, ~(k # 0 /\ e[k] = d)
  <2> QED
    BY <2>1, <2>2
<1> QED
  BY ONLY <1>1, <1>2, <1>3

(* A link of the run before is used again. *)
LEMMA RerunReuse ==
  ASSUME NEW e, NEW k, NEW r, NEW d, NEW r2, NEW l, Len(l) \in Nat, Rerun(e, k, r, l), ReadTo(r, d, r2),
         ~(k # 0 /\ e[k] = d)
  PROVE  Rerun(e, k + 1, r2, l)
<1>1. ASSUME Repeats(r2, l)
      PROVE  Len(e) = Len(l) /\ (\A i \in 1..Len(l) : e[i] = l[i]) /\ k + 1 = Len(r2)
  BY <1>1, RepeatIsNext
<1>2. \A j \in 1..Len(l) : \E i \in 1..Len(e) : e[i] = l[j]
  BY DEF Rerun
<1> QED
  BY ONLY <1>1, <1>2 DEF Rerun

(* A new link means that the run differs from the one before. *)
LEMMA RerunNew ==
  ASSUME NEW e, NEW f, NEW k, NEW r, NEW d, NEW r2, NEW l, Len(l) \in Nat, Rerun(e, k, r, l), ReadTo(r, d, r2),
         ~(k # 0 /\ e[k] = d), ~(k + 1 \in 1..Len(e) /\ e[k + 1] = d),
         \A i \in 1..Len(e) : \E j \in 1..Len(f) : f[j] = e[i]
  PROVE  Rerun(f, k + 1, r2, l) /\ ~Repeats(r2, l)
<1>1. ~Repeats(r2, l)
  BY RepeatIsNext
<1>2. \A j \in 1..Len(l) : \E i \in 1..Len(f) : f[i] = l[j]
  <2>1. \A j \in 1..Len(l) : \E i \in 1..Len(e) : e[i] = l[j]
    BY DEF Rerun
  <2> QED
    BY <2>1
<1> QED
  BY ONLY <1>1, <1>2 DEF Rerun

(* w has the first m elements of s that are not n, in order.               *)
Sieve(s, n, m, w, f) ==
  /\ \A i \in 1..Len(w) : f[i] \in 1..m /\ w[i] = s[f[i]] /\ w[i] # n
  /\ \A i, j \in 1..Len(w) : i < j => f[i] < f[j]
  /\ \A j \in 1..m : s[j] # n => \E i \in 1..Len(w) : f[i] = j

Kept(s, n, m, w) ==
  /\ \E f : Sieve(s, n, m, w, f)
  /\ (\A j \in 1..m : s[j] # n) => Len(w) = m /\ \A i \in 1..m : w[i] = s[i]

Keep(w, x, n) == IF x = n THEN w ELSE Append(w, x)

(* One element more. *)
LEMMA KeptNext ==
  ASSUME NEW T, NEW s \in Seq(T), NEW n, NEW m \in 1..Len(s), NEW w \in Seq(T), Kept(s, n, m - 1, w)
  PROVE  Keep(w, s[m], n) \in Seq(T) /\ Kept(s, n, m, Keep(w, s[m], n))
<1>0. Len(s) \in Nat /\ m \in Nat /\ Len(w) \in Nat /\ s[m] \in T
  OBVIOUS
<1>1. PICK f : Sieve(s, n, m - 1, w, f)
  BY DEF Kept
<1>2. /\ \A i \in 1..Len(w) : f[i] \in 1..(m - 1) /\ w[i] = s[f[i]] /\ w[i] # n
      /\ \A i, j \in 1..Len(w) : i < j => f[i] < f[j]
      /\ \A j \in 1..(m - 1) : s[j] # n => \E i \in 1..Len(w) : f[i] = j
  BY ONLY <1>1 DEF Sieve
<1>3. /\ \A j \in 1..m : j \in 1..(m - 1) \/ j = m
      /\ \A j \in 1..(m - 1) : j \in 1..m /\ j < m
  BY ONLY <1>0
<1>4. CASE s[m] = n
  <2>1. Keep(w, s[m], n) = w
    BY <1>4 DEF Keep
  <2>2. Sieve(s, n, m, w, f)
    BY ONLY <1>2, <1>3, <1>4 DEF Sieve
  <2>3. ~\A j \in 1..m : s[j] # n
    BY <1>4
  <2>4. Kept(s, n, m, w)
    BY ONLY <2>2, <2>3 DEF Kept
  <2> QED
    BY <2>1, <2>4
<1>5. CASE s[m] # n
  <2> DEFINE L == Len(w)
             v == Append(w, s[m])
             g == [i \in 1..(L + 1) |-> IF i \in 1..L THEN f[i] ELSE m]
  <2>1. Keep(w, s[m], n) = v
    BY <1>5 DEF Keep
  <2>2. /\ v \in Seq(T) /\ Len(v) = L + 1 /\ v[L + 1] = s[m] /\ L \in Nat
        /\ \A i \in 1..L : v[i] = w[i]
    <3>1. /\ v \in Seq(T) /\ Len(v) = L + 1 /\ v[L + 1] = s[m]
          /\ \A i \in DOMAIN w : v[i] = w[i]
      BY ONLY <1>0, AppendIs, w \in Seq(T)
    <3> QED
      BY <3>1
  <2>3. /\ \A i \in 1..(L + 1) : i \in 1..L \/ i = L + 1
        /\ \A i \in 1..L : i \in 1..(L + 1) /\ i # L + 1 /\ i < L + 1 /\ ~(L + 1 < i)
        /\ L + 1 \in 1..(L + 1) /\ L + 1 \notin 1..L /\ ~(L + 1 < L + 1)
    BY ONLY <1>0
  <2>4. (\A i \in 1..L : g[i] = f[i]) /\ g[L + 1] = m
    BY <2>3
  <2> HIDE DEF v, g, L
  <2>5. Sieve(s, n, m, v, g)
    <3>1. \A i \in 1..(L + 1) : g[i] \in 1..m /\ v[i] = s[g[i]] /\ v[i] # n
      <4>1. ASSUME NEW i \in 1..L PROVE g[i] \in 1..m /\ v[i] = s[g[i]] /\ v[i] # n
        BY ONLY <1>2, <1>3, <2>2, <2>4, i \in 1..L DEF L
      <4>2. m \in 1..m
        BY ONLY m \in 1..Len(s), Len(s) \in Nat
      <4> QED
        BY ONLY <1>5, <2>2, <2>3, <2>4, <4>1, <4>2
    <3>2. ASSUME NEW i \in 1..(L + 1), NEW j \in 1..(L + 1), i < j PROVE g[i] < g[j]
      <4>1. i \in 1..L
        BY ONLY <2>3, <3>2
      <4>2. CASE j \in 1..L
        BY ONLY <1>2, <2>4, <4>1, <4>2, <3>2 DEF L
      <4>3. CASE j = L + 1
        BY ONLY <1>2, <1>3, <2>4, <4>1, <4>3 DEF L
      <4> QED
        BY <2>3, <4>2, <4>3
    <3>3. \A j \in 1..m : s[j] # n => \E i \in 1..(L + 1) : g[i] = j
      <4>1. ASSUME NEW j \in 1..(m - 1), s[j] # n PROVE \E i \in 1..(L + 1) : g[i] = j
        BY ONLY <1>2, <2>3, <2>4, <4>1 DEF L
      <4>2. \E i \in 1..(L + 1) : g[i] = m
        BY ONLY <2>3, <2>4
      <4> QED
        BY ONLY <1>3, <4>1, <4>2
    <3> QED
      BY ONLY <2>2, <3>1, <3>2, <3>3 DEF Sieve
  <2>6. (\A j \in 1..m : s[j] # n) => Len(v) = m /\ \A i \in 1..m : v[i] = s[i]
    <3> SUFFICES ASSUME \A j \in 1..m : s[j] # n PROVE Len(v) = m /\ \A i \in 1..m : v[i] = s[i]
      OBVIOUS
    <3>1. Len(w) = m - 1 /\ \A i \in 1..(m - 1) : w[i] = s[i]
      BY <1>3 DEF Kept
    <3>2. L = m - 1 /\ L + 1 = m
      BY ONLY <3>1, <1>0 DEF L
    <3> QED
      BY ONLY <1>3, <2>2, <3>1, <3>2
  <2>7. Kept(s, n, m, v)
    BY ONLY <2>5, <2>6 DEF Kept
  <2> QED
    BY ONLY <2>1, <2>2, <2>7
<1> QED
  BY <1>4, <1>5

(* What is left of a history when a node goes.                             *)
LEMMA WithoutIs ==
  ASSUME NEW T, NEW s \in Seq(T), NEW n
  PROVE  Without(s, n) \in Seq(T) /\ Kept(s, n, Len(s), Without(s, n))
<1> DEFINE N == Len(s)
           J == [i \in 0..N |-> {w \in Seq(T) : Kept(s, n, i, w)}]
           step == [i \in 1..N |-> [w \in J[i - 1] |-> Keep(w, s[i], n)]]
           loop == CHOOSE f : f = [i \in 0..N |-> IF i = 0 THEN <<>> ELSE
                                     IF s[i] = n THEN f[i - 1] ELSE Append(f[i - 1], s[i])]
<1>1. N \in Nat /\ \A i \in 1..N : i - 1 \in 0..N /\ i \in 0..N
  OBVIOUS
<1>2. <<>> \in J[0]
  <2>1. Sieve(s, n, 0, <<>>, <<>>)
    BY DEF Sieve
  <2>2. Kept(s, n, 0, <<>>)
    BY <2>1 DEF Kept
  <2>3. <<>> \in Seq(T) /\ 0 \in 0..N
    OBVIOUS
  <2> QED
    BY <2>2, <2>3
<1>3. ASSUME NEW i \in 1..N, NEW w \in J[i - 1] PROVE Keep(w, s[i], n) \in J[i]
  <2>1. w \in Seq(T) /\ Kept(s, n, i - 1, w)
    BY <1>1
  <2>2. Keep(w, s[i], n) \in Seq(T) /\ Kept(s, n, i, Keep(w, s[i], n))
    BY <2>1, KeptNext
  <2> QED
    BY <1>1, <2>2
<1> HIDE DEF J
<1>4. \E f : f = [i \in 0..N |-> IF i = 0 THEN <<>> ELSE
                                  IF s[i] = n THEN f[i - 1] ELSE Append(f[i - 1], s[i])]
  <2>1. \A i \in 1..N : \A w \in J[i - 1] : step[i][w] = Keep(w, s[i], n)
    OBVIOUS
  <2>2. \A i \in 1..N : \A w \in J[i - 1] : step[i][w] \in J[i]
    BY <1>3, <2>1
  <2>3. PICK f \in [0..N -> Seq(T)] :
           /\ f[0] = <<>>
           /\ \A i \in 1..N : f[i - 1] \in J[i - 1] /\ f[i] = step[i][f[i - 1]]
    <3>1. N \in Nat /\ \A i \in 0..N : J[i] \subseteq Seq(T)
      BY <1>1 DEF J
    <3> HIDE DEF step, N
    <3>2. IsLoop(N, Seq(T), <<>>, J, step)
      BY ONLY <3>1, <1>2, <2>2 DEF IsLoop
    <3> QED
      BY ONLY <3>2, Loop
  <2>4. \A i \in 1..N : f[i] = Keep(f[i - 1], s[i], n)
    BY <2>1, <2>3
  <2>5. f = [i \in 0..N |-> IF i = 0 THEN <<>> ELSE
                             IF s[i] = n THEN f[i - 1] ELSE Append(f[i - 1], s[i])]
    <3> HIDE DEF step
    <3>1. \A i \in 0..N : f[i] = IF i = 0 THEN <<>> ELSE
                             IF s[i] = n THEN f[i - 1] ELSE Append(f[i - 1], s[i])
      <4>1. \A i \in 0..N : i = 0 \/ i \in 1..N
        BY ONLY <1>1
      <4>2. \A i \in 1..N : i # 0
        BY ONLY <1>1
      <4> QED
        BY ONLY <2>3, <2>4, <4>1, <4>2 DEF Keep
    <3> QED
      BY <3>1
  <2> QED
    BY <2>5
<1>5. loop = [i \in 0..N |-> IF i = 0 THEN <<>> ELSE
                              IF s[i] = n THEN loop[i - 1] ELSE Append(loop[i - 1], s[i])]
  BY <1>4
<1>6. Without(s, n) = loop[N]
  BY DEF Without
<1> HIDE DEF loop
<1>7. loop[N] \in J[N]
  <2> DEFINE A == {i \in 0..N : loop[i] \in J[i]}
  <2>1. 0 \in A
    BY <1>1, <1>2, <1>5
  <2>2. ASSUME NEW i \in 1..N, i - 1 \in A PROVE i \in A
    <3> DEFINE F == [j \in 0..N |-> IF j = 0 THEN <<>> ELSE
                              IF s[j] = n THEN loop[j - 1] ELSE Append(loop[j - 1], s[j])]
    <3>1. loop[i] = Keep(loop[i - 1], s[i], n)
      <4>1. i \in 0..N /\ i # 0
        BY ONLY <1>1, i \in 1..N
      <4>2. F[i] = Keep(loop[i - 1], s[i], n)
        BY ONLY <4>1 DEF Keep
      <4>3. loop = F
        BY ONLY <1>5
      <4> QED
        BY ONLY <4>2, <4>3
    <3> QED
      BY <1>1, <1>3, <2>2, <3>1
  <2>3. 0..N \subseteq A
    <3> HIDE DEF A, N
    <3> QED
      BY <1>1, <2>1, <2>2, Steps
  <2> QED
    BY <1>1, <2>3
<1> QED
  BY <1>1, <1>6, <1>7 DEF J

(* The history that is left is that of the links that are left.            *)
Remains(e, e2, r, n) ==
  /\ r \in Seq(Nodes) /\ Len(e) \in Nat /\ Len(e2) \in Nat /\ Record(e, Len(e), r)
  /\ \A i \in 1..Len(e2) : e2[i] # n /\ \E a \in 1..Len(e) : e[a] = e2[i]
  /\ \A a \in 1..Len(e) : e[a] # n => \E i \in 1..Len(e2) : e2[i] = e[a]
  /\ \A i, j \in 1..Len(e2) : i < j => \E a, b \in 1..Len(e) : a < b /\ e[a] = e2[i] /\ e[b] = e2[j]

(* The run read what the links that are left say. *)
LEMMA RecordRemains ==
  ASSUME NEW e, NEW e2, NEW r, NEW n, Remains(e, e2, r, n)
  PROVE  Record(e2, Len(e2), Without(r, n))
<1>1. /\ r \in Seq(Nodes) /\ Len(e) \in Nat /\ Len(e2) \in Nat /\ Record(e, Len(e), r)
      /\ \A i \in 1..Len(e2) : e2[i] # n /\ \E a \in 1..Len(e) : e[a] = e2[i]
      /\ \A a \in 1..Len(e) : e[a] # n => \E i \in 1..Len(e2) : e2[i] = e[a]
  BY DEF Remains
<1>2. \A i, j \in 1..Len(e2) : i < j => \E a, b \in 1..Len(e) : a < b /\ e[a] = e2[i] /\ e[b] = e2[j]
  BY DEF Remains
<1> DEFINE w == Without(r, n)
<1>3. w \in Seq(Nodes) /\ Kept(r, n, Len(r), w)
  BY <1>1, WithoutIs
<1> HIDE DEF w
<1>4. PICK f : Sieve(r, n, Len(r), w, f)
  BY <1>3 DEF Kept
<1>5. /\ \A i \in 1..Len(w) : f[i] \in 1..Len(r) /\ w[i] = r[f[i]] /\ w[i] # n
      /\ \A i, j \in 1..Len(w) : i < j => f[i] < f[j]
      /\ \A j \in 1..Len(r) : r[j] # n => \E i \in 1..Len(w) : f[i] = j
      /\ Len(w) \in Nat /\ Len(r) \in Nat
  <2>1. Len(w) \in Nat /\ Len(r) \in Nat
    BY ONLY <1>1, <1>3
  <2> QED
    BY ONLY <2>1, <1>4 DEF Sieve
<1>6. /\ \A i \in 1..Len(e) : \E j \in 1..Len(r) : r[j] = e[i]
      /\ \A j \in 1..Len(r) : \E i \in 1..Len(e) : e[i] = r[j]
  BY ONLY <1>1 DEF Record
<1>7. \A i, j \in 1..Len(e) : i < j /\ e[i] = e[j] => Twice(r, e[i])
  BY ONLY <1>1 DEF Record
<1>8. \A i, j \in 1..Len(e) : \A p, q \in 1..Len(r) :
        i < j /\ r[p] = e[i] /\ r[q] = e[j] /\ ~Twice(r, e[i]) /\ ~Twice(r, e[j]) => p < q
  BY ONLY <1>1 DEF Record
<1>9. ASSUME NEW x, x # n, Twice(r, x) PROVE Twice(w, x)
  <2>1. PICK i, j \in 1..Len(r) : i # j /\ r[i] = x /\ r[j] = x
    BY ONLY <1>9 DEF Twice
  <2>2. PICK a \in 1..Len(w) : f[a] = i
    BY ONLY <1>5, <1>9, <2>1
  <2>3. PICK b \in 1..Len(w) : f[b] = j
    BY ONLY <1>5, <1>9, <2>1
  <2>4. a # b /\ w[a] = x /\ w[b] = x
    BY ONLY <1>5, <2>1, <2>2, <2>3
  <2> QED
    BY <2>4 DEF Twice
<1>10. \A i \in 1..Len(e2) : \E j \in 1..Len(w) : w[j] = e2[i]
  <2> SUFFICES ASSUME NEW i \in 1..Len(e2) PROVE \E j \in 1..Len(w) : w[j] = e2[i]
    OBVIOUS
  <2>1. PICK a \in 1..Len(e) : e[a] = e2[i]
    BY <1>1
  <2>2. PICK j \in 1..Len(r) : r[j] = e[a]
    BY <1>6
  <2>3. r[j] = e2[i] /\ r[j] # n
    BY ONLY <1>1, <2>1, <2>2, i \in 1..Len(e2)
  <2>4. PICK p \in 1..Len(w) : f[p] = j
    BY <1>5, <2>3
  <2>5. w[p] = r[f[p]]
    BY ONLY <1>5, p \in 1..Len(w)
  <2> QED
    BY ONLY <2>3, <2>4, <2>5, p \in 1..Len(w)
<1>11. \A j \in 1..Len(w) : \E i \in 1..Len(e2) : e2[i] = w[j]
  <2> SUFFICES ASSUME NEW j \in 1..Len(w) PROVE \E i \in 1..Len(e2) : e2[i] = w[j]
    OBVIOUS
  <2>1. PICK a \in 1..Len(e) : e[a] = r[f[j]]
    BY ONLY <1>5, <1>6, j \in 1..Len(w)
  <2>2. w[j] = e[a] /\ e[a] # n
    BY ONLY <1>5, <2>1, j \in 1..Len(w)
  <2> QED
    BY ONLY <1>1, <2>2, a \in 1..Len(e)
<1>12. ASSUME NEW i \in 1..Len(e2), NEW j \in 1..Len(e2), i < j, e2[i] = e2[j] PROVE Twice(w, e2[i])
  <2>1. PICK a, b \in 1..Len(e) : a < b /\ e[a] = e2[i] /\ e[b] = e2[j]
    BY <1>2, <1>12
  <2>2. Twice(r, e2[i]) /\ e2[i] # n
    BY ONLY <1>1, <1>7, <1>12, <2>1
  <2> QED
    BY ONLY <1>9, <2>2
<1>13. ASSUME NEW i \in 1..Len(e2), NEW j \in 1..Len(e2), NEW p \in 1..Len(w), NEW q \in 1..Len(w),
              i < j, w[p] = e2[i], w[q] = e2[j], ~Twice(w, e2[i]), ~Twice(w, e2[j])
       PROVE  p < q
  <2>1. PICK a, b \in 1..Len(e) : a < b /\ e[a] = e2[i] /\ e[b] = e2[j]
    BY <1>2, <1>13
  <2>2. ~Twice(r, e2[i]) /\ ~Twice(r, e2[j])
    BY ONLY <1>1, <1>9, <1>13
  <2>3. f[p] < f[q]
    <3>1. f[p] \in 1..Len(r) /\ f[q] \in 1..Len(r) /\ r[f[p]] = e[a] /\ r[f[q]] = e[b]
      BY ONLY <1>5, <1>13, <2>1
    <3> QED
      BY ONLY <1>8, <2>1, <2>2, <3>1
  <2>4. ~(q < p) /\ q # p
    <3>1. f[p] \in Nat /\ f[q] \in Nat
      BY ONLY <1>5, <1>13, SMTT(30)
    <3> QED
      BY ONLY <1>5, <1>13, <2>3, <3>1, SMTT(30)
  <2> QED
    BY ONLY <1>5, <1>13, <2>4
<1>14. Record(e2, Len(e2), w)
  BY ONLY <1>10, <1>11, <1>12, <1>13 DEF Record
<1> QED
  BY <1>14 DEF w

-----------------------------------------------------------------------------
(* The sources of the links of t.                                          *)
Sources(h, t) == [i \in 1..Len(t) |-> h.links[t[i]].dep]

(* The cursor is at the k-th link of the list t: the links up to it are    *)
(* what the history r says, and a node that is not running has no others.  *)
At(k, tail, e, t, r, l, busy) ==
  /\ tail = Before(t, k) /\ Record(e, k, r)
  /\ busy => Late(e, k, r) /\ Rerun(e, k, r, l)
  /\ ~busy => k = Len(t)

Followed(tail, e, t, r, l, busy) == \E k \in 0..Len(t) : At(k, tail, e, t, r, l, busy)

(* Only nodes that exist are running, and have a history.                  *)
Histories(h, run, rd, lr) ==
  /\ run \in Seq(Nodes) /\ rd \in [Nodes -> Seq(Nodes)] /\ lr \in [Nodes -> Seq(Nodes)]
  /\ \A i, j \in 1..Len(run) : run[i] = run[j] => i = j
  /\ \A i \in 1..Len(run) : run[i] \in Here(h)
  /\ \A n \in Nodes \ Here(h) : rd[n] = <<>>

(* The inductive invariant, of a heap h with the lists D and S.            *)
Sound(h, D, S, run, rd, lr) ==
  /\ Pool(h, D, S) /\ Histories(h, run, rd, lr)
  /\ \A n \in Here(h) :
       Followed(h.node[n].depsTail, Sources(h, D[n]), D[n], rd[n], lr[n], Contains(run, n))

Deps == [n \in Here(Heap) |-> DepLinks(Heap, n)]
Subs == [n \in Here(Heap) |-> SubLinks(Heap, n)]
LinksInv == Sound(Heap, Deps, Subs, running, reads, lastReads)

(* The sources of a list depend on its links only. *)
LEMMA SourcesSame ==
  ASSUME NEW h, NEW g, NEW t, \A i \in 1..Len(t) : g.links[t[i]].dep = h.links[t[i]].dep
  PROVE  Sources(g, t) = Sources(h, t)
  BY DEF Sources

(* The invariant of a cursor asks whether its node runs, not how that is said. *)
LEMMA FollowedSame ==
  ASSUME NEW tail, NEW e, NEW t, NEW r, NEW l, NEW busy, Followed(tail, e, t, r, l, busy),
         NEW busy2, busy <=> busy2
  PROVE  Followed(tail, e, t, r, l, busy2)
  BY DEF Followed, At

(* A run that starts, and one that ends.                                   *)
LEMMA RunStarts ==
  ASSUME NEW run \in Seq(Nodes), NEW n \in Nodes, ~Contains(run, n),
         \A i, j \in 1..Len(run) : run[i] = run[j] => i = j
  PROVE  /\ Append(run, n) \in Seq(Nodes)
         /\ \A i, j \in 1..Len(Append(run, n)) : Append(run, n)[i] = Append(run, n)[j] => i = j
         /\ \A i \in 1..Len(Append(run, n)) : Append(run, n)[i] = n \/ \E j \in 1..Len(run) : Append(run, n)[i] = run[j]
         /\ \A m : Contains(Append(run, n), m) <=> Contains(run, m) \/ m = n
<1> DEFINE w == Append(run, n)
           L == Len(run)
<1>1. /\ w \in Seq(Nodes) /\ Len(w) = L + 1 /\ L \in Nat /\ w[L + 1] = n
      /\ \A i \in DOMAIN run : w[i] = run[i]
  BY ONLY AppendIs, run \in Seq(Nodes), n \in Nodes
<1>2. \A i \in 1..L : run[i] # n
  BY DEF Contains
<1>3. \A i, j \in 1..L : run[i] = run[j] => i = j
  OBVIOUS
<1>4. DOMAIN run = 1..L
  BY run \in Seq(Nodes)
<1> HIDE DEF w, L
<1>5. \A i \in 1..L : w[i] = run[i] /\ i \in 1..(L + 1)
  BY ONLY <1>1, <1>4
<1>6. \A i \in 1..(L + 1) : i \in 1..L \/ i = L + 1
  BY ONLY <1>1
<1>7. \A i, j \in 1..(L + 1) : w[i] = w[j] => i = j
  BY ONLY <1>1, <1>2, <1>3, <1>5, <1>6
<1>8. \A i \in 1..(L + 1) : w[i] = n \/ \E j \in 1..L : w[i] = run[j]
  BY ONLY <1>1, <1>5, <1>6
<1>9. \A m : (\E i \in 1..(L + 1) : w[i] = m) <=> (\E i \in 1..L : run[i] = m) \/ m = n
  <2>1. L + 1 \in 1..(L + 1)
    BY ONLY <1>1
  <2> QED
    BY ONLY <1>1, <1>5, <1>6, <2>1
<1> QED
  BY ONLY <1>1, <1>7, <1>8, <1>9 DEF w, L, Contains

(* The innermost run ends. *)
LEMMA RunEnds ==
  ASSUME NEW run \in Seq(Nodes), run # <<>>, \A i, j \in 1..Len(run) : run[i] = run[j] => i = j
  PROVE  /\ Front(run) \in Seq(Nodes) /\ Contains(run, Last(run)) /\ Last(run) \in Nodes
         /\ \A i, j \in 1..Len(Front(run)) : Front(run)[i] = Front(run)[j] => i = j
         /\ \A i \in 1..Len(Front(run)) : \E j \in 1..Len(run) : Front(run)[i] = run[j]
         /\ \A m : Contains(Front(run), m) <=> Contains(run, m) /\ m # Last(run)
<1> DEFINE w == Front(run)
           L == Len(run)
           n == Last(run)
<1>1. /\ w \in Seq(Nodes) /\ Len(w) = L - 1 /\ L - 1 \in Nat /\ n = run[L] /\ L \in 1..L /\ n \in Nodes
      /\ \A i \in 1..(L - 1) : w[i] = run[i] /\ i \in 1..L
  BY ONLY FrontIs, run \in Seq(Nodes), run # <<>>
<1>2. \A i, j \in 1..L : run[i] = run[j] => i = j
  OBVIOUS
<1> HIDE DEF w, L, n
<1>3. \A i \in 1..L : i \in 1..(L - 1) \/ i = L
  BY ONLY <1>1
<1>4. L \notin 1..(L - 1)
  BY ONLY <1>1
<1>5. \A m : (\E i \in 1..(L - 1) : w[i] = m) <=> (\E i \in 1..L : run[i] = m) /\ m # n
  BY ONLY <1>1, <1>2, <1>3, <1>4
<1>6. \A i, j \in 1..(L - 1) : w[i] = w[j] => i = j
  BY ONLY <1>1, <1>2
<1> QED
  BY ONLY <1>1, <1>5, <1>6 DEF w, L, n, Contains

-----------------------------------------------------------------------------
(* The steps, as functions of a sound pool and its histories.  The graph   *)
(* that a pool stands for: the sources of each list.                       *)
Edges(h, D, m) == IF m \in Here(h) THEN {Sources(h, D[m])[i] : i \in 1..Len(D[m])} ELSE {}

(* A pool without links.                                                   *)
LEMMA SoundFirst ==
  ASSUME NEW h, NEW nd \in [Nodes -> {NoLinks, None}], h = [links |-> <<>>, free |-> <<>>, node |-> nd],
         NEW rd, rd = [n \in Nodes |-> <<>>], NEW D, D = [n \in Here(h) |-> <<>>]
  PROVE  Sound(h, D, D, <<>>, rd, rd)
<1>1. NoLinks \in Ends /\ NoLinks # None
  <2>1. NoLinks \in Ends
    BY DEF NoLinks, Ends, Pointer
  <2> QED
    BY <2>1, NoneIs
<1>2. h \in HeapT
  <2>1. nd \in [Nodes -> Ends \cup {None}]
    BY <1>1
  <2> QED
    BY <2>1 DEF HeapT
<1>3. Live(h) = {} /\ FreeOK(h)
  BY DEF Live, FreeOK
<1>4. \A n \in Here(h) : h.node[n] = NoLinks /\ n \in Nodes
  BY DEF Here
<1>5. /\ DepLists(h, Live(h), D) /\ SubLists(h, Live(h), D) /\ SubTails(h, Here(h), D)
  <2>1. D \in [Here(h) -> Seq({})] /\ \A n \in Here(h) : Len(D[n]) = 0
    OBVIOUS
  <2>2. \A n \in Here(h) : h.node[n].deps = None /\ h.node[n].subs = None /\ h.node[n].subsTail = None
    BY <1>4 DEF NoLinks
  <2>3. DepLists(h, {}, D)
    BY ONLY <2>1, <2>2 DEF DepLists, Lists
  <2>4. SubLists(h, {}, D)
    BY ONLY <2>1, <2>2 DEF SubLists, Lists
  <2>5. SubTails(h, Here(h), D)
    BY ONLY <2>1, <2>2 DEF SubTails, LastOf
  <2> QED
    BY <1>3, <2>3, <2>4, <2>5
<1>6. Pool(h, D, D)
  BY ONLY <1>2, <1>3, <1>5 DEF Pool
<1>7. Histories(h, <<>>, rd, rd)
  BY DEF Histories
<1>8. ASSUME NEW n \in Here(h)
      PROVE  Followed(h.node[n].depsTail, Sources(h, D[n]), D[n], rd[n], rd[n], Contains(<<>>, n))
  <2>1. h.node[n].depsTail = None /\ D[n] = <<>> /\ rd[n] = <<>>
    BY <1>4 DEF NoLinks
  <2>2. ~Contains(<<>>, n) /\ 0 \in 0..Len(<<>>) /\ Len(<<>>) = 0
    BY DEF Contains
  <2>3. Record(Sources(h, <<>>), 0, <<>>)
    BY RecordStart
  <2>4. At(0, None, Sources(h, <<>>), <<>>, <<>>, <<>>, Contains(<<>>, n))
    BY ONLY <2>2, <2>3 DEF At, Before
  <2> QED
    BY ONLY <2>1, <2>2, <2>4 DEF Followed
<1> QED
  BY ONLY <1>6, <1>7, <1>8 DEF Sound

(* new_node.                                                               *)
Creates(h, D, S, run, rd, lr, n, g, D2, S2) ==
  /\ Sound(h, D, S, run, rd, lr) /\ n \in Nodes \ Here(h)
  /\ g = [links |-> h.links, free |-> h.free, node |-> [h.node EXCEPT ![n] = NoLinks]]
  /\ D2 = [m \in Here(h) \cup {n} |-> IF m = n THEN <<>> ELSE D[m]]
  /\ S2 = [m \in Here(h) \cup {n} |-> IF m = n THEN <<>> ELSE S[m]]

(* The invariant holds, with no new edge. *)
LEMMA CreatesIs ==
  ASSUME NEW h, NEW D, NEW S, NEW run, NEW rd, NEW lr, NEW n, NEW g, NEW D2, NEW S2,
         Creates(h, D, S, run, rd, lr, n, g, D2, S2)
  PROVE  /\ Sound(g, D2, S2, run, rd, lr)
         /\ Here(g) = Here(h) \cup {n} /\ \A m \in Nodes : Edges(g, D2, m) = Edges(h, D, m)
<1>h. /\ Pool(h, D, S) /\ Histories(h, run, rd, lr) /\ n \in Nodes \ Here(h)
      /\ \A m \in Here(h) :
           Followed(h.node[m].depsTail, Sources(h, D[m]), D[m], rd[m], lr[m], Contains(run, m))
  BY DEF Creates, Sound
<1>e. /\ g = [links |-> h.links, free |-> h.free, node |-> [h.node EXCEPT ![n] = NoLinks]]
      /\ D2 = [m \in Here(h) \cup {n} |-> IF m = n THEN <<>> ELSE D[m]]
      /\ S2 = [m \in Here(h) \cup {n} |-> IF m = n THEN <<>> ELSE S[m]]
  BY DEF Creates
<1>1. /\ Pool(g, D2, S2) /\ Here(g) = Here(h) \cup {n} /\ g.links = h.links
      /\ g.node[n].depsTail = None /\ \A m \in Here(h) : g.node[m] = h.node[m]
  <2>1. Joins(h, D, S, n, g, D2, S2)
    BY ONLY <1>h, <1>e DEF Joins
  <2> QED
    BY ONLY <2>1, Created
<1>2. D2[n] = <<>> /\ \A m \in Here(h) : m # n /\ D2[m] = D[m] /\ Sources(g, D[m]) = Sources(h, D[m])
  BY ONLY <1>h, <1>e, <1>1 DEF Sources
<1>3. Histories(g, run, rd, lr)
  BY ONLY <1>h, <1>1 DEF Histories
<1>4. ASSUME NEW m \in Here(g)
      PROVE  Followed(g.node[m].depsTail, Sources(g, D2[m]), D2[m], rd[m], lr[m], Contains(run, m))
  <2>1. CASE m = n
    <3>1. rd[n] = <<>> /\ ~Contains(run, n)
      BY ONLY <1>h DEF Histories, Contains
    <3>2. Record(Sources(g, <<>>), 0, <<>>) /\ 0 \in 0..Len(<<>>) /\ Len(<<>>) = 0
      BY RecordStart
    <3>3. At(0, None, Sources(g, <<>>), <<>>, <<>>, lr[n], Contains(run, n))
      BY ONLY <3>1, <3>2 DEF At, Before
    <3> QED
      BY ONLY <1>1, <1>2, <2>1, <3>1, <3>2, <3>3 DEF Followed
  <2>2. CASE m # n
    BY ONLY <1>h, <1>1, <1>2, <2>2, m \in Here(g)
  <2> QED
    BY <2>1, <2>2
<1>5. ASSUME NEW m \in Nodes PROVE Edges(g, D2, m) = Edges(h, D, m)
  <2>1. CASE m = n
    <3>1. {Sources(g, D2[n])[i] : i \in 1..Len(D2[n])} = {}
      BY <1>2
    <3> QED
      BY ONLY <1>h, <1>1, <2>1, <3>1 DEF Edges
  <2>2. CASE m # n
    BY ONLY <1>1, <1>2, <2>2 DEF Edges
  <2> QED
    BY <2>1, <2>2
<1> QED
  BY ONLY <1>1, <1>3, <1>4, <1>5 DEF Sound

(* start_tracking.                                                         *)
Starts(h, D, S, run, rd, lr, n, g, run2, rd2, lr2) ==
  /\ Sound(h, D, S, run, rd, lr) /\ n \in Here(h) /\ ~Contains(run, n)
  /\ g = SetEnd(h, n, "depsTail", None) /\ run2 = Append(run, n)
  /\ lr2 = [lr EXCEPT ![n] = rd[n]] /\ rd2 = [rd EXCEPT ![n] = <<>>]

(* The invariant holds: the links of the last run wait after the cursor. *)
LEMMA StartsIs ==
  ASSUME NEW h, NEW D, NEW S, NEW run, NEW rd, NEW lr, NEW n, NEW g, NEW run2, NEW rd2, NEW lr2,
         Starts(h, D, S, run, rd, lr, n, g, run2, rd2, lr2)
  PROVE  /\ Sound(g, D, S, run2, rd2, lr2)
         /\ Here(g) = Here(h) /\ \A m \in Nodes : Edges(g, D, m) = Edges(h, D, m)
<1>h. /\ Pool(h, D, S) /\ Histories(h, run, rd, lr) /\ n \in Here(h) /\ ~Contains(run, n)
      /\ \A m \in Here(h) :
           Followed(h.node[m].depsTail, Sources(h, D[m]), D[m], rd[m], lr[m], Contains(run, m))
  BY DEF Starts, Sound
<1>e. /\ g = SetEnd(h, n, "depsTail", None) /\ run2 = Append(run, n)
      /\ lr2 = [lr EXCEPT ![n] = rd[n]] /\ rd2 = [rd EXCEPT ![n] = <<>>]
  BY DEF Starts
<1>0. /\ n \in Nodes /\ run \in Seq(Nodes) /\ rd \in [Nodes -> Seq(Nodes)] /\ lr \in [Nodes -> Seq(Nodes)]
      /\ \A i, j \in 1..Len(run) : run[i] = run[j] => i = j
      /\ \A i \in 1..Len(run) : run[i] \in Here(h)
      /\ \A m \in Nodes \ Here(h) : rd[m] = <<>>
  BY ONLY <1>h DEF Histories, Here
<1>1. /\ Pool(g, D, S) /\ Here(g) = Here(h) /\ g.links = h.links
      /\ \A m \in Here(h) : g.node[m].depsTail = IF m = n THEN None ELSE h.node[m].depsTail
  <2>1. None \in Pointer
    BY DEF Pointer
  <2> QED
    BY ONLY <1>h, <1>e, <2>1, CursorMoved
<1>2. \A m \in Here(h) : Sources(g, D[m]) = Sources(h, D[m])
  BY ONLY <1>1 DEF Sources
<1>3. /\ run2 \in Seq(Nodes) /\ \A i, j \in 1..Len(run2) : run2[i] = run2[j] => i = j
      /\ \A i \in 1..Len(run2) : run2[i] = n \/ \E j \in 1..Len(run) : run2[i] = run[j]
      /\ \A m : Contains(run2, m) <=> Contains(run, m) \/ m = n
  BY ONLY <1>h, <1>0, <1>e, RunStarts, SMTT(30)
<1>4. /\ rd2 \in [Nodes -> Seq(Nodes)] /\ lr2 \in [Nodes -> Seq(Nodes)]
      /\ \A m \in Nodes : rd2[m] = (IF m = n THEN <<>> ELSE rd[m]) /\ lr2[m] = (IF m = n THEN rd[n] ELSE lr[m])
  <2>1. <<>> \in Seq(Nodes) /\ rd[n] \in Seq(Nodes)
    BY <1>0
  <2> QED
    BY ONLY <1>0, <1>e, <2>1
<1>5. Histories(g, run2, rd2, lr2)
  BY ONLY <1>h, <1>0, <1>1, <1>3, <1>4 DEF Histories
<1>6. ASSUME NEW m \in Here(g)
      PROVE  Followed(g.node[m].depsTail, Sources(g, D[m]), D[m], rd2[m], lr2[m], Contains(run2, m))
  <2>1. CASE m = n
    <3> DEFINE t == D[n]
               e == Sources(h, t)
    <3>1. PICK k \in 0..Len(t) : At(k, h.node[n].depsTail, e, t, rd[n], lr[n], Contains(run, n))
      BY ONLY <1>h DEF Followed
    <3>2. k = Len(t) /\ Record(e, k, rd[n])
      BY ONLY <1>h, <3>1 DEF At
    <3>3. Len(e) = Len(t) /\ Len(t) \in Nat /\ Len(rd[n]) \in Nat
      <4>1. Len(t) \in Nat
        BY <1>h, DepListIs
      <4> QED
        BY <1>0, <4>1 DEF Sources
    <3> HIDE DEF t, e
    <3>4. Rerun(e, 0, <<>>, rd[n])
      BY ONLY <3>2, <3>3, RerunStart
    <3>5. Record(e, 0, <<>>) /\ Late(e, 0, <<>>)
      BY RecordStart
    <3>6. At(0, None, e, t, <<>>, rd[n], Contains(run2, n)) /\ 0 \in 0..Len(t)
      BY ONLY <1>3, <3>3, <3>4, <3>5 DEF At, Before
    <3> QED
      BY ONLY <1>h, <1>0, <1>1, <1>2, <1>4, <2>1, <3>6 DEF Followed, t, e
  <2>2. CASE m # n
    <3>1. Followed(h.node[m].depsTail, Sources(h, D[m]), D[m], rd[m], lr[m], Contains(run, m))
      BY ONLY <1>h, <1>1, m \in Here(g)
    <3>2. Contains(run, m) <=> Contains(run2, m)
      BY ONLY <1>3, <2>2
    <3>3. Followed(h.node[m].depsTail, Sources(h, D[m]), D[m], rd[m], lr[m], Contains(run2, m))
      BY ONLY <3>1, <3>2, FollowedSame
    <3>4. m \in Here(h) /\ m \in Nodes
      BY <1>1 DEF Here
    <3> QED
      BY ONLY <1>1, <1>2, <1>4, <2>2, <3>3, <3>4
  <2> QED
    BY <2>1, <2>2
<1>7. \A m \in Nodes : Edges(g, D, m) = Edges(h, D, m)
  BY ONLY <1>1, <1>2 DEF Edges
<1> QED
  BY ONLY <1>1, <1>5, <1>6, <1>7 DEF Sound

(* A running closure, of node n, reads d.                                  *)
Looks(h, D, S, run, rd, lr, n, d, r2, rd2) ==
  /\ Sound(h, D, S, run, rd, lr) /\ n \in Here(h) /\ d \in Here(h) /\ Contains(run, n)
  /\ ReadTo(rd[n], d, r2) /\ rd2 = [rd EXCEPT ![n] = r2]

(* Whatever it does to the links, it is sound for the nodes that only look *)
(* on.                                                                     *)
Turns(h, D, g, D2, S2, n, lr, r2) ==
  /\ Pool(g, D2, S2) /\ Here(g) = Here(h)
  /\ \A m \in Here(h) : m # n =>
       /\ D2[m] = D[m] /\ g.node[m].depsTail = h.node[m].depsTail
       /\ Sources(g, D[m]) = Sources(h, D[m])
  /\ Followed(g.node[n].depsTail, Sources(g, D2[n]), D2[n], r2, lr[n], TRUE)

(* The invariant holds if it does for the node that reads. *)
LEMMA ReadIs ==
  ASSUME NEW h, NEW D, NEW S, NEW run, NEW rd, NEW lr, NEW n, NEW d, NEW r2, NEW rd2,
         Looks(h, D, S, run, rd, lr, n, d, r2, rd2),
         NEW g, NEW D2, NEW S2, Turns(h, D, g, D2, S2, n, lr, r2)
  PROVE  /\ Sound(g, D2, S2, run, rd2, lr)
         /\ \A m \in Nodes : m # n => Edges(g, D2, m) = Edges(h, D, m)
<1>h. /\ Pool(h, D, S) /\ Histories(h, run, rd, lr) /\ n \in Here(h) /\ d \in Here(h) /\ Contains(run, n)
      /\ \A m \in Here(h) :
           Followed(h.node[m].depsTail, Sources(h, D[m]), D[m], rd[m], lr[m], Contains(run, m))
      /\ ReadTo(rd[n], d, r2) /\ rd2 = [rd EXCEPT ![n] = r2]
  BY DEF Looks, Sound
<1>t. /\ Pool(g, D2, S2) /\ Here(g) = Here(h)
      /\ \A m \in Here(h) : m # n =>
           /\ D2[m] = D[m] /\ g.node[m].depsTail = h.node[m].depsTail
           /\ Sources(g, D[m]) = Sources(h, D[m])
      /\ Followed(g.node[n].depsTail, Sources(g, D2[n]), D2[n], r2, lr[n], TRUE)
  BY DEF Turns
<1>0. n \in Nodes /\ \A m \in Here(h) : m \in Nodes
  BY ONLY <1>h DEF Here
<1>1. rd2 \in [Nodes -> Seq(Nodes)] /\ \A m \in Nodes : rd2[m] = IF m = n THEN r2 ELSE rd[m]
  <2>1. rd \in [Nodes -> Seq(Nodes)]
    BY ONLY <1>h DEF Histories
  <2>2. r2 \in Seq(Nodes)
    BY ONLY <1>h, ReadToIs
  <2> QED
    BY ONLY <1>h, <1>0, <2>1, <2>2
<1>2. Histories(g, run, rd2, lr)
  BY ONLY <1>h, <1>t, <1>0, <1>1 DEF Histories
<1>3. ASSUME NEW m \in Here(g)
      PROVE  Followed(g.node[m].depsTail, Sources(g, D2[m]), D2[m], rd2[m], lr[m], Contains(run, m))
  <2>1. CASE m = n
    <3>1. Followed(g.node[n].depsTail, Sources(g, D2[n]), D2[n], r2, lr[n], Contains(run, n))
      BY ONLY <1>h, <1>t, FollowedSame
    <3> QED
      BY ONLY <1>0, <1>1, <2>1, <3>1
  <2>2. CASE m # n
    <3>1. m \in Here(h) /\ m \in Nodes
      BY ONLY <1>t, <1>0, m \in Here(g)
    <3> QED
      BY ONLY <1>h, <1>t, <1>1, <2>2, <3>1
  <2> QED
    BY <2>1, <2>2
<1>4. \A m \in Nodes : m # n => Edges(g, D2, m) = Edges(h, D, m)
  BY ONLY <1>t, ZenonT(30) DEF Edges
<1> QED
  BY ONLY <1>t, <1>2, <1>3, <1>4 DEF Sound

(* The history of a read has one more source.                              *)
LEMMA ReadSet ==
  ASSUME NEW r, NEW d, NEW r2, ReadTo(r, d, r2)
  PROVE  {r2[i] : i \in 1..Len(r2)} = {r[i] : i \in 1..Len(r)} \cup {d}
<1>1. /\ Len(r2) \in Nat /\ Len(r) \in Nat /\ Len(r2) # 0 /\ r2[Len(r2)] = d
      /\ \A i \in 1..Len(r) : r2[i] = r[i] /\ i \in 1..Len(r2)
      /\ \A i \in 1..Len(r2) : (i \in 1..Len(r) /\ r2[i] = r[i]) \/ (i = Len(r) + 1 /\ r2[i] = d)
  BY ReadToIs
<1>2. Len(r2) \in 1..Len(r2)
  BY ONLY <1>1
<1> QED
  BY ONLY <1>1, <1>2

(* Where the cursor of a running closure is.                               *)
LEMMA CursorIs ==
  ASSUME NEW h, NEW D, NEW S, NEW run, NEW rd, NEW lr, NEW n, NEW d, NEW r2, NEW rd2,
         Looks(h, D, S, run, rd, lr, n, d, r2, rd2)
  PROVE  \E k \in 0..Len(D[n]) :
           /\ h.node[n].depsTail = Before(D[n], k) /\ Record(Sources(h, D[n]), k, rd[n])
           /\ Late(Sources(h, D[n]), k, rd[n]) /\ Rerun(Sources(h, D[n]), k, rd[n], lr[n])
<1>1. Followed(h.node[n].depsTail, Sources(h, D[n]), D[n], rd[n], lr[n], Contains(run, n))
  BY DEF Looks, Sound
<1>2. Contains(run, n)
  BY DEF Looks
<1> QED
  BY ONLY <1>1, <1>2 DEF Followed, At

(* A source is read that has a link up to the cursor: nothing moves.       *)
LEMMA AgainIs ==
  ASSUME NEW h, NEW D, NEW S, NEW run, NEW rd, NEW lr, NEW n, NEW d, NEW r2, NEW rd2,
         Looks(h, D, S, run, rd, lr, n, d, r2, rd2),
         NEW k \in 0..Len(D[n]), h.node[n].depsTail = Before(D[n], k), Record(Sources(h, D[n]), k, rd[n]),
         Late(Sources(h, D[n]), k, rd[n]), Rerun(Sources(h, D[n]), k, rd[n], lr[n]),
         NEW i \in 1..k, h.links[D[n][i]].dep = d
  PROVE  Sound(h, D, S, run, rd2, lr) /\ d \in Edges(h, D, n)
<1> DEFINE e == Sources(h, D[n])
           r == rd[n]
           l == lr[n]
<1>1. Pool(h, D, S) /\ n \in Here(h) /\ ReadTo(r, d, r2) /\ Len(D[n]) \in Nat /\ Len(l) \in Nat
  <2>1. Pool(h, D, S) /\ n \in Here(h) /\ ReadTo(r, d, r2) /\ Histories(h, run, rd, lr)
    BY DEF Looks, Sound
  <2>2. n \in Nodes /\ lr \in [Nodes -> Seq(Nodes)]
    BY ONLY <2>1 DEF Histories, Here
  <2>3. Len(D[n]) \in Nat
    BY ONLY <2>1, DepListIs
  <2> QED
    BY ONLY <2>1, <2>2, <2>3
<1>2. i \in 1..Len(D[n]) /\ e[i] = d /\ k # 0
  <2>1. i \in 1..Len(D[n]) /\ k # 0
    BY ONLY <1>1, k \in 0..Len(D[n]), i \in 1..k
  <2> QED
    BY ONLY <2>1, h.links[D[n][i]].dep = d DEF Sources
<1>3. Record(e, k, r) /\ Late(e, k, r) /\ Rerun(e, k, r, l)
  OBVIOUS
<1>e. Edges(h, D, n) = {e[j] : j \in 1..Len(D[n])}
  BY ONLY <1>1 DEF Edges
<1> HIDE DEF e, r, l
<1>4. Record(e, k, r2) /\ (Len(r2) = Len(r) + 1 => Twice(r2, d))
  BY ONLY <1>1, <1>2, <1>3, i \in 1..k, RecordAgain
<1>5. Late(e, k, r2)
  <2>1. /\ r2[Len(r2)] = d /\ \A x : Twice(r, x) => Twice(r2, x)
        /\ Len(r2) = Len(r) => Len(r) # 0 /\ r[Len(r)] = d
        /\ Len(r2) = Len(r) \/ Len(r2) = Len(r) + 1
    BY ONLY <1>1, ReadToIs
  <2> QED
    BY ONLY <2>1, <1>2, <1>3, <1>4 DEF Late
<1>6. Rerun(e, k, r2, l)
  BY ONLY <1>1, <1>3, <1>4, RerunAgain
<1>7. Turns(h, D, h, D, S, n, lr, r2)
  <2>1. Followed(h.node[n].depsTail, e, D[n], r2, l, TRUE)
    BY <1>4, <1>5, <1>6 DEF Followed, At
  <2> QED
    BY ONLY <1>1, <2>1 DEF Turns, e, l
<1>8. Sound(h, D, S, run, rd2, lr)
  BY <1>7, ReadIs
<1> QED
  BY ONLY <1>2, <1>8, <1>e

(* The link after the cursor is that of the source that is read: the       *)
(* cursor moves to it.                                                     *)
Reuses(h, D, S, run, rd, lr, n, d, r2, rd2, k, g) ==
  /\ Looks(h, D, S, run, rd, lr, n, d, r2, rd2)
  /\ k \in 0..Len(D[n]) /\ h.node[n].depsTail = Before(D[n], k) /\ Record(Sources(h, D[n]), k, rd[n])
  /\ Late(Sources(h, D[n]), k, rd[n]) /\ Rerun(Sources(h, D[n]), k, rd[n], lr[n])
  /\ ~(k # 0 /\ h.links[D[n][k]].dep = d)
  /\ k # Len(D[n]) /\ h.links[D[n][k + 1]].dep = d
  /\ g = SetEnd(h, n, "depsTail", D[n][k + 1])

(* The invariant holds, and the edge was there. *)
LEMMA ReusesIs ==
  ASSUME NEW h, NEW D, NEW S, NEW run, NEW rd, NEW lr, NEW n, NEW d, NEW r2, NEW rd2, NEW k, NEW g,
         Reuses(h, D, S, run, rd, lr, n, d, r2, rd2, k, g)
  PROVE  /\ Sound(g, D, S, run, rd2, lr) /\ d \in Edges(h, D, n)
         /\ Here(g) = Here(h) /\ \A m \in Nodes : Edges(g, D, m) = Edges(h, D, m)
<1> DEFINE t == D[n]
           e == Sources(h, t)
           r == rd[n]
           l == lr[n]
<1>h. /\ Looks(h, D, S, run, rd, lr, n, d, r2, rd2)
      /\ k \in 0..Len(t) /\ h.node[n].depsTail = Before(t, k) /\ Record(e, k, r)
      /\ Late(e, k, r) /\ Rerun(e, k, r, l)
      /\ ~(k # 0 /\ h.links[t[k]].dep = d)
      /\ k # Len(t) /\ h.links[t[k + 1]].dep = d
      /\ g = SetEnd(h, n, "depsTail", t[k + 1])
  BY DEF Reuses
<1>1. Pool(h, D, S) /\ n \in Here(h) /\ ReadTo(r, d, r2) /\ Len(t) \in Nat /\ Len(l) \in Nat
      /\ \A i \in 1..Len(t) : t[i] \in Live(h)
  <2>1. Pool(h, D, S) /\ n \in Here(h) /\ ReadTo(r, d, r2) /\ Histories(h, run, rd, lr)
    BY ONLY <1>h DEF Looks, Sound
  <2>2. n \in Nodes /\ lr \in [Nodes -> Seq(Nodes)]
    BY ONLY <2>1 DEF Histories, Here
  <2>3. Len(D[n]) \in Nat /\ \A i \in 1..Len(t) : t[i] \in Live(h)
    BY ONLY <2>1, DepListIs
  <2> QED
    BY ONLY <2>1, <2>2, <2>3
<1>2. Len(e) = Len(t) /\ \A i \in 1..Len(t) : e[i] = h.links[t[i]].dep
  BY ONLY <1>1 DEF Sources
<1>3. k \in Nat /\ k + 1 \in 1..Len(t) /\ k + 1 \in 0..Len(t) /\ (k # 0 => k \in 1..Len(t)) /\ k + 1 # 0
  BY ONLY <1>h, <1>1
<1>4. Pointer = (Nat \ {0}) \cup {None} /\ t[k + 1] \in Pointer
  <2>1. t[k + 1] \in Nat \ {0}
    BY <1>1, <1>3 DEF Pool, HeapT, Live
  <2> QED
    BY <2>1 DEF Pointer
<1>5. /\ Pool(g, D, S) /\ Here(g) = Here(h) /\ g.links = h.links
      /\ \A m \in Here(h) : g.node[m].depsTail = IF m = n THEN t[k + 1] ELSE h.node[m].depsTail
  <2> DEFINE x == t[k + 1]
  <2>1. x \in Pointer /\ g = SetEnd(h, n, "depsTail", x) /\ Pool(h, D, S) /\ n \in Here(h)
    BY ONLY <1>h, <1>1, <1>4
  <2> HIDE DEF x
  <2>2. /\ Pool(g, D, S) /\ Here(g) = Here(h) /\ g.links = h.links
        /\ \A m \in Here(h) : g.node[m].depsTail = IF m = n THEN x ELSE h.node[m].depsTail
    BY ONLY <2>1, CursorMoved
  <2> QED
    BY <2>2 DEF x
<1>6. \A m \in Here(h) : Sources(g, D[m]) = Sources(h, D[m])
  BY ONLY <1>5 DEF Sources
<1>e. d \in Edges(h, D, n)
  <2>1. e[k + 1] = d
    BY ONLY <1>h, <1>2, <1>3
  <2>2. Edges(h, D, n) = {e[i] : i \in 1..Len(t)}
    BY ONLY <1>1 DEF Edges
  <2> HIDE DEF e, t
  <2> QED
    BY ONLY <2>1, <2>2, <1>3
<1> HIDE DEF e, r, l, t
<1>7. Record(e, k + 1, r2) /\ Late(e, k + 1, r2)
  <2>1. Moves(e, e, k, r, d, r2)
    BY ONLY <1>h, <1>1, <1>2, <1>3 DEF Moves
  <2> QED
    BY ONLY <2>1, RecordMoves
<1>8. Rerun(e, k + 1, r2, l)
  <2>1. ~(k # 0 /\ e[k] = d)
    BY ONLY <1>h, <1>2, <1>3
  <2> QED
    BY ONLY <1>h, <1>1, <2>1, RerunReuse
<1>9. Turns(h, D, g, D, S, n, lr, r2)
  <2>1. Before(t, k + 1) = t[k + 1]
    BY ONLY <1>3 DEF Before
  <2>2. Followed(g.node[n].depsTail, e, t, r2, l, TRUE)
    BY ONLY <1>1, <1>3, <1>5, <1>7, <1>8, <2>1 DEF Followed, At
  <2> QED
    BY ONLY <1>1, <1>5, <1>6, <2>2 DEF Turns, e, l, t
<1>10. Sound(g, D, S, run, rd2, lr)
  BY ONLY <1>h, <1>9, ReadIs
<1>11. \A m \in Nodes : Edges(g, D, m) = Edges(h, D, m)
  BY ONLY <1>5, <1>6 DEF Edges
<1> QED
  BY ONLY <1>10, <1>5, <1>11, <1>e

(* There is no link to use again: a new one goes behind the cursor.        *)
News(h, D, S, run, rd, lr, n, d, r2, rd2, k, new, g, D2, S2) ==
  /\ Looks(h, D, S, run, rd, lr, n, d, r2, rd2)
  /\ k \in 0..Len(D[n]) /\ h.node[n].depsTail = Before(D[n], k) /\ Record(Sources(h, D[n]), k, rd[n])
  /\ Late(Sources(h, D[n]), k, rd[n]) /\ Rerun(Sources(h, D[n]), k, rd[n], lr[n])
  /\ ~(k # 0 /\ h.links[D[n][k]].dep = d)
  /\ ~(k # Len(D[n]) /\ h.links[D[n][k + 1]].dep = d)
  /\ Adds(h, g, new, n, d, Before(D[n], k), After(D[n], k), LastOf(S[d]))
  /\ D2 = [D EXCEPT ![n] = With(D[n], k, new)]
  /\ S2 = [S EXCEPT ![d] = With(S[d], Len(S[d]), new)]

(* The invariant holds, there is one more edge, and the run differs from the one
   before. *)
LEMMA NewsIs ==
  ASSUME NEW h, NEW D, NEW S, NEW run, NEW rd, NEW lr, NEW n, NEW d, NEW r2, NEW rd2, NEW k, NEW new, NEW g,
         NEW D2, NEW S2, News(h, D, S, run, rd, lr, n, d, r2, rd2, k, new, g, D2, S2)
  PROVE  /\ Sound(g, D2, S2, run, rd2, lr) /\ ~Repeats(r2, lr[n])
         /\ Here(g) = Here(h) /\ Edges(g, D2, n) = Edges(h, D, n) \cup {d}
         /\ \A m \in Nodes : m # n => Edges(g, D2, m) = Edges(h, D, m)
<1> DEFINE t == D[n]
           e == Sources(h, t)
           r == rd[n]
           l == lr[n]
           t2 == With(t, k, new)
           f == Sources(g, t2)
           prev == Before(t, k)
           next == After(t, k)
           last == LastOf(S[d])
<1>h. /\ Looks(h, D, S, run, rd, lr, n, d, r2, rd2)
      /\ k \in 0..Len(t) /\ h.node[n].depsTail = prev /\ Record(e, k, r)
      /\ Late(e, k, r) /\ Rerun(e, k, r, l)
      /\ ~(k # 0 /\ h.links[t[k]].dep = d)
      /\ ~(k # Len(t) /\ h.links[t[k + 1]].dep = d)
      /\ Adds(h, g, new, n, d, prev, next, last)
      /\ D2 = [D EXCEPT ![n] = t2] /\ S2 = [S EXCEPT ![d] = With(S[d], Len(S[d]), new)]
  BY DEF News
<1>1. /\ Pool(h, D, S) /\ n \in Here(h) /\ d \in Here(h) /\ ReadTo(r, d, r2) /\ Len(l) \in Nat
      /\ h \in HeapT /\ FreeOK(h)
  <2>1. Pool(h, D, S) /\ n \in Here(h) /\ d \in Here(h) /\ ReadTo(r, d, r2) /\ Histories(h, run, rd, lr)
    BY ONLY <1>h DEF Looks, Sound
  <2>2. n \in Nodes /\ lr \in [Nodes -> Seq(Nodes)]
    BY ONLY <2>1 DEF Histories, Here
  <2> QED
    BY ONLY <2>1, <2>2 DEF Pool
<1>2. /\ t \in Seq(Live(h)) /\ Len(t) \in Nat /\ \A i \in 1..Len(t) : t[i] \in Live(h)
      /\ \A i, j \in 1..Len(t) : t[i] = t[j] => i = j
  BY ONLY <1>1, DepListIs
<1>3. Len(e) = Len(t) /\ \A i \in 1..Len(t) : e[i] = h.links[t[i]].dep
  BY ONLY <1>2 DEF Sources
<1>4. k \in Nat /\ (k # 0 => k \in 1..Len(t)) /\ (k # Len(t) => k + 1 \in 1..Len(t)) /\ k + 1 # 0
      /\ (k = Len(t) => k + 1 \notin 1..Len(t))
  BY ONLY <1>h, <1>2
<1>5. prev \in Live(h) \cup {None} /\ next \in Live(h) \cup {None} /\ last \in Live(h) \cup {None}
  <2>1. prev \in Live(h) \cup {None} /\ next \in Live(h) \cup {None}
    BY ONLY <1>2, <1>4 DEF Before, After
  <2>2. S[d] \in Seq(Live(h)) /\ Len(S[d]) \in Nat
    BY ONLY <1>1, SubListIs
  <2>3. last \in Live(h) \cup {None}
    BY ONLY <2>2 DEF LastOf
  <2> QED
    BY ONLY <2>1, <2>3
<1>6. Added(h, g, new, n, d, prev, next, last)
  <2> HIDE DEF prev, next, last
  <2> QED
    BY ONLY <1>h, <1>1, <1>5, AddedIs
<1>7. Pool(g, D2, S2)
  BY ONLY <1>h, <1>1, <1>6, NewIs
<1>8. /\ Here(g) = Here(h) /\ new \notin Live(h) /\ g.links[new].dep = d
      /\ \A c \in Live(h) : g.links[c].dep = h.links[c].dep
      /\ \A m \in Here(h) : g.node[m].depsTail = IF m = n THEN new ELSE h.node[m].depsTail
  BY ONLY <1>6 DEF Added
<1>9. D2[n] = t2 /\ \A m \in Here(h) : m # n => D2[m] = D[m]
  <2>1. D = [m \in Here(h) |-> DepLinks(h, m)]
    BY ONLY <1>1, ListsFound
  <2> QED
    BY ONLY <2>1, <1>h, <1>1
<1>10. /\ Len(t2) = Len(t) + 1
       /\ \A i \in 1..(Len(t) + 1) : t2[i] = IF i <= k THEN t[i] ELSE IF i = k + 1 THEN new ELSE t[i - 1]
  <2>1. Adding(Live(h), t, k, new, Live(h) \cup {new})
    BY ONLY <1>h, <1>2, <1>8 DEF Adding
  <2> QED
    BY ONLY <2>1, WithIs
<1>11. \A i \in 1..(Len(t) + 1) : f[i] = g.links[t2[i]].dep
  BY ONLY <1>10 DEF Sources
<1>f. Len(f) = Len(t) + 1
  BY ONLY <1>10, <1>2 DEF Sources
<1>e. /\ Edges(h, D, n) = {e[i] : i \in 1..Len(t)}
      /\ Edges(g, D2, n) = {f[i] : i \in 1..(Len(t) + 1)}
  BY ONLY <1>1, <1>8, <1>9, <1>10 DEF Edges
<1> HIDE DEF e, f, t, t2, r, l, prev, next, last
<1>12. /\ \A i \in 1..k : i \in 1..Len(t) /\ i \in 1..(Len(t) + 1) /\ i <= k
       /\ k + 1 \in 1..(Len(t) + 1) /\ ~(k + 1 <= k)
       /\ \A i \in 1..Len(t) : ~(i <= k) => i + 1 \in 1..(Len(t) + 1) /\ ~(i + 1 <= k) /\ i + 1 # k + 1 /\ (i + 1) - 1 = i
       /\ \A i \in 1..(Len(t) + 1) : i <= k => i \in 1..Len(t)
       /\ \A i \in 1..(Len(t) + 1) : ~(i <= k) /\ i # k + 1 => i - 1 \in 1..Len(t)
       /\ \A i \in 1..Len(t) : i \in 1..(Len(t) + 1)
  BY ONLY <1>h, <1>2, <1>4
<1>13. /\ \A i \in 1..k : f[i] = e[i]
       /\ f[k + 1] = d
  BY ONLY <1>2, <1>3, <1>8, <1>10, <1>11, <1>12
<1>14. \A i \in 1..Len(t) : \E j \in 1..(Len(t) + 1) : f[j] = e[i]
  <2> SUFFICES ASSUME NEW i \in 1..Len(t) PROVE \E j \in 1..(Len(t) + 1) : f[j] = e[i]
    OBVIOUS
  <2>1. CASE i <= k
    <3>1. i \in 1..k
      BY <2>1, <1>2, <1>4
    <3> QED
      BY ONLY <3>1, <1>12, <1>13
  <2>2. CASE ~(i <= k)
    <3>1. t2[i + 1] = t[i] /\ i + 1 \in 1..(Len(t) + 1)
      BY ONLY <2>2, <1>10, <1>12, i \in 1..Len(t)
    <3>2. f[i + 1] = e[i]
      BY ONLY <3>1, <1>2, <1>3, <1>8, <1>11, i \in 1..Len(t)
    <3> QED
      BY ONLY <3>1, <3>2
  <2> QED
    BY <2>1, <2>2
<1>15. \A i \in 1..(Len(t) + 1) : f[i] = d \/ \E j \in 1..Len(t) : f[i] = e[j]
  <2> SUFFICES ASSUME NEW i \in 1..(Len(t) + 1), i # k + 1 PROVE \E j \in 1..Len(t) : f[i] = e[j]
    BY <1>13
  <2>1. \E j \in 1..Len(t) : t2[i] = t[j]
    BY ONLY <1>10, <1>12, i \in 1..(Len(t) + 1), i # k + 1
  <2> QED
    BY ONLY <2>1, <1>2, <1>3, <1>8, <1>11, i \in 1..(Len(t) + 1)
<1>16. Record(f, k + 1, r2) /\ Late(f, k + 1, r2)
  <2>1. Moves(e, f, k, r, d, r2)
    BY ONLY <1>h, <1>1, <1>3, <1>4, <1>13 DEF Moves
  <2> QED
    BY ONLY <2>1, RecordMoves
<1>17. Rerun(f, k + 1, r2, l) /\ ~Repeats(r2, l)
  <2>1. ~(k # 0 /\ e[k] = d)
    BY ONLY <1>h, <1>3, <1>4
  <2>2. ~(k + 1 \in 1..Len(e) /\ e[k + 1] = d)
    BY ONLY <1>h, <1>3, <1>4
  <2>3. \A i \in 1..Len(e) : \E j \in 1..Len(f) : f[j] = e[i]
    BY ONLY <1>3, <1>f, <1>14
  <2> QED
    BY ONLY <1>h, <1>1, <2>1, <2>2, <2>3, RerunNew
<1>18. \A m \in Here(h) : m # n => Sources(g, D[m]) = Sources(h, D[m])
  <2> SUFFICES ASSUME NEW m \in Here(h) PROVE Sources(g, D[m]) = Sources(h, D[m])
    OBVIOUS
  <2>1. \A i \in 1..Len(D[m]) : D[m][i] \in Live(h)
    BY ONLY <1>1, m \in Here(h), DepListIs
  <2>2. \A i \in 1..Len(D[m]) : g.links[D[m][i]].dep = h.links[D[m][i]].dep
    BY ONLY <2>1, <1>8
  <2> QED
    BY ONLY <2>2, SourcesSame
<1>19. Turns(h, D, g, D2, S2, n, lr, r2)
  <2>1. Before(t2, k + 1) = new /\ k + 1 \in 0..Len(t2)
    <3>1. t2[k + 1] = new /\ k + 1 \in 0..Len(t2)
      BY ONLY <1>10, <1>12, <1>2
    <3> QED
      BY ONLY <3>1, <1>4 DEF Before
  <2>2. Followed(g.node[n].depsTail, f, t2, r2, l, TRUE)
    BY ONLY <1>1, <1>8, <1>16, <1>17, <2>1 DEF Followed, At
  <2>3. Followed(g.node[n].depsTail, Sources(g, D2[n]), D2[n], r2, lr[n], TRUE)
    BY ONLY <2>2, <1>9 DEF f, l
  <2> QED
    BY ONLY <1>7, <1>8, <1>9, <1>18, <2>3 DEF Turns
<1>20. /\ Sound(g, D2, S2, run, rd2, lr)
       /\ \A m \in Nodes : m # n => Edges(g, D2, m) = Edges(h, D, m)
  <2>1. Looks(h, D, S, run, rd, lr, n, d, r2, rd2)
    BY <1>h
  <2> QED
    BY ONLY <1>19, <2>1, ReadIs
<1>21. Edges(g, D2, n) = Edges(h, D, n) \cup {d}
  <2>1. d \in Edges(g, D2, n)
    BY ONLY <1>e, <1>12, <1>13
  <2>2. \A x \in Edges(h, D, n) : x \in Edges(g, D2, n)
    BY ONLY <1>e, <1>14
  <2>3. \A x \in Edges(g, D2, n) : x = d \/ x \in Edges(h, D, n)
    BY ONLY <1>e, <1>15
  <2> QED
    BY <2>1, <2>2, <2>3
<1> QED
  BY ONLY <1>8, <1>17, <1>20, <1>21 DEF l

(* end_tracking.                                                           *)
Finishes(h, D, S, run, rd, lr, n, run2, g, k, D2) ==
  /\ Sound(h, D, S, run, rd, lr) /\ run # <<>> /\ n = Last(run) /\ run2 = Front(run)
  /\ Trims(h, n, D, k, g, D2) /\ Record(Sources(h, D[n]), k, rd[n])

(* The invariant holds, and the edges of n are what the run has read. *)
LEMMA FinishesIs ==
  ASSUME NEW h, NEW D, NEW S, NEW run, NEW rd, NEW lr, NEW n, NEW run2, NEW g, NEW k, NEW D2,
         Finishes(h, D, S, run, rd, lr, n, run2, g, k, D2)
  PROVE  /\ \E S2 : Sound(g, D2, S2, run2, rd, lr)
         /\ Here(g) = Here(h) /\ Len(g.free) >= Len(h.free) /\ DOMAIN g.links = DOMAIN h.links
         /\ Edges(g, D2, n) = {rd[n][i] : i \in 1..Len(rd[n])}
         /\ \A m \in Nodes : m # n => Edges(g, D2, m) = Edges(h, D, m)
<1>h. /\ Pool(h, D, S) /\ Histories(h, run, rd, lr) /\ run # <<>> /\ n = Last(run) /\ run2 = Front(run)
      /\ \A m \in Here(h) :
           Followed(h.node[m].depsTail, Sources(h, D[m]), D[m], rd[m], lr[m], Contains(run, m))
      /\ Trims(h, n, D, k, g, D2) /\ Record(Sources(h, D[n]), k, rd[n])
  BY DEF Finishes, Sound
<1>t. n \in Here(h) /\ k \in 0..Len(D[n]) /\ h.node[n].depsTail = Before(D[n], k)
      /\ D2 = [D EXCEPT ![n] = FirstOf(D[n], k)]
  BY ONLY <1>h DEF Trims
<1>1. /\ \E S2 : Pool(g, D2, S2)
      /\ Here(g) = Here(h) /\ Len(g.free) >= Len(h.free) /\ DOMAIN g.links = DOMAIN h.links
      /\ \A c \in Live(g) : c \in Live(h) /\ g.links[c].dep = h.links[c].dep
      /\ \A m \in Here(h) : g.node[m].depsTail = h.node[m].depsTail
  <2>1. Pool(h, D, S) /\ Trims(h, n, D, k, g, D2)
    BY ONLY <1>h
  <2> QED
    BY ONLY <2>1, EndedIs
<1>2. PICK S2 : Pool(g, D2, S2)
  BY ONLY <1>1
<1> DEFINE t == D[n]
           t2 == FirstOf(t, k)
           e == Sources(h, t)
           f == Sources(g, t2)
           r == rd[n]
<1>3. D2[n] = t2 /\ \A m \in Here(h) : m # n => D2[m] = D[m]
  <2>1. D = [m \in Here(h) |-> DepLinks(h, m)]
    BY ONLY <1>h, ListsFound
  <2> QED
    BY ONLY <2>1, <1>h, <1>t
<1>4. t \in Seq(Live(h)) /\ Len(t) \in Nat
  BY ONLY <1>h, <1>t, DepListIs
<1>5. Len(t2) = k /\ k \in Nat /\ \A i \in 1..k : t2[i] = t[i] /\ i \in 1..Len(t)
  <2>1. Len(t2) = k /\ \A i \in 1..k : t2[i] = t[i] /\ i \in 1..Len(t)
    BY ONLY <1>t, <1>4, FirstOfIs
  <2> QED
    BY ONLY <2>1, <1>t
<1>6. \A i \in 1..k : t2[i] \in Live(g)
  <2>1. \A i \in 1..Len(D2[n]) : D2[n][i] \in Live(g)
    <3>1. n \in Here(g)
      BY ONLY <1>1, <1>t
    <3> QED
      BY ONLY <1>2, <3>1, DepListIs
  <2> QED
    BY ONLY <2>1, <1>3, <1>5
<1>7. Len(f) = k /\ \A i \in 1..k : f[i] = e[i]
  <2>1. Len(f) = k /\ \A i \in 1..k : f[i] = g.links[t2[i]].dep
    BY ONLY <1>5 DEF Sources
  <2>2. \A i \in 1..k : e[i] = h.links[t[i]].dep
    BY ONLY <1>5 DEF Sources
  <2> QED
    BY ONLY <2>1, <2>2, <1>1, <1>5, <1>6
<1>8. Record(f, k, r)
  BY ONLY <1>h, <1>7, RecordSame
<1>e. Edges(g, D2, n) = {f[i] : i \in 1..k}
  BY ONLY <1>1, <1>t, <1>3, <1>5 DEF Edges
<1>9. \A m \in Here(h) : m # n => Sources(g, D[m]) = Sources(h, D[m])
  <2> SUFFICES ASSUME NEW m \in Here(h), m # n PROVE Sources(g, D[m]) = Sources(h, D[m])
    OBVIOUS
  <2>1. \A i \in 1..Len(D2[m]) : D2[m][i] \in Live(g)
    BY ONLY <1>1, <1>2, m \in Here(h), DepListIs
  <2>2. \A i \in 1..Len(D[m]) : D[m][i] \in Live(g)
    BY <2>1, <1>3
  <2>3. \A i \in 1..Len(D[m]) : g.links[D[m][i]].dep = h.links[D[m][i]].dep
    BY ONLY <2>2, <1>1
  <2> QED
    BY ONLY <2>3, SourcesSame
<1>10. /\ run2 \in Seq(Nodes) /\ \A i, j \in 1..Len(run2) : run2[i] = run2[j] => i = j
       /\ \A i \in 1..Len(run2) : \E j \in 1..Len(run) : run2[i] = run[j]
       /\ \A m : Contains(run2, m) <=> Contains(run, m) /\ m # n
  <2>1. run \in Seq(Nodes) /\ \A i, j \in 1..Len(run) : run[i] = run[j] => i = j
    BY ONLY <1>h DEF Histories
  <2> QED
    BY ONLY <1>h, <2>1, RunEnds
<1>11. Histories(g, run2, rd, lr)
  BY ONLY <1>h, <1>1, <1>10 DEF Histories
<1> HIDE DEF t, t2, e, f, r
<1>12. ASSUME NEW m \in Here(g)
       PROVE  Followed(g.node[m].depsTail, Sources(g, D2[m]), D2[m], rd[m], lr[m], Contains(run2, m))
  <2>1. CASE m = n
    <3>1. Before(t2, k) = Before(t, k)
      <4>1. k # 0 => k \in 1..k
        BY ONLY <1>5
      <4> QED
        BY ONLY <4>1, <1>5 DEF Before
    <3>2. ~Contains(run2, n) /\ k \in 0..Len(t2)
      BY ONLY <1>5, <1>10
    <3>3. h.node[n].depsTail = Before(t, k)
      BY ONLY <1>t DEF t
    <3>4. Followed(g.node[n].depsTail, f, t2, r, lr[n], Contains(run2, n))
      BY ONLY <1>t, <1>1, <1>5, <1>8, <3>1, <3>2, <3>3 DEF Followed, At
    <3> QED
      BY ONLY <3>4, <2>1, <1>3 DEF f, r
  <2>2. CASE m # n
    <3>1. m \in Here(h)
      BY <1>1
    <3>2. Followed(h.node[m].depsTail, Sources(h, D[m]), D[m], rd[m], lr[m], Contains(run, m))
      BY ONLY <1>h, <3>1
    <3>3. Contains(run, m) <=> Contains(run2, m)
      BY ONLY <1>10, <2>2
    <3>4. Followed(h.node[m].depsTail, Sources(h, D[m]), D[m], rd[m], lr[m], Contains(run2, m))
      BY ONLY <3>2, <3>3, FollowedSame
    <3> QED
      BY ONLY <1>1, <1>3, <1>9, <2>2, <3>1, <3>4
  <2> QED
    BY <2>1, <2>2
<1>13. Sound(g, D2, S2, run2, rd, lr)
  BY ONLY <1>2, <1>11, <1>12 DEF Sound
<1>14. Edges(g, D2, n) = {r[i] : i \in 1..Len(r)}
  BY ONLY <1>e, <1>8, SMTT(30) DEF Record
<1>15. \A m \in Nodes : m # n => Edges(g, D2, m) = Edges(h, D, m)
  BY ONLY <1>1, <1>3, <1>9 DEF Edges
<1> QED
  BY ONLY <1>1, <1>13, <1>14, <1>15 DEF r

(* A history without the node stays as it is.                              *)
LEMMA WithoutSame ==
  ASSUME NEW s \in Seq(Nodes), NEW n, \A j \in 1..Len(s) : s[j] # n
  PROVE  Without(s, n) = s
<1> DEFINE w == Without(s, n)
<1>1. w \in Seq(Nodes) /\ Kept(s, n, Len(s), w)
  BY WithoutIs
<1> HIDE DEF w
<1>2. Len(w) = Len(s) /\ \A i \in 1..Len(s) : w[i] = s[i]
  BY <1>1 DEF Kept
<1>3. w = s
  <2>1. Len(s) \in Nat /\ w = [i \in 1..Len(w) |-> w[i]] /\ s = [i \in 1..Len(s) |-> s[i]]
    BY <1>1
  <2> QED
    BY ONLY <1>2, <2>1
<1> QED
  BY <1>3 DEF w

(* dispose_node: the node is not running, and no closure that runs depends *)
(* on it.                                                                  *)
Goes(h, D, S, run, rd, lr, n, g, rd2, lr2) ==
  /\ Sound(h, D, S, run, rd, lr) /\ n \in Here(h) /\ ~Contains(run, n)
  /\ \A m \in Here(h) : Contains(run, m) => \A i \in 1..Len(D[m]) : h.links[D[m][i]].dep # n
  /\ g = [DetachSubs(ClearDeps(h, n), n) EXCEPT !.node[n] = None]
  /\ rd2 = [m \in Nodes |-> IF m = n THEN <<>> ELSE Without(rd[m], n)]
  /\ lr2 = [m \in Nodes |-> IF m = n THEN <<>> ELSE Without(lr[m], n)]

(* The lists that are left have the sources that are left.                 *)
Remnant(h, D, n, g, D2, S2) ==
  /\ Pool(g, D2, S2) /\ Here(g) = Here(h) \ {n}
  /\ \A c \in Live(g) : c \in Live(h) /\ g.links[c].dep = h.links[c].dep /\ g.links[c].sub = h.links[c].sub
  /\ \A c \in Live(h) : h.links[c].dep # n /\ h.links[c].sub # n => c \in Live(g)
  /\ \A m \in Here(g) : Within(D2[m], D[m])

(* What is left of the list of m, and of its history. *)
LEMMA RemnantIs ==
  ASSUME NEW h, NEW D, NEW S, NEW n, NEW g, NEW D2, NEW S2, Pool(h, D, S), Remnant(h, D, n, g, D2, S2),
         NEW m \in Here(g), NEW r, r \in Seq(Nodes), NEW e, e = Sources(h, D[m]), NEW e2, e2 = Sources(g, D2[m])
  PROVE  /\ Record(e, Len(e), r) => Remains(e, e2, r, n)
         /\ Len(e) = Len(D[m]) /\ Len(e2) = Len(D2[m])
         /\ \A i \in 1..Len(e2) : e2[i] # n /\ \E a \in 1..Len(e) : e[a] = e2[i]
         /\ \A a \in 1..Len(e) : e[a] # n => \E i \in 1..Len(e2) : e2[i] = e[a]
<1>r. /\ Pool(g, D2, S2) /\ Here(g) = Here(h) \ {n} /\ Pool(h, D, S) /\ r \in Seq(Nodes)
      /\ \A c \in Live(g) : c \in Live(h) /\ g.links[c].dep = h.links[c].dep /\ g.links[c].sub = h.links[c].sub
      /\ \A c \in Live(h) : h.links[c].dep # n /\ h.links[c].sub # n => c \in Live(g)
      /\ \A x \in Here(g) : Within(D2[x], D[x])
  BY DEF Remnant
<1>m. m \in Here(g) /\ m \in Here(h) /\ m # n
  BY ONLY <1>r, m \in Here(g)
<1> DEFINE t == D[m]
           u == D2[m]
<1>1. /\ Len(t) \in Nat
      /\ \A i \in 1..Len(t) : t[i] \in Live(h) /\ h.links[t[i]].sub = m
      /\ \A c \in Live(h) : h.links[c].sub = m => \E i \in 1..Len(t) : t[i] = c
  BY ONLY <1>r, <1>m, DepListIs
<1>2. /\ Len(u) \in Nat
      /\ \A i \in 1..Len(u) : u[i] \in Live(g) /\ g.links[u[i]].sub = m
      /\ \A c \in Live(g) : g.links[c].sub = m => \E i \in 1..Len(u) : u[i] = c
  BY ONLY <1>r, <1>m, DepListIs
<1>3. Len(e) = Len(t) /\ \A i \in 1..Len(t) : e[i] = h.links[t[i]].dep
  BY ONLY <1>1, e = Sources(h, t) DEF Sources
<1>4. Len(e2) = Len(u) /\ \A i \in 1..Len(u) : e2[i] = g.links[u[i]].dep
  BY ONLY <1>2, e2 = Sources(g, u) DEF Sources
<1>5. \A c \in Live(g) : g.links[c].dep \in Here(g)
  <2> SUFFICES ASSUME NEW c \in Live(g) PROVE g.links[c].dep \in Here(g)
    OBVIOUS
  <2> DEFINE own == [x \in Live(g) |-> g.links[x].dep]
  <2>1. own[c] \in Here(g)
    BY <1>r, Neighbours DEF Pool, SubLists
  <2> QED
    BY <2>1
<1>w. \A i, j \in 1..Len(u) : i < j => \E a, b \in 1..Len(t) : a < b /\ t[a] = u[i] /\ t[b] = u[j]
  BY <1>r, <1>m DEF Within
<1> HIDE DEF t, u
<1>6. \A i \in 1..Len(u) : e2[i] # n /\ \E a \in 1..Len(t) : e[a] = e2[i]
  <2> SUFFICES ASSUME NEW i \in 1..Len(u) PROVE e2[i] # n /\ \E a \in 1..Len(t) : e[a] = e2[i]
    OBVIOUS
  <2>1. u[i] \in Live(g) /\ u[i] \in Live(h) /\ h.links[u[i]].sub = m
        /\ e2[i] = g.links[u[i]].dep /\ g.links[u[i]].dep = h.links[u[i]].dep
    BY ONLY <1>r, <1>2, <1>4, i \in 1..Len(u)
  <2>2. g.links[u[i]].dep # n
    BY ONLY <1>r, <1>5, <2>1
  <2>3. PICK a \in 1..Len(t) : t[a] = u[i]
    BY ONLY <1>1, <2>1
  <2>4. e[a] = h.links[t[a]].dep
    BY ONLY <1>3, a \in 1..Len(t)
  <2>5. e[a] = e2[i]
    BY ONLY <2>1, <2>3, <2>4
  <2> QED
    BY ONLY <2>1, <2>2, <2>5, a \in 1..Len(t)
<1>7. \A a \in 1..Len(t) : e[a] # n => \E i \in 1..Len(u) : e2[i] = e[a]
  <2> SUFFICES ASSUME NEW a \in 1..Len(t), e[a] # n PROVE \E i \in 1..Len(u) : e2[i] = e[a]
    OBVIOUS
  <2>1. t[a] \in Live(h) /\ h.links[t[a]].dep # n /\ h.links[t[a]].sub = m /\ e[a] = h.links[t[a]].dep
    BY ONLY <1>1, <1>3, a \in 1..Len(t), e[a] # n
  <2>2. t[a] \in Live(g)
    BY ONLY <1>r, <1>m, <2>1
  <2>3. g.links[t[a]].sub = m /\ g.links[t[a]].dep = h.links[t[a]].dep
    BY ONLY <1>r, <2>1, <2>2
  <2>4. PICK i \in 1..Len(u) : u[i] = t[a]
    BY ONLY <1>2, <2>2, <2>3
  <2>5. e2[i] = g.links[u[i]].dep
    BY ONLY <1>4, i \in 1..Len(u)
  <2>6. e2[i] = e[a]
    BY ONLY <2>1, <2>3, <2>4, <2>5
  <2> QED
    BY ONLY <2>6, i \in 1..Len(u)
<1>8. \A i, j \in 1..Len(u) : i < j => \E a, b \in 1..Len(t) : a < b /\ e[a] = e2[i] /\ e[b] = e2[j]
  <2> SUFFICES ASSUME NEW i \in 1..Len(u), NEW j \in 1..Len(u), i < j
               PROVE  \E a, b \in 1..Len(t) : a < b /\ e[a] = e2[i] /\ e[b] = e2[j]
    OBVIOUS
  <2>1. PICK a, b \in 1..Len(t) : a < b /\ t[a] = u[i] /\ t[b] = u[j]
    BY ONLY <1>w, i \in 1..Len(u), j \in 1..Len(u), i < j
  <2>2. ASSUME NEW x \in 1..Len(t), NEW y \in 1..Len(u), t[x] = u[y] PROVE e[x] = e2[y]
    <3>1. u[y] \in Live(g) /\ e2[y] = g.links[u[y]].dep
      BY ONLY <1>2, <1>4, y \in 1..Len(u)
    <3>2. e[x] = h.links[t[x]].dep
      BY ONLY <1>3, x \in 1..Len(t)
    <3> QED
      BY ONLY <1>r, <2>2, <3>1, <3>2
  <2> QED
    BY ONLY <2>1, <2>2, i \in 1..Len(u), j \in 1..Len(u)
<1> QED
  BY ONLY <1>r, <1>1, <1>2, <1>3, <1>4, <1>6, <1>7, <1>8 DEF Remains, t, u

(* The invariant holds, without the edges from and to the node. *)
LEMMA GoesIs ==
  ASSUME NEW h, NEW D, NEW S, NEW run, NEW rd, NEW lr, NEW n, NEW g, NEW rd2, NEW lr2,
         Goes(h, D, S, run, rd, lr, n, g, rd2, lr2)
  PROVE  /\ Here(g) = Here(h) \ {n} /\ Len(g.free) >= Len(h.free) /\ DOMAIN g.links = DOMAIN h.links
         /\ \A m \in Nodes : Contains(run, m) => rd2[m] = rd[m] /\ \A j \in 1..Len(rd[m]) : rd[m][j] # n
         /\ \E D2, S2 : /\ Sound(g, D2, S2, run, rd2, lr2)
                        /\ \A m \in Nodes : Edges(g, D2, m) = IF m = n THEN {} ELSE Edges(h, D, m) \ {n}
<1>h. /\ Pool(h, D, S) /\ Histories(h, run, rd, lr) /\ n \in Here(h) /\ ~Contains(run, n)
      /\ \A m \in Here(h) :
           Followed(h.node[m].depsTail, Sources(h, D[m]), D[m], rd[m], lr[m], Contains(run, m))
      /\ \A m \in Here(h) : Contains(run, m) => \A i \in 1..Len(D[m]) : h.links[D[m][i]].dep # n
  BY DEF Goes, Sound
<1>e. /\ g = [DetachSubs(ClearDeps(h, n), n) EXCEPT !.node[n] = None]
      /\ rd2 = [m \in Nodes |-> IF m = n THEN <<>> ELSE Without(rd[m], n)]
      /\ lr2 = [m \in Nodes |-> IF m = n THEN <<>> ELSE Without(lr[m], n)]
  BY DEF Goes
<1>0. /\ run \in Seq(Nodes) /\ rd \in [Nodes -> Seq(Nodes)] /\ lr \in [Nodes -> Seq(Nodes)]
      /\ \A i, j \in 1..Len(run) : run[i] = run[j] => i = j
      /\ \A i \in 1..Len(run) : run[i] \in Here(h)
      /\ \A m \in Nodes \ Here(h) : rd[m] = <<>>
      /\ n \in Nodes /\ \A m \in Here(h) : m \in Nodes
  BY ONLY <1>h DEF Histories, Here
<1> DEFINE R == {m \in Here(h) : Contains(run, m)}
<1>1. DepTails(h, Here(h) \ R, D)
  <2> SUFFICES ASSUME NEW m \in Here(h), ~Contains(run, m) PROVE h.node[m].depsTail = LastOf(D[m])
    BY DEF DepTails
  <2>1. h.node[m].depsTail = Before(D[m], Len(D[m]))
    BY ONLY <1>h, m \in Here(h), ~Contains(run, m) DEF Followed, At
  <2> QED
    BY ONLY <2>1 DEF Before, LastOf
<1>2. Disposes(h, D, S, n, R, g)
  BY ONLY <1>h, <1>e, <1>1 DEF Disposes
<1>3. /\ R \subseteq Here(h) /\ n \notin R /\ \A m \in Here(h) : m \in R <=> Contains(run, m)
      /\ \A m : Contains(run, m) => m \in R
  BY ONLY <1>h, <1>0 DEF Contains
<1> HIDE DEF R
<1>4. /\ Here(g) = Here(h) \ {n} /\ Len(g.free) >= Len(h.free) /\ DOMAIN g.links = DOMAIN h.links
      /\ \A c \in Live(g) : c \in Live(h) /\ g.links[c].dep = h.links[c].dep /\ g.links[c].sub = h.links[c].sub
      /\ \A c \in Live(h) : h.links[c].dep # n /\ h.links[c].sub # n => c \in Live(g)
      /\ \E D2, S2 : /\ Pool(g, D2, S2) /\ DepTails(g, Here(g) \ R, D2)
                     /\ \A m \in R : D2[m] = D[m] /\ g.node[m].depsTail = h.node[m].depsTail
                     /\ \A m \in Here(g) : Within(D2[m], D[m])
  <2>1. Disposed(h, D, n, R, g)
    BY ONLY <1>2, DisposedIs
  <2> QED
    BY ONLY <2>1 DEF Disposed
<1>5. PICK D2, S2 : /\ Pool(g, D2, S2) /\ DepTails(g, Here(g) \ R, D2)
                    /\ \A m \in R : D2[m] = D[m] /\ g.node[m].depsTail = h.node[m].depsTail
                    /\ \A m \in Here(g) : Within(D2[m], D[m])
  BY ONLY <1>4
<1>6. Remnant(h, D, n, g, D2, S2)
  BY ONLY <1>4, <1>5 DEF Remnant
<1>7. \A m \in Nodes : rd2[m] = (IF m = n THEN <<>> ELSE Without(rd[m], n)) /\ rd2[m] \in Seq(Nodes)
                       /\ lr2[m] = (IF m = n THEN <<>> ELSE Without(lr[m], n)) /\ lr2[m] \in Seq(Nodes)
  <2> SUFFICES ASSUME NEW m \in Nodes
               PROVE  rd2[m] = (IF m = n THEN <<>> ELSE Without(rd[m], n)) /\ rd2[m] \in Seq(Nodes)
                      /\ lr2[m] = (IF m = n THEN <<>> ELSE Without(lr[m], n)) /\ lr2[m] \in Seq(Nodes)
    OBVIOUS
  <2>1. rd[m] \in Seq(Nodes) /\ lr[m] \in Seq(Nodes) /\ <<>> \in Seq(Nodes)
    BY ONLY <1>0, m \in Nodes
  <2>2. Without(rd[m], n) \in Seq(Nodes) /\ Without(lr[m], n) \in Seq(Nodes)
    BY ONLY <2>1, WithoutIs
  <2> QED
    BY ONLY <1>e, <2>1, <2>2, m \in Nodes
<1>8. rd2 \in [Nodes -> Seq(Nodes)] /\ lr2 \in [Nodes -> Seq(Nodes)]
  BY ONLY <1>e, <1>7
<1>9. ASSUME NEW m \in R
      PROVE  /\ rd2[m] = rd[m] /\ lr2[m] = lr[m] /\ \A j \in 1..Len(rd[m]) : rd[m][j] # n
             /\ m \in Here(g) /\ Sources(g, D2[m]) = Sources(h, D[m])
  <2> DEFINE e == Sources(h, D[m])
  <2>1. m \in Here(h) /\ m # n /\ Contains(run, m) /\ m \in Nodes /\ m \in Here(g)
    BY ONLY <1>0, <1>3, <1>4, m \in R
  <2>2. PICK k \in 0..Len(D[m]) : At(k, h.node[m].depsTail, e, D[m], rd[m], lr[m], Contains(run, m))
    BY ONLY <1>h, <2>1 DEF Followed
  <2>3. Record(e, k, rd[m]) /\ Rerun(e, k, rd[m], lr[m])
    BY ONLY <2>1, <2>2 DEF At
  <2>4. /\ Len(D[m]) \in Nat /\ Len(e) = Len(D[m]) /\ \A i \in 1..Len(D[m]) : e[i] # n
    <3>1. Len(D[m]) \in Nat
      BY ONLY <1>h, <2>1, DepListIs
    <3>2. \A i \in 1..Len(D[m]) : h.links[D[m][i]].dep # n
      BY ONLY <1>h, <2>1
    <3> QED
      BY ONLY <3>1, <3>2 DEF Sources
  <2>5. k \in 0..Len(D[m]) /\ \A i \in 1..k : i \in 1..Len(D[m])
    BY ONLY <2>4, k \in 0..Len(D[m])
  <2> HIDE DEF e
  <2>6. \A j \in 1..Len(rd[m]) : rd[m][j] # n
    <3>1. \A j \in 1..Len(rd[m]) : \E i \in 1..k : e[i] = rd[m][j]
      BY ONLY <2>3 DEF Record
    <3> QED
      BY ONLY <3>1, <2>4, <2>5
  <2>7. \A j \in 1..Len(lr[m]) : lr[m][j] # n
    <3>1. \A j \in 1..Len(lr[m]) : \E i \in 1..Len(e) : e[i] = lr[m][j]
      BY ONLY <2>3 DEF Rerun
    <3> QED
      BY ONLY <3>1, <2>4
  <2>8. rd[m] \in Seq(Nodes) /\ lr[m] \in Seq(Nodes)
    BY ONLY <1>0, <2>1
  <2>9. Without(rd[m], n) = rd[m] /\ Without(lr[m], n) = lr[m]
    BY ONLY <2>6, <2>7, <2>8, WithoutSame
  <2>10. Sources(g, D[m]) = Sources(h, D[m])
    <3>1. \A i \in 1..Len(D2[m]) : D2[m][i] \in Live(g)
      BY ONLY <1>5, <2>1, DepListIs
    <3>2. \A i \in 1..Len(D[m]) : D[m][i] \in Live(g)
      BY ONLY <3>1, <1>5, m \in R
    <3>3. \A i \in 1..Len(D[m]) : g.links[D[m][i]].dep = h.links[D[m][i]].dep
      BY ONLY <3>2, <1>4
    <3> QED
      BY ONLY <3>3, SourcesSame
  <2> QED
    BY ONLY <1>5, <1>7, <2>1, <2>6, <2>9, <2>10, m \in R
<1>10. Histories(g, run, rd2, lr2)
  <2>1. \A i \in 1..Len(run) : run[i] \in Here(g)
    BY ONLY <1>0, <1>h, <1>4 DEF Contains
  <2>2. ASSUME NEW m \in Nodes \ Here(g) PROVE rd2[m] = <<>>
    <3>1. CASE m = n
      BY ONLY <1>7, <3>1, m \in Nodes \ Here(g)
    <3>2. CASE m # n
      <4>1. rd[m] = <<>> /\ m \in Nodes
        BY ONLY <1>0, <1>4, <3>2, m \in Nodes \ Here(g)
      <4>2. <<>> \in Seq(Nodes) /\ \A j \in 1..Len(<<>>) : <<>>[j] # n
        OBVIOUS
      <4>3. Without(<<>>, n) = <<>>
        BY ONLY <4>2, WithoutSame
      <4> QED
        BY ONLY <1>7, <3>2, <4>1, <4>3
    <3> QED
      BY <3>1, <3>2
  <2> QED
    BY ONLY <1>0, <1>8, <2>1, <2>2 DEF Histories
<1>11. ASSUME NEW m \in Here(g)
       PROVE  Followed(g.node[m].depsTail, Sources(g, D2[m]), D2[m], rd2[m], lr2[m], Contains(run, m))
  <2>0. m \in Here(h) /\ m # n /\ m \in Nodes
    BY ONLY <1>0, <1>4, m \in Here(g)
  <2>1. CASE m \in R
    BY ONLY <1>h, <1>5, <1>9, <2>0, <2>1
  <2>2. CASE m \notin R
    <3> DEFINE e == Sources(h, D[m])
               e2 == Sources(g, D2[m])
               r == rd[m]
               t == D2[m]
    <3>1. ~Contains(run, m)
      BY ONLY <1>3, <2>2
    <3>2. Record(e, Len(D[m]), r)
      BY ONLY <1>h, <2>0, <3>1 DEF Followed, At
    <3>3. r \in Seq(Nodes)
      BY ONLY <1>0, <2>0
    <3>4. e = Sources(h, D[m]) /\ e2 = Sources(g, t)
      OBVIOUS
    <3>5. Len(t) \in Nat
      BY ONLY <1>5, m \in Here(g), DepListIs
    <3>6. rd2[m] = Without(r, n)
      BY ONLY <1>7, <2>0
    <3>7. g.node[m].depsTail = LastOf(t)
      BY ONLY <1>5, <2>2, m \in Here(g) DEF DepTails
    <3> HIDE DEF e, e2, r, t
    <3>8. /\ Record(e, Len(e), r) => Remains(e, e2, r, n)
          /\ Len(e) = Len(D[m]) /\ Len(e2) = Len(t)
      BY ONLY <1>h, <1>6, <3>3, <3>4, m \in Here(g), RemnantIs DEF t
    <3>9. Record(e2, Len(e2), Without(r, n))
      <4>1. Remains(e, e2, r, n)
        BY ONLY <3>2, <3>8
      <4> QED
        BY ONLY <4>1, RecordRemains
    <3>10. LastOf(t) = Before(t, Len(t)) /\ Len(t) \in 0..Len(t)
      BY ONLY <3>5 DEF LastOf, Before
    <3>11. Followed(LastOf(t), e2, t, Without(r, n), lr2[m], Contains(run, m))
      BY ONLY <3>1, <3>8, <3>9, <3>10 DEF Followed, At
    <3> QED
      BY ONLY <3>6, <3>7, <3>11 DEF e2, t
  <2> QED
    BY <2>1, <2>2
<1>12. Sound(g, D2, S2, run, rd2, lr2)
  BY ONLY <1>5, <1>10, <1>11 DEF Sound
<1>13. ASSUME NEW m \in Nodes PROVE Edges(g, D2, m) = IF m = n THEN {} ELSE Edges(h, D, m) \ {n}
  <2>1. CASE m \in Here(g)
    <3> DEFINE e == Sources(h, D[m])
               e2 == Sources(g, D2[m])
               r == rd[m]
    <3>1. m \in Here(h) /\ m # n /\ m \in Here(g)
      BY ONLY <1>4, <2>1
    <3>2. /\ Edges(g, D2, m) = {e2[i] : i \in 1..Len(D2[m])}
          /\ Edges(h, D, m) = {e[i] : i \in 1..Len(D[m])}
      BY ONLY <2>1, <3>1 DEF Edges
    <3>3. e = Sources(h, D[m]) /\ e2 = Sources(g, D2[m]) /\ r \in Seq(Nodes)
      BY <1>0
    <3> HIDE DEF e, e2, r
    <3>4. /\ Len(e) = Len(D[m]) /\ Len(e2) = Len(D2[m])
          /\ \A i \in 1..Len(e2) : e2[i] # n /\ \E a \in 1..Len(e) : e[a] = e2[i]
          /\ \A a \in 1..Len(e) : e[a] # n => \E i \in 1..Len(e2) : e2[i] = e[a]
      BY ONLY <1>h, <1>6, <3>1, <3>3, RemnantIs, SMTT(30)
    <3>5. \A x \in Edges(g, D2, m) : x # n /\ x \in Edges(h, D, m)
      BY ONLY <3>2, <3>4
    <3>6. \A x \in Edges(h, D, m) : x # n => x \in Edges(g, D2, m)
      BY ONLY <3>2, <3>4
    <3> QED
      BY ONLY <3>1, <3>5, <3>6
  <2>2. CASE m \notin Here(g)
    <3>1. Edges(g, D2, m) = {}
      BY ONLY <2>2 DEF Edges
    <3>2. m # n => Edges(h, D, m) = {}
      BY ONLY <1>4, <2>2 DEF Edges
    <3> QED
      BY ONLY <3>1, <3>2
  <2> QED
    BY <2>1, <2>2
<1>14. \A m \in Nodes : Contains(run, m) => rd2[m] = rd[m] /\ \A j \in 1..Len(rd[m]) : rd[m][j] # n
  BY ONLY <1>3, <1>9
<1> QED
  BY ONLY <1>4, <1>12, <1>13, <1>14

-----------------------------------------------------------------------------
(* The lists of the invariant are the only ones that there are.            *)
LEMMA Reached ==
  ASSUME NEW h, NEW D, NEW S, NEW run, NEW rd, NEW lr, Sound(h, D, S, run, rd, lr)
  PROVE  D = [n \in Here(h) |-> DepLinks(h, n)] /\ S = [n \in Here(h) |-> SubLinks(h, n)]
<1>1. Pool(h, D, S)
  BY DEF Sound
<1> QED
  BY ONLY <1>1, ListsFound

(* A step to a sound pool keeps the invariant.                             *)
LEMMA Arrives ==
  ASSUME \E D, S : Sound(Heap', D, S, running', reads', lastReads')
  PROVE  LinksInv'
<1>1. PICK D, S : Sound(Heap', D, S, running', reads', lastReads')
  OBVIOUS
<1>2. D = [n \in Here(Heap') |-> DepLinks(Heap', n)] /\ S = [n \in Here(Heap') |-> SubLinks(Heap', n)]
  BY ONLY <1>1, Reached
<1>3. D = Deps' /\ S = Subs'
  BY ONLY <1>2 DEF Deps, Subs
<1> QED
  BY ONLY <1>1, <1>3 DEF LinksInv

(* What the invariant says.                                                *)
LEMMA InvIs ==
  ASSUME LinksInv
  PROVE  /\ Sound(Heap, Deps, Subs, running, reads, lastReads) /\ Pool(Heap, Deps, Subs)
         /\ Alive = Here(Heap) /\ Heap \in HeapT
         /\ Heap.links = links /\ Heap.free = freeLinks /\ Heap.node = node
         /\ running \in Seq(Nodes) /\ reads \in [Nodes -> Seq(Nodes)] /\ lastReads \in [Nodes -> Seq(Nodes)]
         /\ \A i, j \in 1..Len(running) : running[i] = running[j] => i = j
         /\ \A i \in 1..Len(running) : running[i] \in Alive
         /\ \A n \in Nodes \ Alive : reads[n] = <<>>
         /\ \A n \in Alive : n \in Nodes
<1>1. Sound(Heap, Deps, Subs, running, reads, lastReads)
  BY DEF LinksInv
<1>2. Pool(Heap, Deps, Subs) /\ Histories(Heap, running, reads, lastReads)
  BY ONLY <1>1 DEF Sound
<1>3. Heap \in HeapT
  BY ONLY <1>2 DEF Pool
<1>4. Alive = Here(Heap) /\ Heap.links = links /\ Heap.free = freeLinks /\ Heap.node = node
  BY DEF Alive, Here, Heap
<1> QED
  BY ONLY <1>1, <1>2, <1>3, <1>4 DEF Histories, Here

(* Links between existing nodes: the graph that the pool stands for.       *)
Linked == [n \in Nodes |-> Edges(Heap, Deps, n)]

(* Create keeps the invariant. *)
LEMMA CreateStep ==
  ASSUME LinksInv, NEW n \in Nodes, Create(n)
  PROVE  LinksInv' /\ Alive' = Alive \cup {n} /\ n \notin Alive /\ Linked' = Linked
<1> DEFINE h == Heap
           g == Heap'
           D2 == [m \in Here(h) \cup {n} |-> IF m = n THEN <<>> ELSE Deps[m]]
           S2 == [m \in Here(h) \cup {n} |-> IF m = n THEN <<>> ELSE Subs[m]]
<1>1. Creates(h, Deps, Subs, running, reads, lastReads, n, g, D2, S2)
  <2>1. n \in Nodes \ Here(h)
    BY InvIs DEF Create, Alive
  <2>2. g = [links |-> h.links, free |-> h.free, node |-> [h.node EXCEPT ![n] = NoLinks]]
    BY DEF Create, Heap
  <2> QED
    BY <2>1, <2>2, InvIs DEF Creates
<1>2. /\ Sound(g, D2, S2, running, reads, lastReads)
      /\ Here(g) = Here(h) \cup {n} /\ \A m \in Nodes : Edges(g, D2, m) = Edges(h, Deps, m)
  <2> HIDE DEF h, g, D2, S2
  <2> QED
    BY ONLY <1>1, CreatesIs
<1>3. running' = running /\ reads' = reads /\ lastReads' = lastReads
  BY DEF Create
<1>4. LinksInv'
  <2> HIDE DEF D2, S2
  <2> QED
    BY ONLY <1>2, <1>3, Arrives
<1>5. Deps' = D2
  <2>1. D2 = [m \in Here(g) |-> DepLinks(g, m)]
    <3> HIDE DEF g, D2, S2
    <3> QED
      BY ONLY <1>2, Reached
  <2> QED
    BY ONLY <2>1 DEF Deps
<1>6. Linked' = Linked
  <2> HIDE DEF D2
  <2> QED
    BY ONLY <1>2, <1>5 DEF Linked
<1>7. Alive' = Alive \cup {n} /\ n \notin Alive
  <2>1. Here(Heap') = Here(Heap) \cup {n}
    BY ONLY <1>2
  <2>2. Alive' = Here(Heap') /\ Alive = Here(Heap)
    BY DEF Alive, Here, Heap
  <2> QED
    BY <2>1, <2>2 DEF Create, Alive
<1> QED
  BY <1>4, <1>6, <1>7

(* A step to a sound pool with the lists D2.                               *)
LEMMA Lands ==
  ASSUME NEW D2, NEW S2, Sound(Heap', D2, S2, running', reads', lastReads')
  PROVE  LinksInv' /\ Alive' = Here(Heap') /\ Linked' = [m \in Nodes |-> Edges(Heap', D2, m)]
<1>1. LinksInv'
  BY ONLY Sound(Heap', D2, S2, running', reads', lastReads'), Arrives
<1>2. D2 = [n \in Here(Heap') |-> DepLinks(Heap', n)]
  BY ONLY Sound(Heap', D2, S2, running', reads', lastReads'), Reached
<1>3. Deps' = D2
  BY ONLY <1>2 DEF Deps
<1>4. Alive' = Here(Heap')
  BY DEF Alive, Here, Heap
<1> QED
  BY ONLY <1>1, <1>3, <1>4 DEF Linked

(* StartTracking keeps it. *)
LEMMA StartStep ==
  ASSUME LinksInv, NEW n \in Nodes, StartTracking(n)
  PROVE  LinksInv' /\ Alive' = Alive /\ Linked' = Linked
<1> DEFINE h == Heap
           g == Heap'
<1>1. Starts(h, Deps, Subs, running, reads, lastReads, n, g, running', reads', lastReads')
  <2>1. n \in Here(h) /\ ~Contains(running, n) /\ h.node[n] # None
    BY InvIs DEF StartTracking, Alive
  <2>2. g = SetEnd(h, n, "depsTail", None)
    BY <2>1, InvIs DEF StartTracking, CursorReset, Heap, SetEnd
  <2>3. /\ running' = Append(running, n)
        /\ lastReads' = [lastReads EXCEPT ![n] = reads[n]] /\ reads' = [reads EXCEPT ![n] = <<>>]
    BY DEF StartTracking
  <2>4. Sound(h, Deps, Subs, running, reads, lastReads)
    BY InvIs
  <2> QED
    BY ONLY <2>1, <2>2, <2>3, <2>4 DEF Starts
<1>2. /\ Sound(g, Deps, Subs, running', reads', lastReads')
      /\ Here(g) = Here(h) /\ \A m \in Nodes : Edges(g, Deps, m) = Edges(h, Deps, m)
  <2> HIDE DEF h, g
  <2> QED
    BY ONLY <1>1, StartsIs
<1>3. LinksInv' /\ Alive' = Here(g) /\ Linked' = [m \in Nodes |-> Edges(g, Deps, m)]
  BY ONLY <1>2, Lands
<1>4. Alive = Here(h)
  BY InvIs
<1> QED
  BY ONLY <1>2, <1>3, <1>4 DEF Linked

(* The histories after a read.                                             *)
LEMMA ReadingIs ==
  ASSUME LinksInv, NEW sub \in Nodes, NEW dep \in Nodes, Reading(sub, dep)
  PROVE  /\ Looks(Heap, Deps, Subs, running, reads, lastReads, sub, dep, reads'[sub], reads')
         /\ sub \in Alive /\ dep \in Alive /\ running' = running /\ lastReads' = lastReads
         /\ sub = Last(running)
<1>1. /\ Sound(Heap, Deps, Subs, running, reads, lastReads) /\ reads \in [Nodes -> Seq(Nodes)]
      /\ Alive = Here(Heap) /\ running \in Seq(Nodes)
      /\ \A i, j \in 1..Len(running) : running[i] = running[j] => i = j
  BY InvIs
<1>2. /\ running # <<>> /\ sub = Last(running) /\ sub \in Alive /\ dep \in Alive
      /\ running' = running /\ lastReads' = lastReads
  BY DEF Reading
<1>3. Contains(running, sub)
  BY ONLY <1>1, <1>2, RunEnds
<1>4. Len(reads[sub]) # 0 <=> reads[sub] # <<>>
  BY ONLY <1>1, sub \in Nodes
<1>5. ReadTo(reads[sub], dep, reads'[sub]) /\ reads' = [reads EXCEPT ![sub] = reads'[sub]]
  <2>1. CASE reads[sub] # <<>> /\ Last(reads[sub]) = dep
    <3>1. reads' = reads
      BY <2>1 DEF Reading
    <3>2. reads[sub][Len(reads[sub])] = dep
      BY <2>1 DEF Last
    <3>3. reads[sub] \in Seq(Nodes) /\ reads = [reads EXCEPT ![sub] = reads[sub]]
      BY ONLY <1>1, sub \in Nodes
    <3> QED
      BY ONLY <1>4, <2>1, <3>1, <3>2, <3>3, dep \in Nodes DEF ReadTo
  <2>2. CASE ~(reads[sub] # <<>> /\ Last(reads[sub]) = dep)
    <3>1. reads' = [reads EXCEPT ![sub] = Append(@, dep)]
      BY <2>2 DEF Reading
    <3>2. reads[sub] \in Seq(Nodes) /\ reads'[sub] = Append(reads[sub], dep)
      BY ONLY <1>1, <3>1, sub \in Nodes
    <3>3. ~(Len(reads[sub]) # 0 /\ reads[sub][Len(reads[sub])] = dep)
      BY ONLY <1>4, <2>2 DEF Last
    <3> QED
      BY ONLY <3>1, <3>2, <3>3, dep \in Nodes DEF ReadTo
  <2> QED
    BY <2>1, <2>2
<1> QED
  BY ONLY <1>1, <1>2, <1>3, <1>5 DEF Looks

(* A closure reads, and its cursor is at the k-th link of its list.        *)
Stands(sub, dep, k) ==
  /\ Looks(Heap, Deps, Subs, running, reads, lastReads, sub, dep, reads'[sub], reads')
  /\ k \in 0..Len(Deps[sub]) /\ Heap.node[sub].depsTail = Before(Deps[sub], k)
  /\ Record(Sources(Heap, Deps[sub]), k, reads[sub]) /\ Late(Sources(Heap, Deps[sub]), k, reads[sub])
  /\ Rerun(Sources(Heap, Deps[sub]), k, reads[sub], lastReads[sub])

(* The list of an existing node, and its last k links.                     *)
LEMMA TheList ==
  ASSUME LinksInv, NEW n \in Alive
  PROVE  /\ Deps[n] = DepLinks(Heap, n) /\ Deps[n] \in Seq(Live(Heap)) /\ Len(Deps[n]) \in Nat
         /\ \A i, j \in 1..Len(Deps[n]) : Deps[n][i] = Deps[n][j] => i = j
         /\ \A i \in 1..Len(Deps[n]) :
              /\ Deps[n][i] \in Live(Heap) /\ Deps[n][i] # None /\ links[Deps[n][i]].sub = n
              /\ links[Deps[n][i]].prevDep = IF i = 1 THEN None ELSE Deps[n][i - 1]
              /\ links[Deps[n][i]].nextDep = IF i = Len(Deps[n]) THEN None ELSE Deps[n][i + 1]
         /\ node[n].deps = IF Len(Deps[n]) = 0 THEN None ELSE Deps[n][1]
         /\ \A c \in Live(Heap) : links[c].sub = n => \E i \in 1..Len(Deps[n]) : Deps[n][i] = c
<1>1. /\ Pool(Heap, Deps, Subs) /\ Alive = Here(Heap) /\ Heap.links = links /\ Heap.node = node
      /\ Heap \in HeapT
  BY InvIs
<1>2. n \in Here(Heap)
  BY <1>1
<1>3. Live(Heap) \subseteq Nat
  BY <1>1 DEF HeapT, Live
<1>4. None \notin Live(Heap)
  BY <1>3, NoneIs
<1>5. /\ Deps[n] \in Seq(Live(Heap)) /\ Len(Deps[n]) \in Nat
      /\ \A i, j \in 1..Len(Deps[n]) : Deps[n][i] = Deps[n][j] => i = j
      /\ \A i \in 1..Len(Deps[n]) :
           /\ Deps[n][i] \in Live(Heap) /\ Heap.links[Deps[n][i]].sub = n
           /\ Heap.links[Deps[n][i]].prevDep = IF i = 1 THEN None ELSE Deps[n][i - 1]
           /\ Heap.links[Deps[n][i]].nextDep = IF i = Len(Deps[n]) THEN None ELSE Deps[n][i + 1]
      /\ Heap.node[n].deps = IF Len(Deps[n]) = 0 THEN None ELSE Deps[n][1]
      /\ \A c \in Live(Heap) : Heap.links[c].sub = n => \E i \in 1..Len(Deps[n]) : Deps[n][i] = c
  BY ONLY <1>1, <1>2, DepListIs, SMTT(30)
<1>6. Deps[n] = DepLinks(Heap, n)
  BY <1>2 DEF Deps
<1> QED
  BY ONLY <1>1, <1>4, <1>5, <1>6

(* And its subscriber list.                                                *)
LEMMA TheSubs ==
  ASSUME LinksInv, NEW n \in Alive
  PROVE  /\ Subs[n] = SubLinks(Heap, n) /\ Subs[n] \in Seq(Live(Heap)) /\ Len(Subs[n]) \in Nat
         /\ \A i, j \in 1..Len(Subs[n]) : Subs[n][i] = Subs[n][j] => i = j
         /\ \A i \in 1..Len(Subs[n]) :
              /\ Subs[n][i] \in Live(Heap) /\ Subs[n][i] # None /\ links[Subs[n][i]].dep = n
              /\ links[Subs[n][i]].prevSub = IF i = 1 THEN None ELSE Subs[n][i - 1]
              /\ links[Subs[n][i]].nextSub = IF i = Len(Subs[n]) THEN None ELSE Subs[n][i + 1]
         /\ node[n].subs = IF Len(Subs[n]) = 0 THEN None ELSE Subs[n][1]
         /\ \A c \in Live(Heap) : links[c].dep = n => \E i \in 1..Len(Subs[n]) : Subs[n][i] = c
         /\ node[n].subsTail = LastOf(Subs[n])
<1>1. /\ Pool(Heap, Deps, Subs) /\ Alive = Here(Heap) /\ Heap.links = links /\ Heap.node = node
      /\ Heap \in HeapT
  BY InvIs
<1>2. n \in Here(Heap)
  BY <1>1
<1>3. Live(Heap) \subseteq Nat
  BY <1>1 DEF HeapT, Live
<1>4. None \notin Live(Heap)
  BY <1>3, NoneIs
<1>5. /\ Subs[n] \in Seq(Live(Heap)) /\ Len(Subs[n]) \in Nat
      /\ \A i, j \in 1..Len(Subs[n]) : Subs[n][i] = Subs[n][j] => i = j
      /\ \A i \in 1..Len(Subs[n]) :
           /\ Subs[n][i] \in Live(Heap) /\ Heap.links[Subs[n][i]].dep = n
           /\ Heap.links[Subs[n][i]].prevSub = IF i = 1 THEN None ELSE Subs[n][i - 1]
           /\ Heap.links[Subs[n][i]].nextSub = IF i = Len(Subs[n]) THEN None ELSE Subs[n][i + 1]
      /\ Heap.node[n].subs = IF Len(Subs[n]) = 0 THEN None ELSE Subs[n][1]
      /\ \A c \in Live(Heap) : Heap.links[c].dep = n => \E i \in 1..Len(Subs[n]) : Subs[n][i] = c
  BY ONLY <1>1, <1>2, SubListIs, SMTT(30)
<1>6. Subs[n] = SubLinks(Heap, n)
  BY <1>2 DEF Subs
<1>7. Heap.node[n].subsTail = LastOf(Subs[n])
  BY <1>1, <1>2 DEF Pool, SubTails
<1> QED
  BY ONLY <1>1, <1>4, <1>5, <1>6, <1>7

(* The link after the cursor.                                              *)
LEMMA AfterIs ==
  ASSUME LinksInv, NEW n \in Alive, NEW k \in 0..Len(Deps[n]), node[n].depsTail = Before(Deps[n], k)
  PROVE  AfterCursor(n) = After(Deps[n], k) /\ (node[n].depsTail = None <=> k = 0)
<1> DEFINE t == Deps[n]
<1>1. /\ Len(t) \in Nat
      /\ \A i \in 1..Len(t) : t[i] # None /\ links[t[i]].nextDep = IF i = Len(t) THEN None ELSE t[i + 1]
      /\ node[n].deps = IF Len(t) = 0 THEN None ELSE t[1]
  BY ONLY LinksInv, n \in Alive, TheList
<1>2. k \in Nat /\ (k # 0 => k \in 1..Len(t)) /\ k <= Len(t) /\ node[n].depsTail = Before(t, k)
  BY ONLY <1>1, k \in 0..Len(t), node[n].depsTail = Before(t, k)
<1> HIDE DEF t
<1>3. node[n].depsTail = None <=> k = 0
  BY ONLY <1>1, <1>2 DEF Before
<1>4. AfterCursor(n) = After(t, k)
  <2>1. CASE k = 0
    BY ONLY <2>1, <1>1, <1>3 DEF AfterCursor, After
  <2>2. CASE k # 0
    BY ONLY <2>2, <1>1, <1>2, <1>3 DEF AfterCursor, After, Before
  <2> QED
    BY <2>1, <2>2
<1> QED
  BY ONLY <1>3, <1>4 DEF t

(* The comparisons of link, in terms of the list and its cursor. *)
LEMMA StandsIs ==
  ASSUME LinksInv, NEW sub \in Nodes, NEW dep \in Nodes, Reading(sub, dep)
  PROVE  \E k \in 0..Len(Deps[sub]) :
           /\ Stands(sub, dep, k)
           /\ AtCursor(sub, dep) <=> k # 0 /\ Heap.links[Deps[sub][k]].dep = dep
           /\ AfterCursor(sub) = After(Deps[sub], k)
           /\ IsNext(sub, dep) <=> k # Len(Deps[sub]) /\ Heap.links[Deps[sub][k + 1]].dep = dep
           /\ IsConfirmed(sub, dep) => \E i \in 1..k : Heap.links[Deps[sub][i]].dep = dep
<1>1. /\ Looks(Heap, Deps, Subs, running, reads, lastReads, sub, dep, reads'[sub], reads')
      /\ sub \in Alive /\ dep \in Alive
  BY ReadingIs
<1>2. PICK k \in 0..Len(Deps[sub]) :
        /\ Heap.node[sub].depsTail = Before(Deps[sub], k) /\ Record(Sources(Heap, Deps[sub]), k, reads[sub])
        /\ Late(Sources(Heap, Deps[sub]), k, reads[sub])
        /\ Rerun(Sources(Heap, Deps[sub]), k, reads[sub], lastReads[sub])
  BY ONLY <1>1, CursorIs
<1>3. Stands(sub, dep, k)
  BY ONLY <1>1, <1>2 DEF Stands
<1> DEFINE t == Deps[sub]
<1>4. /\ t = DepLinks(Heap, sub) /\ t \in Seq(Live(Heap)) /\ Len(t) \in Nat
      /\ \A i, j \in 1..Len(t) : t[i] = t[j] => i = j
      /\ \A i \in 1..Len(t) :
           /\ t[i] \in Live(Heap) /\ t[i] # None
           /\ links[t[i]].nextDep = IF i = Len(t) THEN None ELSE t[i + 1]
      /\ node[sub].deps = IF Len(t) = 0 THEN None ELSE t[1]
  BY ONLY LinksInv, <1>1, TheList
<1>5. Heap.links = links /\ Heap.node = node /\ node[sub].depsTail = Before(t, k)
  BY <1>2 DEF Heap
<1>6. k \in Nat /\ (k # 0 => k \in 1..Len(t)) /\ (k # Len(t) => k + 1 \in 1..Len(t)) /\ k <= Len(t)
  BY ONLY <1>2, <1>4
<1>7. AfterCursor(sub) = After(t, k) /\ (node[sub].depsTail = None <=> k = 0)
  BY ONLY <1>1, <1>2, <1>5, LinksInv, AfterIs
<1> HIDE DEF t
<1>8. AtCursor(sub, dep) <=> k # 0 /\ Heap.links[t[k]].dep = dep
  BY ONLY <1>5, <1>7 DEF AtCursor, Before
<1>10. IsNext(sub, dep) <=> k # Len(t) /\ Heap.links[t[k + 1]].dep = dep
  BY ONLY <1>4, <1>5, <1>6, <1>7 DEF IsNext, After
<1>11. ASSUME IsConfirmed(sub, dep)
       PROVE  \E i \in 1..k : Heap.links[t[i]].dep = dep
  <2> DEFINE last == node[dep].subsTail
  <2>1. last # None /\ last \in Prefix(sub)
    BY <1>11 DEF IsConfirmed
  <2>2. /\ Len(Subs[dep]) \in Nat /\ last = LastOf(Subs[dep])
        /\ \A i \in 1..Len(Subs[dep]) : links[Subs[dep][i]].dep = dep
    BY ONLY <1>1, LinksInv, TheSubs
  <2>3. links[last].dep = dep
    BY ONLY <2>1, <2>2 DEF LastOf
  <2>4. k # 0
    BY <2>1, <1>7 DEF Prefix
  <2>5. last \in {t[i] : i \in {j \in DOMAIN t : \A p \in 1..(j - 1) : t[p] # t[k]}}
    BY <2>1, <2>4, <1>4, <1>5, <1>7 DEF Prefix, Before
  <2>6. PICK i \in DOMAIN t : last = t[i] /\ \A p \in 1..(i - 1) : t[p] # t[k]
    BY <2>5
  <2>7. i \in 1..Len(t)
    BY <1>4
  <2>8. ~(k \in 1..(i - 1))
    BY <2>6
  <2>9. i \in 1..k
    BY ONLY <2>4, <2>7, <2>8, <1>6
  <2> QED
    BY <2>3, <2>6, <2>9, <1>5
<1>12. k \in 0..Len(t)
  BY <1>2 DEF t
<1>13. t = Deps[sub]
  BY DEF t
<1> QED
  BY ONLY <1>3, <1>8, <1>7, <1>10, <1>11, <1>12, <1>13

(* A read adds the edge.                                                   *)
Lengthens(D2, S2, sub, dep) ==
  /\ Sound(Heap', D2, S2, running', reads', lastReads')
  /\ sub \in Nodes /\ Edges(Heap', D2, sub) = Linked[sub] \cup {dep}
  /\ \A m \in Nodes : m # sub => Edges(Heap', D2, m) = Linked[m]
  /\ Here(Heap') = Here(Heap)

(* Then the invariant holds. *)
LEMMA EdgeAdded ==
  ASSUME NEW D2, NEW S2, NEW sub, NEW dep, Lengthens(D2, S2, sub, dep)
  PROVE  LinksInv' /\ Alive' = Alive /\ Linked' = [Linked EXCEPT ![sub] = @ \cup {dep}]
<1>1. LinksInv' /\ Alive' = Here(Heap') /\ Linked' = [m \in Nodes |-> Edges(Heap', D2, m)]
  BY Lands DEF Lengthens
<1>2. Alive = Here(Heap)
  BY DEF Alive, Here, Heap
<1>3. Linked = [m \in Nodes |-> Linked[m]]
  BY DEF Linked
<1> QED
  BY <1>1, <1>2, <1>3 DEF Lengthens

(* LinkAgain and LinkSkip keep the invariant: the source has a link up to the
   cursor. *)
LEMMA AgainStep ==
  ASSUME LinksInv, NEW sub \in Nodes, NEW dep \in Nodes, LinkAgain(sub, dep) \/ LinkSkip(sub, dep)
  PROVE  LinksInv' /\ Alive' = Alive /\ Linked' = [Linked EXCEPT ![sub] = @ \cup {dep}]
<1>1. Reading(sub, dep) /\ UNCHANGED heap /\ (AtCursor(sub, dep) \/ IsConfirmed(sub, dep))
  BY DEF LinkAgain, LinkSkip
<1>2. PICK k \in 0..Len(Deps[sub]) :
        /\ Stands(sub, dep, k)
        /\ AtCursor(sub, dep) <=> k # 0 /\ Heap.links[Deps[sub][k]].dep = dep
        /\ IsConfirmed(sub, dep) => \E i \in 1..k : Heap.links[Deps[sub][i]].dep = dep
  BY <1>1, StandsIs
<1>3. k \in Nat
  BY <1>2
<1>4. PICK i \in 1..k : Heap.links[Deps[sub][i]].dep = dep
  BY <1>1, <1>2, <1>3
<1>5. Sound(Heap, Deps, Subs, running, reads', lastReads) /\ dep \in Edges(Heap, Deps, sub)
  BY ONLY <1>2, <1>4, AgainIs DEF Stands
<1>6. running' = running /\ lastReads' = lastReads /\ Heap' = Heap
  BY <1>1 DEF Reading, heap, Heap
<1>7. Sound(Heap', Deps, Subs, running', reads', lastReads')
  BY ONLY <1>5, <1>6
<1>8. \A m \in Nodes : Edges(Heap', Deps, m) = Linked[m]
  BY ONLY <1>6 DEF Linked
<1>9. dep \in Linked[sub]
  BY <1>5 DEF Linked
<1>10. Linked[sub] = Linked[sub] \cup {dep}
  BY <1>9
<1>11. Edges(Heap', Deps, sub) = Linked[sub] \cup {dep}
  BY <1>8, <1>10
<1>12. Here(Heap') = Here(Heap)
  BY <1>6
<1>13. Lengthens(Deps, Subs, sub, dep)
  BY ONLY <1>7, <1>8, <1>11, <1>12, sub \in Nodes DEF Lengthens
<1> QED
  BY ONLY <1>13, EdgeAdded

(* LinkReuse keeps it: the link after the cursor is that of the source. *)
LEMMA ReuseStep ==
  ASSUME LinksInv, NEW sub \in Nodes, NEW dep \in Nodes, LinkReuse(sub, dep)
  PROVE  LinksInv' /\ Alive' = Alive /\ Linked' = [Linked EXCEPT ![sub] = @ \cup {dep}]
<1>1. /\ Reading(sub, dep) /\ ~AtCursor(sub, dep) /\ IsNext(sub, dep)
      /\ node' = [node EXCEPT ![sub].depsTail = AfterCursor(sub)] /\ UNCHANGED <<links, freeLinks>>
  BY DEF LinkReuse
<1>2. PICK k \in 0..Len(Deps[sub]) :
        /\ Stands(sub, dep, k)
        /\ AtCursor(sub, dep) <=> k # 0 /\ Heap.links[Deps[sub][k]].dep = dep
        /\ AfterCursor(sub) = After(Deps[sub], k)
        /\ IsNext(sub, dep) <=> k # Len(Deps[sub]) /\ Heap.links[Deps[sub][k + 1]].dep = dep
  BY <1>1, StandsIs
<1>3. sub \in Alive /\ running' = running /\ lastReads' = lastReads
  BY <1>1, ReadingIs
<1>4. Heap' = SetEnd(Heap, sub, "depsTail", Deps[sub][k + 1])
  <2>1. AfterCursor(sub) = Deps[sub][k + 1]
    BY <1>1, <1>2 DEF After
  <2>2. node[sub] # None
    BY <1>3 DEF Alive
  <2> QED
    BY <1>1, <2>1, <2>2 DEF Heap, SetEnd
<1>5. Reuses(Heap, Deps, Subs, running, reads, lastReads, sub, dep, reads'[sub], reads', k, Heap')
  BY ONLY <1>1, <1>2, <1>4 DEF Reuses, Stands
<1>6. /\ Sound(Heap', Deps, Subs, running, reads', lastReads) /\ dep \in Edges(Heap, Deps, sub)
      /\ Here(Heap') = Here(Heap) /\ \A m \in Nodes : Edges(Heap', Deps, m) = Edges(Heap, Deps, m)
  BY ONLY <1>5, ReusesIs
<1>7. Sound(Heap', Deps, Subs, running', reads', lastReads')
  BY ONLY <1>3, <1>6
<1>8. \A m \in Nodes : Edges(Heap', Deps, m) = Linked[m]
  BY ONLY <1>6 DEF Linked
<1>9. dep \in Linked[sub]
  BY <1>6 DEF Linked
<1>10. Linked[sub] = Linked[sub] \cup {dep}
  BY <1>9
<1>11. Edges(Heap', Deps, sub) = Linked[sub] \cup {dep}
  BY <1>8, <1>10
<1>13. Lengthens(Deps, Subs, sub, dep)
  BY ONLY <1>6, <1>7, <1>8, <1>11, sub \in Nodes DEF Lengthens
<1> QED
  BY ONLY <1>13, EdgeAdded

(* LinkNew keeps it, and the run differs from the one before. *)
LEMMA NewStep ==
  ASSUME LinksInv, NEW sub \in Nodes, NEW dep \in Nodes, LinkNew(sub, dep)
  PROVE  /\ LinksInv' /\ Alive' = Alive /\ Linked' = [Linked EXCEPT ![sub] = @ \cup {dep}]
         /\ ~Repeats(reads'[sub], lastReads[sub])
<1>1. Reading(sub, dep) /\ ~AtCursor(sub, dep) /\ ~IsNext(sub, dep)
  BY DEF LinkNew
<1>2. PICK k \in 0..Len(Deps[sub]) :
        /\ Stands(sub, dep, k)
        /\ AtCursor(sub, dep) <=> k # 0 /\ Heap.links[Deps[sub][k]].dep = dep
        /\ AfterCursor(sub) = After(Deps[sub], k)
        /\ IsNext(sub, dep) <=> k # Len(Deps[sub]) /\ Heap.links[Deps[sub][k + 1]].dep = dep
  BY <1>1, StandsIs
<1>3. dep \in Alive /\ running' = running /\ lastReads' = lastReads
  BY <1>1, ReadingIs
<1>4. /\ node[sub].depsTail = Before(Deps[sub], k) /\ AfterCursor(sub) = After(Deps[sub], k)
      /\ node[dep].subsTail = LastOf(Subs[dep])
  <2>1. node[sub].depsTail = Before(Deps[sub], k)
    BY ONLY <1>2 DEF Stands, Heap
  <2>2. node[dep].subsTail = LastOf(Subs[dep])
    BY ONLY <1>3, LinksInv, TheSubs
  <2> QED
    BY <1>2, <2>1, <2>2
<1> DEFINE prev == Before(Deps[sub], k)
           next == After(Deps[sub], k)
           last == LastOf(Subs[dep])
           new == IF freeLinks # <<>> THEN Last(freeLinks) ELSE PushedSlot
           D2 == [Deps EXCEPT ![sub] = With(Deps[sub], k, new)]
           S2 == [Subs EXCEPT ![dep] = With(Subs[dep], Len(Subs[dep]), new)]
           link == [dep |-> dep, sub |-> sub, prevDep |-> prev, nextDep |-> next,
                    prevSub |-> last, nextSub |-> None]
           h0 == IF freeLinks # <<>>
                 THEN [Heap EXCEPT !.links[new] = link, !.free = Front(@)]
                 ELSE [Heap EXCEPT !.links = Append(@, link)]
           h1 == IF next = None THEN h0 ELSE SetLink(h0, next, "prevDep", new)
           h2 == IF prev = None THEN SetEnd(h1, sub, "deps", new) ELSE SetLink(h1, prev, "nextDep", new)
           h3 == SetEnd(h2, sub, "depsTail", new)
           h4 == IF last = None THEN SetEnd(h3, dep, "subs", new) ELSE SetLink(h3, last, "nextSub", new)
           g == SetEnd(h4, dep, "subsTail", new)
<1>5. Becomes(g)
  BY <1>4 DEF LinkNew
<1>6. Adds(Heap, g, new, sub, dep, prev, next, last)
  <2>1. Heap.free = freeLinks /\ Heap.links = links
    BY DEF Heap
  <2>2. new = IF Heap.free # <<>> THEN Last(Heap.free) ELSE Len(Heap.links) + 1
    BY <2>1 DEF PushedSlot
  <2>3. g = LET k0 == IF Heap.free # <<>>
                      THEN [Heap EXCEPT !.links[new] = link, !.free = Front(@)]
                      ELSE [Heap EXCEPT !.links = Append(@, link)]
                k1 == IF next = None THEN k0 ELSE SetLink(k0, next, "prevDep", new)
                k2 == IF prev = None THEN SetEnd(k1, sub, "deps", new) ELSE SetLink(k1, prev, "nextDep", new)
                k3 == SetEnd(k2, sub, "depsTail", new)
                k4 == IF last = None THEN SetEnd(k3, dep, "subs", new) ELSE SetLink(k3, last, "nextSub", new)
            IN SetEnd(k4, dep, "subsTail", new)
    BY <2>1
  <2> HIDE DEF new
  <2> QED
    BY ONLY <2>2, <2>3 DEF Adds
<1> HIDE DEF g, new, prev, next, last, D2, S2
<1>7. g \in HeapT
  <2>1. /\ Pool(Heap, Deps, Subs) /\ Alive = Here(Heap) /\ Heap \in HeapT /\ FreeOK(Heap)
    BY InvIs DEF Pool
  <2>2. sub \in Here(Heap) /\ dep \in Here(Heap)
    BY <1>1, <1>3, <2>1, ReadingIs
  <2>3. prev \in Live(Heap) \cup {None} /\ next \in Live(Heap) \cup {None}
    <3>1. /\ Len(Deps[sub]) \in Nat /\ \A i \in 1..Len(Deps[sub]) : Deps[sub][i] \in Live(Heap)
      BY ONLY <2>1, <2>2, DepListIs
    <3>2. (k # 0 => k \in 1..Len(Deps[sub])) /\ (k # Len(Deps[sub]) => k + 1 \in 1..Len(Deps[sub]))
      BY ONLY <3>1, k \in 0..Len(Deps[sub])
    <3> QED
      BY ONLY <3>1, <3>2 DEF prev, next, Before, After
  <2>4. last \in Live(Heap) \cup {None}
    <3>1. /\ Len(Subs[dep]) \in Nat /\ \A i \in 1..Len(Subs[dep]) : Subs[dep][i] \in Live(Heap)
      BY ONLY <2>1, <2>2, SubListIs
    <3> QED
      BY ONLY <3>1 DEF last, LastOf
  <2>5. Added(Heap, g, new, sub, dep, prev, next, last)
    BY ONLY <1>6, <2>1, <2>2, <2>3, <2>4, AddedIs
  <2> QED
    BY ONLY <2>5 DEF Added
<1>8. Heap' = g
  BY <1>5, <1>7 DEF Becomes, Heap, HeapT
<1>9. News(Heap, Deps, Subs, running, reads, lastReads, sub, dep, reads'[sub], reads', k, new, Heap', D2, S2)
  <2>1. D2 = [Deps EXCEPT ![sub] = With(Deps[sub], k, new)]
        /\ S2 = [Subs EXCEPT ![dep] = With(Subs[dep], Len(Subs[dep]), new)]
    BY DEF D2, S2
  <2>2. Adds(Heap, Heap', new, sub, dep, Before(Deps[sub], k), After(Deps[sub], k), LastOf(Subs[dep]))
    BY ONLY <1>6, <1>8 DEF prev, next, last
  <2> QED
    BY ONLY <1>1, <1>2, <2>1, <2>2 DEF News, Stands
<1>10. /\ Sound(Heap', D2, S2, running, reads', lastReads) /\ ~Repeats(reads'[sub], lastReads[sub])
       /\ Here(Heap') = Here(Heap) /\ Edges(Heap', D2, sub) = Edges(Heap, Deps, sub) \cup {dep}
       /\ \A m \in Nodes : m # sub => Edges(Heap', D2, m) = Edges(Heap, Deps, m)
  BY ONLY <1>9, NewsIs
<1>11. Sound(Heap', D2, S2, running', reads', lastReads')
  BY ONLY <1>3, <1>10
<1>12. Linked[sub] = Edges(Heap, Deps, sub) /\ \A m \in Nodes : Linked[m] = Edges(Heap, Deps, m)
  BY DEF Linked
<1>13. Lengthens(D2, S2, sub, dep)
  BY ONLY <1>10, <1>11, <1>12, sub \in Nodes DEF Lengthens
<1>14. LinksInv' /\ Alive' = Alive /\ Linked' = [Linked EXCEPT ![sub] = @ \cup {dep}]
  BY ONLY <1>13, EdgeAdded
<1> QED
  BY ONLY <1>10, <1>14

(* EndTracking keeps it, and leaves an edge for each source that was read. *)
LEMMA EndStep ==
  ASSUME LinksInv, NEW n \in Nodes, EndTracking(n)
  PROVE  /\ LinksInv' /\ Alive' = Alive /\ n \in Alive
         /\ Linked' = [Linked EXCEPT ![n] = {reads[n][i] : i \in 1..Len(reads[n])}]
         /\ Len(links') = Len(links) /\ Len(freeLinks') >= Len(freeLinks)
<1>1. /\ Sound(Heap, Deps, Subs, running, reads, lastReads) /\ Pool(Heap, Deps, Subs)
      /\ Alive = Here(Heap) /\ Heap \in HeapT
      /\ Heap.links = links /\ Heap.free = freeLinks /\ Heap.node = node
      /\ running \in Seq(Nodes) /\ \A i, j \in 1..Len(running) : running[i] = running[j] => i = j
      /\ \A i \in 1..Len(running) : running[i] \in Alive
  BY InvIs
<1>2. running # <<>> /\ n = Last(running) /\ running' = Front(running) /\ reads' = reads /\ lastReads' = lastReads
  BY DEF EndTracking
<1>3. Contains(running, n)
  BY ONLY <1>1, <1>2, RunEnds
<1>4. n \in Alive
  BY <1>1, <1>3 DEF Contains
<1>5. Followed(Heap.node[n].depsTail, Sources(Heap, Deps[n]), Deps[n], reads[n], lastReads[n], Contains(running, n))
  BY ONLY <1>1, <1>4 DEF Sound
<1>6. PICK k \in 0..Len(Deps[n]) :
        node[n].depsTail = Before(Deps[n], k) /\ Record(Sources(Heap, Deps[n]), k, reads[n])
  BY ONLY <1>1, <1>5 DEF Followed, At
<1>7. AfterCursor(n) = After(Deps[n], k)
  BY ONLY <1>4, <1>6, LinksInv, AfterIs
<1> DEFINE tail == node[n].depsTail
           cut == IF tail = None THEN SetEnd(Heap, n, "deps", None) ELSE SetLink(Heap, tail, "nextDep", None)
           g == PruneAll(cut, Chain(Heap, AfterCursor(n), "nextDep"))
           D2 == [Deps EXCEPT ![n] = FirstOf(Deps[n], k)]
<1>8. Becomes(g)
  BY <1>4 DEF EndTracking
<1>9. Trims(Heap, n, Deps, k, g, D2)
  <2>1. n \in Here(Heap)
    BY <1>1, <1>4
  <2> QED
    BY ONLY <1>1, <1>6, <1>7, <2>1 DEF Trims
<1> HIDE DEF g, D2
<1>10. Finishes(Heap, Deps, Subs, running, reads, lastReads, n, running', g, k, D2)
  BY ONLY <1>1, <1>2, <1>6, <1>9 DEF Finishes
<1>11. /\ \E S2 : Sound(g, D2, S2, running', reads, lastReads)
       /\ Here(g) = Here(Heap) /\ Len(g.free) >= Len(Heap.free) /\ DOMAIN g.links = DOMAIN Heap.links
       /\ Edges(g, D2, n) = {reads[n][i] : i \in 1..Len(reads[n])}
       /\ \A m \in Nodes : m # n => Edges(g, D2, m) = Edges(Heap, Deps, m)
  BY ONLY <1>10, FinishesIs
<1>12. PICK S2 : Sound(g, D2, S2, running', reads, lastReads)
  BY <1>11
<1>13. g \in HeapT
  BY ONLY <1>12 DEF Sound, Pool
<1>14. Heap' = g
  BY <1>8, <1>13 DEF Becomes, Heap, HeapT
<1>15. Sound(Heap', D2, S2, running', reads', lastReads')
  BY ONLY <1>2, <1>12, <1>14
<1>16. LinksInv' /\ Alive' = Here(Heap') /\ Linked' = [m \in Nodes |-> Edges(Heap', D2, m)]
  BY ONLY <1>15, Lands
<1>17. Linked' = [Linked EXCEPT ![n] = {reads[n][i] : i \in 1..Len(reads[n])}]
  <2> DEFINE R == {reads[n][i] : i \in 1..Len(reads[n])}
  <2>1. Edges(g, D2, n) = R
    BY <1>11
  <2> HIDE DEF R
  <2>2. Linked' = [m \in Nodes |-> IF m = n THEN R ELSE Edges(Heap, Deps, m)]
    BY ONLY <1>11, <1>14, <1>16, <2>1
  <2>3. Linked' = [Linked EXCEPT ![n] = R]
    BY ONLY <2>2 DEF Linked
  <2> QED
    BY <2>3 DEF R
<1>18. Len(links') = Len(links) /\ Len(freeLinks') >= Len(freeLinks)
  <2>1. links' = g.links /\ freeLinks' = g.free
    BY <1>8 DEF Becomes
  <2>2. links' \in Seq(Link \cup {None}) /\ links \in Seq(Link \cup {None})
    BY <1>1, <1>13, <2>1 DEF HeapT
  <2>3. DOMAIN links' = DOMAIN links
    BY <1>1, <1>11, <2>1
  <2>4. Len(links') = Len(links)
    BY ONLY <2>2, <2>3
  <2> QED
    BY <1>1, <1>11, <2>1, <2>4
<1> QED
  BY ONLY <1>1, <1>4, <1>11, <1>14, <1>16, <1>17, <1>18

(* DisposeNode keeps it, when no running closure is or depends on the node. *)
LEMMA DisposeStep ==
  ASSUME LinksInv, ~DisposeWhileTracking, NEW n \in Nodes, DisposeNode(n)
  PROVE  /\ LinksInv' /\ Alive' = Alive \ {n}
         /\ Linked' = [m \in Nodes |-> IF m = n THEN {} ELSE Linked[m] \ {n}]
         /\ ~Contains(running, n)
         /\ \A m \in Nodes : Contains(running, m) => reads'[m] = reads[m] /\ \A j \in 1..Len(reads[m]) : reads[m][j] # n
         /\ Len(links') = Len(links) /\ Len(freeLinks') >= Len(freeLinks)
<1>1. /\ Sound(Heap, Deps, Subs, running, reads, lastReads) /\ Pool(Heap, Deps, Subs)
      /\ Alive = Here(Heap) /\ Heap \in HeapT
      /\ Heap.links = links /\ Heap.free = freeLinks /\ Heap.node = node
      /\ running \in Seq(Nodes)
  BY InvIs
<1>2. /\ n \in Alive /\ ~Contains(running, n) /\ (\A m \in Alive : ~Tracks(m, n)) /\ running' = running
      /\ reads' = [m \in Nodes |-> IF m = n THEN <<>> ELSE Without(reads[m], n)]
      /\ lastReads' = [m \in Nodes |-> IF m = n THEN <<>> ELSE Without(lastReads[m], n)]
  BY DEF DisposeNode
<1> DEFINE g == [DetachSubs(ClearDeps(Heap, n), n) EXCEPT !.node[n] = None]
<1>3. Becomes(g)
  BY DEF DisposeNode
<1> HIDE DEF g
<1>4. ASSUME NEW m \in Here(Heap), Contains(running, m), NEW i \in 1..Len(Deps[m])
      PROVE  Heap.links[Deps[m][i]].dep # n
  <2>1. m \in Alive /\ ~Tracks(m, n)
    BY <1>1, <1>2, <1>4
  <2>2. Deps[m] = DepLinks(Heap, m) /\ Deps[m] \in Seq(Live(Heap))
    BY ONLY LinksInv, <2>1, TheList
  <2>3. Deps[m][i] \in ToSet(DepLinks(Heap, m))
    BY ONLY <2>2, i \in 1..Len(Deps[m]) DEF ToSet
  <2> QED
    BY <1>1, <1>4, <2>1, <2>3 DEF Tracks
<1>5. Goes(Heap, Deps, Subs, running, reads, lastReads, n, g, reads', lastReads')
  <2>1. n \in Here(Heap)
    BY <1>1, <1>2
  <2> QED
    BY ONLY <1>1, <1>2, <1>4, <2>1 DEF Goes, g
<1>6. /\ Here(g) = Here(Heap) \ {n} /\ Len(g.free) >= Len(Heap.free) /\ DOMAIN g.links = DOMAIN Heap.links
      /\ \A m \in Nodes : Contains(running, m) => reads'[m] = reads[m] /\ \A j \in 1..Len(reads[m]) : reads[m][j] # n
      /\ \E D2, S2 : /\ Sound(g, D2, S2, running, reads', lastReads')
                     /\ \A m \in Nodes : Edges(g, D2, m) = IF m = n THEN {} ELSE Edges(Heap, Deps, m) \ {n}
  BY ONLY <1>5, GoesIs
<1>7. PICK D2, S2 : /\ Sound(g, D2, S2, running, reads', lastReads')
                    /\ \A m \in Nodes : Edges(g, D2, m) = IF m = n THEN {} ELSE Edges(Heap, Deps, m) \ {n}
  BY ONLY <1>6
<1>8. g \in HeapT
  BY ONLY <1>7 DEF Sound, Pool
<1>9. Heap' = g
  BY <1>3, <1>8 DEF Becomes, Heap, HeapT
<1>10. Sound(Heap', D2, S2, running', reads', lastReads')
  BY ONLY <1>2, <1>7, <1>9
<1>11. LinksInv' /\ Alive' = Here(Heap') /\ Linked' = [m \in Nodes |-> Edges(Heap', D2, m)]
  BY ONLY <1>10, Lands
<1>12. Linked' = [m \in Nodes |-> IF m = n THEN {} ELSE Linked[m] \ {n}]
  <2>1. \A m \in Nodes : Linked[m] = Edges(Heap, Deps, m)
    BY DEF Linked
  <2> QED
    BY ONLY <1>7, <1>9, <1>11, <2>1
<1>13. Len(links') = Len(links) /\ Len(freeLinks') >= Len(freeLinks)
  <2>1. links' = g.links /\ freeLinks' = g.free
    BY <1>3 DEF Becomes
  <2>2. links' \in Seq(Link \cup {None}) /\ links \in Seq(Link \cup {None})
    BY <1>1, <1>8, <2>1 DEF HeapT
  <2>3. DOMAIN links' = DOMAIN links
    BY <1>1, <1>6, <2>1
  <2>4. Len(links') = Len(links)
    BY ONLY <2>2, <2>3
  <2> QED
    BY <1>1, <1>6, <2>1, <2>4
<1>14. Alive' = Alive \ {n}
  BY <1>1, <1>6, <1>9, <1>11
<1>15. ~Contains(running, n)
  BY <1>2
<1> QED
  BY ONLY <1>6, <1>11, <1>12, <1>13, <1>14, <1>15

(* The invariant holds at first. *)
LEMMA InitInv == Init => LinksInv
<1> SUFFICES ASSUME Init PROVE LinksInv
  OBVIOUS
<1>1. /\ Heap = [links |-> <<>>, free |-> <<>>, node |-> node] /\ node \in [Nodes -> {NoLinks, None}]
      /\ running = <<>> /\ reads = [n \in Nodes |-> <<>>] /\ lastReads = reads
  BY DEF Init, Heap
<1> DEFINE D == [n \in Here(Heap) |-> <<>>]
           h == Heap
<1>2. D = [n \in Here(h) |-> <<>>]
  OBVIOUS
<1> HIDE DEF D, h
<1>3. h = [links |-> <<>>, free |-> <<>>, node |-> node]
  BY <1>1 DEF h
<1>4. Sound(h, D, D, <<>>, reads, reads)
  BY ONLY <1>1, <1>2, <1>3, SoundFirst
<1>5. D = [n \in Here(h) |-> DepLinks(h, n)] /\ D = [n \in Here(h) |-> SubLinks(h, n)]
  BY ONLY <1>4, Reached
<1>6. D = Deps /\ D = Subs
  BY <1>5 DEF Deps, Subs, h
<1> QED
  BY ONLY <1>1, <1>4, <1>6 DEF LinksInv, h

-----------------------------------------------------------------------------
(* A step that leaves the state alone.                                     *)
LEMMA Stutter ==
  ASSUME LinksInv, UNCHANGED vars
  PROVE  LinksInv' /\ Alive' = Alive /\ Linked' = Linked
<1>1. Heap' = Heap /\ running' = running /\ reads' = reads /\ lastReads' = lastReads
  BY DEF vars, heap, Heap
<1>2. Sound(Heap, Deps, Subs, running, reads, lastReads)
  BY InvIs
<1>3. Sound(Heap', Deps, Subs, running', reads', lastReads')
  BY ONLY <1>1, <1>2
<1>4. LinksInv' /\ Alive' = Here(Heap') /\ Linked' = [m \in Nodes |-> Edges(Heap', Deps, m)]
  BY ONLY <1>3, Lands
<1>5. Alive = Here(Heap)
  BY InvIs
<1> QED
  BY ONLY <1>1, <1>4, <1>5 DEF Linked

(* Every step keeps it. *)
LEMMA InvStep ==
  ASSUME LinksInv, ~DisposeWhileTracking, [Next]_vars
  PROVE  LinksInv'
<1>1. ASSUME NEW n \in Nodes, Create(n) PROVE LinksInv'
  BY <1>1, CreateStep
<1>2. ASSUME NEW n \in Nodes, StartTracking(n) PROVE LinksInv'
  BY <1>2, StartStep
<1>3. ASSUME NEW n \in Nodes, EndTracking(n) PROVE LinksInv'
  BY <1>3, EndStep
<1>4. ASSUME NEW n \in Nodes, DisposeNode(n) PROVE LinksInv'
  BY <1>4, DisposeStep
<1>5. ASSUME NEW n \in Nodes, NEW d \in Nodes, LinkAgain(n, d) \/ LinkSkip(n, d) PROVE LinksInv'
  BY ONLY <1>5, LinksInv, AgainStep
<1>6. ASSUME NEW n \in Nodes, NEW d \in Nodes, LinkReuse(n, d) PROVE LinksInv'
  BY ONLY <1>6, LinksInv, ReuseStep
<1>7. ASSUME NEW n \in Nodes, NEW d \in Nodes, LinkNew(n, d) PROVE LinksInv'
  BY ONLY <1>7, LinksInv, NewStep
<1>8. ASSUME UNCHANGED vars PROVE LinksInv'
  BY <1>8, Stutter
<1> QED
  BY <1>1, <1>2, <1>3, <1>4, <1>5, <1>6, <1>7, <1>8 DEF Next

(* The inductive invariant, for every set of nodes, program and size of the pool,
   as long as no closure disposes its own node or one that it has read. *)
THEOREM LinksInvariant ==
  ASSUME ~DisposeWhileTracking
  PROVE  Spec => []LinksInv
<1>1. Init => LinksInv
  BY InitInv
<1>2. LinksInv /\ [Next]_vars => LinksInv'
  BY InvStep
<1> QED
  BY <1>1, <1>2, PTL DEF Spec

(* Where the cursor of a node is.                                          *)
LEMMA TheCursor ==
  ASSUME LinksInv, NEW n \in Alive
  PROVE  \E k \in 0..Len(Deps[n]) :
           /\ node[n].depsTail = Before(Deps[n], k) /\ Record(Sources(Heap, Deps[n]), k, reads[n])
           /\ ~Contains(running, n) => k = Len(Deps[n])
<1>1. /\ Sound(Heap, Deps, Subs, running, reads, lastReads) /\ Alive = Here(Heap) /\ Heap.node = node
  BY InvIs
<1>2. Followed(Heap.node[n].depsTail, Sources(Heap, Deps[n]), Deps[n], reads[n], lastReads[n], Contains(running, n))
  BY ONLY <1>1, n \in Alive DEF Sound
<1> QED
  BY ONLY <1>1, <1>2 DEF Followed, At

(* Every slot is free once, or a link between existing nodes. *)
LEMMA PoolIs ==
  ASSUME LinksInv, NEW c \in DOMAIN links
  PROVE  /\ links[c] = None => \E i \in DOMAIN freeLinks : \A j \in DOMAIN freeLinks : freeLinks[j] = c <=> j = i
         /\ links[c] # None => links[c].sub \in Alive /\ links[c].dep \in Alive /\ ~Contains(freeLinks, c)
<1>1. /\ Pool(Heap, Deps, Subs) /\ Alive = Here(Heap) /\ Heap \in HeapT
      /\ Heap.links = links /\ Heap.free = freeLinks
  BY InvIs
<1>2. /\ \A i, j \in 1..Len(freeLinks) : freeLinks[i] = freeLinks[j] => i = j
      /\ \A i \in 1..Len(freeLinks) : freeLinks[i] \in DOMAIN links /\ links[freeLinks[i]] = None
      /\ \A b \in DOMAIN links : links[b] = None => \E i \in 1..Len(freeLinks) : freeLinks[i] = b
  BY ONLY <1>1 DEF Pool, FreeOK
<1>3. DOMAIN freeLinks = 1..Len(freeLinks)
  BY <1>1 DEF HeapT
<1>4. ASSUME links[c] = None
      PROVE  \E i \in DOMAIN freeLinks : \A j \in DOMAIN freeLinks : freeLinks[j] = c <=> j = i
  <2>1. PICK i \in 1..Len(freeLinks) : freeLinks[i] = c
    BY ONLY <1>2, <1>4, c \in DOMAIN links
  <2> QED
    BY ONLY <1>2, <1>3, <2>1
<1>5. ASSUME links[c] # None
      PROVE  links[c].sub \in Alive /\ links[c].dep \in Alive /\ ~Contains(freeLinks, c)
  <2>1. c \in Live(Heap)
    BY <1>1, <1>5 DEF Live
  <2>2. Heap.links[c].sub \in Here(Heap)
    BY <1>1, <2>1 DEF Pool, DepLists, Lists
  <2>3. Heap.links[c].dep \in Here(Heap)
    BY <1>1, <2>1 DEF Pool, SubLists, Lists
  <2>4. ~Contains(freeLinks, c)
    BY <1>2, <1>5 DEF Contains
  <2> QED
    BY <1>1, <2>2, <2>3, <2>4
<1> QED
  BY <1>4, <1>5

(* The invariant implies WellLinked. *)
LEMMA InvWellLinked ==
  ASSUME LinksInv
  PROVE  WellLinked
<1>1. ASSUME NEW n \in Alive
      PROVE  LET ds == DepLinks(Heap, n)
                 ss == SubLinks(Heap, n)
                 tail == node[n].depsTail
             IN /\ DoublyLinked(ds, "nextDep", "prevDep") /\ \A c \in ToSet(ds) : links[c].sub = n
                /\ DoublyLinked(ss, "nextSub", "prevSub") /\ \A c \in ToSet(ss) : links[c].dep = n
                /\ node[n].subsTail = IF ss = <<>> THEN None ELSE Last(ss)
                /\ tail # None => Contains(ds, tail)
                /\ ~Contains(running, n) => tail = IF ds = <<>> THEN None ELSE Last(ds)
  <2> DEFINE t == Deps[n]
             u == Subs[n]
  <2>1. /\ t = DepLinks(Heap, n) /\ t \in Seq(Live(Heap)) /\ Len(t) \in Nat
        /\ \A i \in 1..Len(t) :
             /\ links[t[i]].sub = n
             /\ links[t[i]].prevDep = IF i = 1 THEN None ELSE t[i - 1]
             /\ links[t[i]].nextDep = IF i = Len(t) THEN None ELSE t[i + 1]
    BY ONLY LinksInv, n \in Alive, TheList
  <2>2. /\ u = SubLinks(Heap, n) /\ u \in Seq(Live(Heap)) /\ Len(u) \in Nat
        /\ \A i \in 1..Len(u) :
             /\ links[u[i]].dep = n
             /\ links[u[i]].prevSub = IF i = 1 THEN None ELSE u[i - 1]
             /\ links[u[i]].nextSub = IF i = Len(u) THEN None ELSE u[i + 1]
        /\ node[n].subsTail = LastOf(u)
    BY ONLY LinksInv, n \in Alive, TheSubs
  <2>3. \E k \in 0..Len(t) : node[n].depsTail = Before(t, k) /\ (~Contains(running, n) => k = Len(t))
    BY ONLY LinksInv, n \in Alive, TheCursor
  <2> HIDE DEF t, u
  <2>4. /\ DOMAIN t = 1..Len(t) /\ (Len(t) = 0 <=> t = <<>>)
        /\ DOMAIN u = 1..Len(u) /\ (Len(u) = 0 <=> u = <<>>)
    BY ONLY <2>1, <2>2
  <2>5. DoublyLinked(t, "nextDep", "prevDep") /\ \A c \in ToSet(t) : links[c].sub = n
    <3>1. ASSUME NEW c \in ToSet(t) PROVE links[c].sub = n
      <4>1. PICK i \in 1..Len(t) : c = t[i]
        BY ONLY <2>4, c \in ToSet(t) DEF ToSet
      <4> QED
        BY ONLY <2>1, <4>1
    <3>2. \A i \in DOMAIN t : /\ links[t[i]].prevDep = IF i = 1 THEN None ELSE t[i - 1]
                              /\ links[t[i]].nextDep = IF i = Len(t) THEN None ELSE t[i + 1]
      BY ONLY <2>1, <2>4
    <3>3. \A i \in DOMAIN t : /\ links[t[i]]["prevDep"] = IF i = 1 THEN None ELSE t[i - 1]
                              /\ links[t[i]]["nextDep"] = IF i = Len(t) THEN None ELSE t[i + 1]
      BY ONLY <3>2
    <3> QED
      BY ONLY <3>1, <3>3 DEF DoublyLinked
  <2>6. DoublyLinked(u, "nextSub", "prevSub") /\ \A c \in ToSet(u) : links[c].dep = n
    <3>1. ASSUME NEW c \in ToSet(u) PROVE links[c].dep = n
      <4>1. PICK i \in 1..Len(u) : c = u[i]
        BY ONLY <2>4, c \in ToSet(u) DEF ToSet
      <4> QED
        BY ONLY <2>2, <4>1
    <3>2. \A i \in DOMAIN u : /\ links[u[i]].prevSub = IF i = 1 THEN None ELSE u[i - 1]
                              /\ links[u[i]].nextSub = IF i = Len(u) THEN None ELSE u[i + 1]
      BY ONLY <2>2, <2>4
    <3>3. \A i \in DOMAIN u : /\ links[u[i]]["prevSub"] = IF i = 1 THEN None ELSE u[i - 1]
                              /\ links[u[i]]["nextSub"] = IF i = Len(u) THEN None ELSE u[i + 1]
      BY ONLY <3>2
    <3> QED
      BY ONLY <3>1, <3>3 DEF DoublyLinked
  <2>7. node[n].subsTail = IF u = <<>> THEN None ELSE Last(u)
    BY ONLY <2>2, <2>4 DEF LastOf, Last
  <2>8. node[n].depsTail # None => Contains(t, node[n].depsTail)
    BY ONLY <2>1, <2>3 DEF Before, Contains
  <2>9. ~Contains(running, n) => node[n].depsTail = IF t = <<>> THEN None ELSE Last(t)
    BY ONLY <2>3, <2>4 DEF Before, Last
  <2> QED
    BY ONLY <2>1, <2>2, <2>5, <2>6, <2>7, <2>8, <2>9
<1>2. ASSUME NEW c \in DOMAIN links, links[c] # None
      PROVE  /\ links[c].sub \in Alive /\ Contains(DepLinks(Heap, links[c].sub), c)
             /\ links[c].dep \in Alive /\ Contains(SubLinks(Heap, links[c].dep), c)
             /\ ~Contains(freeLinks, c)
  <2>1. links[c].sub \in Alive /\ links[c].dep \in Alive /\ ~Contains(freeLinks, c)
    BY ONLY LinksInv, <1>2, PoolIs
  <2>2. c \in Live(Heap)
    BY <1>2 DEF Live, Heap
  <2>3. Contains(DepLinks(Heap, links[c].sub), c)
    <3> DEFINE n == links[c].sub
    <3>1. /\ Deps[n] = DepLinks(Heap, n)
          /\ \A b \in Live(Heap) : links[b].sub = n => \E i \in 1..Len(Deps[n]) : Deps[n][i] = b
      BY ONLY LinksInv, <2>1, TheList
    <3> QED
      BY ONLY <3>1, <2>2 DEF Contains
  <2>4. Contains(SubLinks(Heap, links[c].dep), c)
    <3> DEFINE n == links[c].dep
    <3>1. /\ Subs[n] = SubLinks(Heap, n)
          /\ \A b \in Live(Heap) : links[b].dep = n => \E i \in 1..Len(Subs[n]) : Subs[n][i] = b
      BY ONLY LinksInv, <2>1, TheSubs
    <3> QED
      BY ONLY <3>1, <2>2 DEF Contains
  <2> QED
    BY ONLY <2>1, <2>3, <2>4
<1>3. ASSUME NEW c \in DOMAIN links, links[c] = None
      PROVE  \E i \in DOMAIN freeLinks : \A j \in DOMAIN freeLinks : freeLinks[j] = c <=> j = i
  BY ONLY LinksInv, <1>3, PoolIs
<1> QED
  BY <1>1, <1>2, <1>3 DEF WellLinked

(* The invariant implies OneLinkPerEdge. *)
LEMMA InvOneLink ==
  ASSUME LinksInv
  PROVE  OneLinkPerEdge
<1> SUFFICES ASSUME NEW n \in Alive, NEW d \in Alive, ~Contains(running, n), ReadOnce(n, d),
                    NEW b \in ToSet(DepLinks(Heap, n)), NEW c \in ToSet(DepLinks(Heap, n)),
                    links[b].dep = d, links[c].dep = d
             PROVE  b = c
  BY DEF OneLinkPerEdge
<1> DEFINE t == Deps[n]
           e == Sources(Heap, t)
           r == reads[n]
<1>1. t = DepLinks(Heap, n) /\ t \in Seq(Live(Heap)) /\ Len(t) \in Nat
  BY ONLY LinksInv, n \in Alive, TheList
<1>2. Record(e, Len(t), r)
  BY ONLY LinksInv, n \in Alive, ~Contains(running, n), TheCursor
<1>3. r \in Seq(Nodes)
  BY InvIs
<1> HIDE DEF t, r
<1>4. PICK i \in 1..Len(t), j \in 1..Len(t) : t[i] = b /\ t[j] = c
  BY <1>1 DEF ToSet
<1>5. e[i] = d /\ e[j] = d
  BY <1>4 DEF Sources, Heap
<1> HIDE DEF e
<1>6. ASSUME i # j PROVE FALSE
  <2>1. i < j \/ j < i
    BY ONLY <1>1, <1>6, i \in 1..Len(t), j \in 1..Len(t)
  <2>2. Twice(r, d)
    BY ONLY <1>2, <1>5, <2>1, i \in 1..Len(t), j \in 1..Len(t) DEF Record
  <2> QED
    BY <1>3, <2>2 DEF ReadOnce, Twice, r
<1> QED
  BY <1>4, <1>6

(* The links and the free slots of the pool never get fewer, except where  *)
(* link takes one for a read that the last run has not made.               *)
LEMMA AllocStep ==
  ASSUME LinksInv, ~DisposeWhileTracking, Next, Allocates
  PROVE  ~Repeats(reads'[Last(running)], lastReads[Last(running)]) /\ Last(running) \in Nodes
<1>1. Len(links) \in Nat /\ Len(freeLinks) \in Nat
  BY InvIs DEF HeapT
<1>2. ASSUME Len(links') = Len(links), Len(freeLinks') >= Len(freeLinks)
      PROVE  FALSE
  <2>1. Len(freeLinks') \in Nat
    <3>1. LinksInv'
      BY InvStep
    <3>2. Heap' \in HeapT
      BY ONLY <3>1 DEF LinksInv, Sound, Pool
    <3> QED
      BY ONLY <3>2 DEF HeapT, Heap
  <2> QED
    BY ONLY <1>1, <1>2, <2>1, Allocates DEF Allocates
<1>3. ASSUME UNCHANGED <<links, freeLinks>> PROVE FALSE
  BY ONLY <1>1, <1>3, Allocates DEF Allocates
<1>4. ASSUME NEW n \in Nodes, Create(n) \/ StartTracking(n) PROVE FALSE
  BY ONLY <1>3, <1>4 DEF Create, StartTracking
<1>5. ASSUME NEW n \in Nodes, EndTracking(n) PROVE FALSE
  BY ONLY <1>2, <1>5, LinksInv, EndStep
<1>6. ASSUME NEW n \in Nodes, DisposeNode(n) PROVE FALSE
  BY <1>2, <1>6, DisposeStep
<1>7. ASSUME NEW n \in Nodes, NEW d \in Nodes, LinkAgain(n, d) \/ LinkSkip(n, d) \/ LinkReuse(n, d) PROVE FALSE
  BY ONLY <1>3, <1>7 DEF LinkAgain, LinkSkip, LinkReuse, heap
<1>8. ASSUME NEW n \in Nodes, NEW d \in Nodes, LinkNew(n, d)
      PROVE  ~Repeats(reads'[Last(running)], lastReads[Last(running)]) /\ Last(running) \in Nodes
  <2>1. ~Repeats(reads'[n], lastReads[n])
    BY ONLY <1>8, LinksInv, NewStep
  <2>2. n = Last(running)
    BY <1>8 DEF LinkNew, Reading
  <2> QED
    BY ONLY <2>1, <2>2, n \in Nodes
<1> QED
  BY <1>4, <1>5, <1>6, <1>7, <1>8 DEF Next

(* A run that repeats the one before, in the words of the property. *)
LEMMA PrefixRepeats ==
  ASSUME NEW r \in Seq(Nodes), NEW l \in Seq(Nodes), IsInjective(l), IsPrefix(r, l)
  PROVE  Repeats(r, l)
<1>1. Len(r) \in Nat /\ Len(l) \in Nat /\ DOMAIN l = 1..Len(l)
  OBVIOUS
<1>2. \A i, j \in 1..Len(l) : l[i] = l[j] => i = j
  BY <1>1 DEF IsInjective
<1>3. Len(r) <= Len(l) /\ SubSeq(r, 1, Len(r)) = SubSeq(l, 1, Len(r))
  BY DEF IsPrefix
<1>4. ASSUME NEW i \in 1..Len(r) PROVE r[i] = l[i]
  <2>1. SubSeq(r, 1, Len(r))[i] = r[i] /\ SubSeq(l, 1, Len(r))[i] = l[i]
    BY <1>1, <1>3
  <2> QED
    BY ONLY <1>3, <2>1
<1> QED
  BY <1>2, <1>3, <1>4 DEF Repeats

(* A run that reads what the run before it read, in the same order and each once,
   allocates no link, whatever happened in between. *)
THEOREM SpecUnchanged ==
  ASSUME ~DisposeWhileTracking
  PROVE  Spec => UnchangedAllocatesNothing
<1>1. ASSUME LinksInv, [Next]_vars
      PROVE  [Allocates => LET last == lastReads[Last(running)]
                           IN ~(IsInjective(last) /\ IsPrefix(reads'[Last(running)], last))]_vars
  <2> SUFFICES ASSUME Next, Allocates, IsInjective(lastReads[Last(running)]),
                      IsPrefix(reads'[Last(running)], lastReads[Last(running)])
               PROVE  FALSE
    BY <1>1
  <2>1. ~Repeats(reads'[Last(running)], lastReads[Last(running)]) /\ Last(running) \in Nodes
    BY <1>1, AllocStep
  <2>2. LinksInv'
    BY <1>1, InvStep
  <2>3. reads' \in [Nodes -> Seq(Nodes)]
    BY ONLY <2>2 DEF LinksInv, Sound, Histories
  <2>4. lastReads \in [Nodes -> Seq(Nodes)]
    BY ONLY <1>1 DEF LinksInv, Sound, Histories
  <2> QED
    BY <2>1, <2>3, <2>4, PrefixRepeats
<1>2. LinksInv /\ [Next]_vars => [Allocates => LET last == lastReads[Last(running)]
                           IN ~(IsInjective(last) /\ IsPrefix(reads'[Last(running)], last))]_vars
  BY <1>1
<1>3. Spec => []LinksInv
  BY LinksInvariant
<1> QED
  BY <1>2, <1>3, PTL DEF Spec, UnchangedAllocatesNothing

-----------------------------------------------------------------------------
(* The state of DepGraph.                                                  *)
GraphDeps == [n \in Nodes |-> IF n \in Alive THEN DepSet(ToSet(DepLinks(Heap, n))) ELSE {}]
GraphRead == [n \in Nodes |-> IF n \in Alive /\ Contains(running, n) THEN ToSet(reads[n]) ELSE {}]

(* The elements of a sequence. *)
LEMMA ToSetIs ==
  ASSUME NEW s \in Seq(Nodes)
  PROVE  ToSet(s) = {s[i] : i \in 1..Len(s)} /\ \A x : x \in ToSet(s) <=> Contains(s, x)
  BY DEF ToSet, Contains

(* Its edges are those of the pool. *)
LEMMA GraphIs ==
  ASSUME LinksInv
  PROVE  GraphDeps = Linked
<1> SUFFICES ASSUME NEW n \in Alive
             PROVE  DepSet(ToSet(DepLinks(Heap, n))) = Edges(Heap, Deps, n)
  <2>1. \A n \in Nodes \ Alive : Edges(Heap, Deps, n) = {}
    BY InvIs DEF Edges
  <2> QED
    BY <2>1 DEF GraphDeps, Linked
<1> DEFINE t == Deps[n]
<1>1. t = DepLinks(Heap, n) /\ DOMAIN t = 1..Len(t)
  <2>1. t = DepLinks(Heap, n) /\ t \in Seq(Live(Heap))
    BY ONLY LinksInv, n \in Alive, TheList
  <2> QED
    BY <2>1
<1>2. Edges(Heap, Deps, n) = {links[t[i]].dep : i \in 1..Len(t)}
  <2>1. n \in Here(Heap) /\ Heap.links = links
    BY InvIs
  <2> HIDE DEF t
  <2>2. t = Deps[n]
    BY DEF t
  <2> QED
    BY ONLY <2>1, <2>2 DEF Edges, Sources
<1> HIDE DEF t
<1>3. DepSet(ToSet(t)) = {links[t[i]].dep : i \in 1..Len(t)}
  <2>1. ASSUME NEW x \in DepSet(ToSet(t)) PROVE x \in {links[t[i]].dep : i \in 1..Len(t)}
    BY ONLY <1>1, <2>1 DEF DepSet, ToSet
  <2>2. ASSUME NEW i \in 1..Len(t) PROVE links[t[i]].dep \in DepSet(ToSet(t))
    BY ONLY <1>1, <2>2 DEF DepSet, ToSet
  <2> QED
    BY <2>1, <2>2
<1> QED
  BY <1>1, <1>2, <1>3

(* The initial states implement those of the graph. *)
LEMMA GraphInit ==
  ASSUME Init
  PROVE  Graph!Init
<1>1. LinksInv
  BY InitInv
<1>2. links = <<>> /\ running = <<>>
  BY DEF Init
<1>3. Linked = [n \in Nodes |-> {}]
  <2>1. Live(Heap) = {}
    BY <1>2 DEF Live, Heap
  <2>2. ASSUME NEW n \in Here(Heap) PROVE Edges(Heap, Deps, n) = {}
    <3>1. n \in Alive
      BY <1>1, InvIs
    <3>2. Len(Deps[n]) \in Nat /\ \A i \in 1..Len(Deps[n]) : Deps[n][i] \in Live(Heap)
      BY ONLY <1>1, <3>1, TheList
    <3>3. 1..Len(Deps[n]) = {}
      BY ONLY <2>1, <3>2
    <3> QED
      BY ONLY <3>3 DEF Edges
  <2> QED
    BY <2>2 DEF Linked, Edges
<1>4. GraphDeps = [n \in Nodes |-> {}]
  BY ONLY <1>1, <1>3, GraphIs
<1>5. GraphRead = [n \in Nodes |-> {}]
  BY <1>2 DEF GraphRead, Contains
<1>6. ToSet(running) = {}
  BY <1>2 DEF ToSet
<1>7. Alive \subseteq Nodes
  BY DEF Alive
<1> QED
  BY ONLY <1>4, <1>5, <1>6, <1>7 DEF Graph!Init, GraphDeps, GraphRead

(* What a running closure has read.                                        *)
ReadSoFar(n) == IF Contains(running, n) THEN {reads[n][i] : i \in 1..Len(reads[n])} ELSE {}

(* What it says of running closures, in terms of their histories. *)
LEMMA ReadAt ==
  ASSUME LinksInv
  PROVE  /\ GraphRead = [n \in Nodes |-> ReadSoFar(n)]
         /\ \A n \in Nodes : Contains(running, n) => n \in Alive
         /\ \A n : n \in ToSet(running) <=> Contains(running, n)
<1>1. /\ running \in Seq(Nodes) /\ reads \in [Nodes -> Seq(Nodes)]
      /\ \A i \in 1..Len(running) : running[i] \in Alive
  BY InvIs
<1>2. \A n \in Nodes : Contains(running, n) => n \in Alive
  BY <1>1 DEF Contains
<1>3. \A n \in Nodes : ToSet(reads[n]) = {reads[n][i] : i \in 1..Len(reads[n])}
  BY <1>1, ToSetIs
<1>4. \A n : n \in ToSet(running) <=> Contains(running, n)
  BY <1>1, ToSetIs
<1>5. ASSUME NEW n \in Nodes
      PROVE  (IF n \in Alive /\ Contains(running, n) THEN ToSet(reads[n]) ELSE {}) = ReadSoFar(n)
  BY ONLY <1>2, <1>3, n \in Nodes DEF ReadSoFar
<1>6. GraphRead = [n \in Nodes |-> ReadSoFar(n)]
  BY ONLY <1>5 DEF GraphRead
<1> QED
  BY ONLY <1>2, <1>4, <1>6

(* The state of the graph, before and after a step.                        *)
GraphState ==
  /\ GraphDeps = Linked /\ GraphRead = [n \in Nodes |-> ReadSoFar(n)]
  /\ \A n \in Nodes : Contains(running, n) => n \in Alive
  /\ \A n : n \in ToSet(running) <=> Contains(running, n)

(* It holds before and after a step. *)
LEMMA GraphStates == (LinksInv => GraphState) /\ (LinksInv => GraphState)'
<1>1. LinksInv => GraphState
  BY GraphIs, ReadAt DEF GraphState
<1> QED
  BY <1>1, PTL

(* Create implements Create. *)
LEMMA GraphCreate ==
  ASSUME LinksInv, NEW n \in Nodes, Create(n)
  PROVE  Graph!Create(n)
<1>1. LinksInv' /\ Alive' = Alive \cup {n} /\ n \notin Alive /\ Linked' = Linked
  BY ONLY LinksInv, Create(n), n \in Nodes, CreateStep
<1>2. running' = running /\ reads' = reads
  BY DEF Create
<1>3. GraphState /\ GraphState'
  BY ONLY LinksInv, <1>1, GraphStates
<1>4. GraphDeps' = GraphDeps /\ GraphRead' = GraphRead
  BY ONLY <1>1, <1>2, <1>3 DEF GraphState, ReadSoFar
<1> QED
  BY ONLY <1>1, <1>2, <1>4 DEF Graph!Create, GraphDeps, GraphRead

(* StartTracking implements Start. *)
LEMMA GraphStart ==
  ASSUME LinksInv, NEW n \in Nodes, StartTracking(n)
  PROVE  Graph!Start(n)
<1>1. LinksInv' /\ Alive' = Alive /\ Linked' = Linked
  BY ONLY LinksInv, StartTracking(n), n \in Nodes, StartStep
<1>2. /\ n \in Alive /\ ~Contains(running, n) /\ running' = Append(running, n)
      /\ reads' = [reads EXCEPT ![n] = <<>>]
  BY DEF StartTracking
<1>3. GraphState /\ GraphState'
  BY ONLY LinksInv, <1>1, GraphStates
<1>4. /\ running \in Seq(Nodes) /\ reads \in [Nodes -> Seq(Nodes)]
      /\ \A i, j \in 1..Len(running) : running[i] = running[j] => i = j
  BY InvIs
<1>5. \A m : Contains(running', m) <=> Contains(running, m) \/ m = n
  BY ONLY <1>2, <1>4, n \in Nodes, RunStarts
<1>6. ASSUME NEW m \in Nodes PROVE ReadSoFar(m)' = ReadSoFar(m)
  <2>1. CASE m = n
    <3>1. reads'[m] = <<>>
      BY ONLY <1>2, <1>4, <2>1, m \in Nodes
    <3>2. {reads'[m][i] : i \in 1..Len(reads'[m])} = {}
      BY ONLY <3>1
    <3> QED
      BY ONLY <1>2, <2>1, <3>2 DEF ReadSoFar
  <2>2. CASE m # n
    <3>1. reads'[m] = reads[m]
      BY ONLY <1>2, <1>4, <2>2, m \in Nodes
    <3>2. Contains(running', m) <=> Contains(running, m)
      BY ONLY <1>5, <2>2
    <3> QED
      BY ONLY <3>1, <3>2 DEF ReadSoFar
  <2> QED
    BY <2>1, <2>2
<1>7. GraphDeps' = GraphDeps /\ GraphRead' = GraphRead
  BY ONLY <1>1, <1>3, <1>6 DEF GraphState
<1>8. ToSet(running)' = ToSet(running) \cup {n} /\ n \notin ToSet(running)
  BY ONLY <1>2, <1>3, <1>5 DEF GraphState
<1> QED
  BY ONLY <1>1, <1>2, <1>7, <1>8 DEF Graph!Start, GraphDeps, GraphRead

(* The reads: a link that is there, or a new one.                          *)
LEMMA ReadsEdge ==
  ASSUME LinksInv, NEW n \in Nodes, NEW d \in Nodes, Reading(n, d), LinksInv', Alive' = Alive,
         Linked' = [Linked EXCEPT ![n] = @ \cup {d}]
  PROVE  Graph!Read(n, d)
<1>1. /\ Looks(Heap, Deps, Subs, running, reads, lastReads, n, d, reads'[n], reads')
      /\ n \in Alive /\ d \in Alive /\ running' = running
  BY ReadingIs
<1>2. Contains(running, n) /\ ReadTo(reads[n], d, reads'[n]) /\ reads' = [reads EXCEPT ![n] = reads'[n]]
  BY ONLY <1>1 DEF Looks
<1>3. GraphState /\ GraphState'
  BY ONLY LinksInv, LinksInv', GraphStates
<1>4. reads \in [Nodes -> Seq(Nodes)]
  BY InvIs
<1>5. {reads'[n][i] : i \in 1..Len(reads'[n])} = {reads[n][i] : i \in 1..Len(reads[n])} \cup {d}
  BY ONLY <1>2, ReadSet
<1>6. ReadSoFar(n)' = ReadSoFar(n) \cup {d}
  BY ONLY <1>1, <1>2, <1>5 DEF ReadSoFar
<1>7. ASSUME NEW m \in Nodes, m # n PROVE ReadSoFar(m)' = ReadSoFar(m)
  <2>1. reads'[m] = reads[m]
    BY ONLY <1>2, <1>4, <1>7
  <2> QED
    BY ONLY <1>1, <2>1 DEF ReadSoFar
<1>8. GraphRead' = [GraphRead EXCEPT ![n] = @ \cup {d}]
  BY ONLY <1>3, <1>6, <1>7, n \in Nodes DEF GraphState
<1>9. GraphDeps' = [GraphDeps EXCEPT ![n] = @ \cup {d}]
  BY ONLY <1>3, Linked' = [Linked EXCEPT ![n] = @ \cup {d}] DEF GraphState
<1>10. n \in ToSet(running)
  BY ONLY <1>2, <1>3 DEF GraphState
<1> QED
  BY ONLY <1>1, <1>8, <1>9, <1>10, Alive' = Alive DEF Graph!Read, GraphDeps, GraphRead

(* EndTracking implements End. *)
LEMMA GraphEnd ==
  ASSUME LinksInv, NEW n \in Nodes, EndTracking(n)
  PROVE  Graph!End(n)
<1>1. /\ LinksInv' /\ Alive' = Alive /\ n \in Alive
      /\ Linked' = [Linked EXCEPT ![n] = {reads[n][i] : i \in 1..Len(reads[n])}]
  BY ONLY LinksInv, EndTracking(n), n \in Nodes, EndStep
<1>2. running # <<>> /\ n = Last(running) /\ running' = Front(running) /\ reads' = reads
  BY DEF EndTracking
<1>3. GraphState /\ GraphState'
  BY ONLY LinksInv, <1>1, GraphStates
<1>4. /\ running \in Seq(Nodes)
      /\ \A i, j \in 1..Len(running) : running[i] = running[j] => i = j
  BY InvIs
<1>5. Contains(running, n) /\ \A m : Contains(running', m) <=> Contains(running, m) /\ m # n
  BY ONLY <1>2, <1>4, RunEnds
<1>6. ReadSoFar(n) = {reads[n][i] : i \in 1..Len(reads[n])} /\ ReadSoFar(n)' = {}
  BY ONLY <1>5 DEF ReadSoFar
<1>7. ASSUME NEW m \in Nodes, m # n PROVE ReadSoFar(m)' = ReadSoFar(m)
  <2>1. Contains(running', m) <=> Contains(running, m)
    BY ONLY <1>5, <1>7
  <2> QED
    BY ONLY <1>2, <2>1 DEF ReadSoFar
<1>8. GraphRead' = [GraphRead EXCEPT ![n] = {}]
  BY ONLY <1>3, <1>6, <1>7, n \in Nodes DEF GraphState
<1>9. GraphDeps' = [GraphDeps EXCEPT ![n] = GraphRead[n]]
  <2>1. GraphRead[n] = ReadSoFar(n)
    BY ONLY <1>3, n \in Nodes DEF GraphState
  <2> QED
    BY ONLY <1>1, <1>3, <1>6, <2>1 DEF GraphState
<1>10. n \in ToSet(running) /\ ToSet(running)' = ToSet(running) \ {n}
  BY ONLY <1>3, <1>5 DEF GraphState
<1> QED
  BY ONLY <1>1, <1>8, <1>9, <1>10 DEF Graph!End, GraphDeps, GraphRead

(* DisposeNode implements Dispose. *)
LEMMA GraphDispose ==
  ASSUME LinksInv, ~DisposeWhileTracking, NEW n \in Nodes, DisposeNode(n)
  PROVE  Graph!Dispose(n)
<1>1. /\ LinksInv' /\ Alive' = Alive \ {n}
      /\ Linked' = [m \in Nodes |-> IF m = n THEN {} ELSE Linked[m] \ {n}]
      /\ ~Contains(running, n)
      /\ \A m \in Nodes : Contains(running, m) => reads'[m] = reads[m] /\ \A j \in 1..Len(reads[m]) : reads[m][j] # n
  BY ONLY LinksInv, ~DisposeWhileTracking, DisposeNode(n), n \in Nodes, DisposeStep
<1>2. n \in Alive /\ running' = running
  BY DEF DisposeNode
<1>3. GraphState /\ GraphState'
  BY ONLY LinksInv, <1>1, GraphStates
<1>4. ASSUME NEW m \in Nodes PROVE ReadSoFar(m)' = IF m = n THEN {} ELSE ReadSoFar(m) \ {n}
  <2>1. CASE Contains(running, m)
    <3>1. reads'[m] = reads[m] /\ \A j \in 1..Len(reads[m]) : reads[m][j] # n
      BY ONLY <1>1, <2>1, m \in Nodes
    <3>2. n \notin {reads[m][i] : i \in 1..Len(reads[m])}
      BY ONLY <3>1
    <3>3. ReadSoFar(m)' = ReadSoFar(m) /\ n \notin ReadSoFar(m)
      BY ONLY <1>2, <2>1, <3>1, <3>2 DEF ReadSoFar
    <3>4. m # n
      BY ONLY <1>1, <2>1
    <3> QED
      BY ONLY <3>3, <3>4
  <2>2. CASE ~Contains(running, m)
    BY ONLY <1>2, <2>2 DEF ReadSoFar
  <2> QED
    BY <2>1, <2>2
<1>5. GraphRead' = [m \in Nodes |-> IF m = n THEN {} ELSE GraphRead[m] \ {n}]
  BY ONLY <1>3, <1>4 DEF GraphState
<1>6. GraphDeps' = [m \in Nodes |-> IF m = n THEN {} ELSE GraphDeps[m] \ {n}]
  BY ONLY <1>1, <1>3 DEF GraphState
<1> QED
  BY ONLY <1>1, <1>2, <1>5, <1>6 DEF Graph!Dispose, Graph!Detach, GraphDeps, GraphRead

(* Every step implements a step of the graph, or leaves it as it is. *)
LEMMA GraphStep ==
  ASSUME LinksInv, ~DisposeWhileTracking, [Next]_vars
  PROVE  [Graph!Next]_Graph!edgeVars
<1>1. ASSUME NEW n \in Nodes, Create(n) PROVE Graph!Next
  BY ONLY <1>1, LinksInv, GraphCreate DEF Graph!Next
<1>2. ASSUME NEW n \in Nodes, StartTracking(n) PROVE Graph!Next
  BY ONLY <1>2, LinksInv, GraphStart DEF Graph!Next
<1>3. ASSUME NEW n \in Nodes, EndTracking(n) PROVE Graph!Next
  BY ONLY <1>3, LinksInv, GraphEnd DEF Graph!Next
<1>4. ASSUME NEW n \in Nodes, DisposeNode(n) PROVE Graph!Next
  BY ONLY <1>4, LinksInv, ~DisposeWhileTracking, GraphDispose DEF Graph!Next
<1>5. ASSUME NEW n \in Nodes, NEW d \in Nodes,
             LinkAgain(n, d) \/ LinkReuse(n, d) \/ LinkSkip(n, d) \/ LinkNew(n, d)
      PROVE  Graph!Next
  <2>1. Reading(n, d)
    BY ONLY <1>5 DEF LinkAgain, LinkReuse, LinkSkip, LinkNew
  <2>2. LinksInv' /\ Alive' = Alive /\ Linked' = [Linked EXCEPT ![n] = @ \cup {d}]
    BY ONLY <1>5, LinksInv, AgainStep, ReuseStep, NewStep
  <2>3. Graph!Read(n, d)
    BY ONLY <2>1, <2>2, LinksInv, n \in Nodes, d \in Nodes, ReadsEdge
  <2> QED
    BY ONLY <2>3, n \in Nodes, d \in Nodes DEF Graph!Next
<1>6. ASSUME UNCHANGED vars PROVE UNCHANGED Graph!edgeVars
  <2>1. LinksInv' /\ Alive' = Alive /\ Linked' = Linked /\ running' = running /\ reads' = reads
    BY <1>6, Stutter DEF vars
  <2>2. GraphState /\ GraphState'
    BY ONLY LinksInv, <2>1, GraphStates
  <2>3. GraphDeps' = GraphDeps /\ GraphRead' = GraphRead
    BY ONLY <2>1, <2>2 DEF GraphState, ReadSoFar
  <2> QED
    BY ONLY <2>1, <2>3 DEF Graph!edgeVars, GraphDeps, GraphRead
<1> QED
  BY <1>1, <1>2, <1>3, <1>4, <1>5, <1>6 DEF Next

(* The link pool implements the graph of DepGraph.tla: after a run a node depends
   on exactly the live nodes that the run has read, whichever links were used
   again, skipped, added or freed, and disposal leaves no edge at either end. *)
THEOREM SpecImplementsGraph ==
  ASSUME ~DisposeWhileTracking
  PROVE  Spec => ImplementsGraph
<1>1. Init => Graph!Init
  BY GraphInit
<1>2. LinksInv /\ [Next]_vars => [Graph!Next]_Graph!edgeVars
  BY GraphStep
<1>3. Spec => []LinksInv
  BY LinksInvariant
<1> QED
  BY <1>1, <1>2, <1>3, PTL DEF Spec, ImplementsGraph, Graph!Spec

(* Both lists of every node are doubly linked from head to tail, every link in use
   is in the lists of both its ends, every other slot is free exactly once, and
   the cursor of a running node is in its own list. *)
THEOREM SpecWellLinked ==
  ASSUME ~DisposeWhileTracking
  PROVE  Spec => []WellLinked
<1>1. LinksInv => WellLinked
  BY InvWellLinked
<1> QED
  BY <1>1, LinksInvariant, PTL

(* After a run an edge has one link, unless the run went back to the source after
   it had left it. *)
THEOREM SpecOneLinkPerEdge ==
  ASSUME ~DisposeWhileTracking
  PROVE  Spec => []OneLinkPerEdge
<1>1. LinksInv => OneLinkPerEdge
  BY InvOneLink
<1> QED
  BY <1>1, LinksInvariant, PTL
=============================================================================
