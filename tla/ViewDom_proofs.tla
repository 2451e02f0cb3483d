---------------------------- MODULE ViewDom_proofs ----------------------------
(***************************************************************************)
(* Every variable of a view has its type; and when its effects are done,   *)
(* both backends show the branch of the condition and, in the order of the *)
(* items, a row for each key with its item and index: for all lists,       *)
(* programs and bounds.  A loop of the model (Each, FlattenSeq) is handled *)
(* as the sequence of its intermediate results; an induction, as a set of  *)
(* numbers, or of sequences, that has the first and with each the next.    *)
(***************************************************************************)
EXTENDS View_proofs, WellFoundedInduction
-----------------------------------------------------------------------------
(* Loops                                                                   *)

(* A set of numbers has a least one.                                       *)
LEMMA LeastNumber ==
  ASSUME NEW T \in SUBSET Nat, T # {}
  PROVE  \E x \in T : \A y \in T : x <= y
<1> DEFINE R == StrictSubsetOrdering(Nat)
           S == {0..x : x \in T}
<1>1. IsWellFoundedOn(R, FiniteSubsetsOf(Nat))
  BY FS_StrictSubsetOrderingWellFounded
<1>2. S \subseteq FiniteSubsetsOf(Nat) /\ S # {}
  <2>1. \A x \in T : IsFiniteSet(0..x) /\ 0..x \in SUBSET Nat
    BY FS_Interval
  <2> QED
    BY <2>1 DEF FiniteSubsetsOf
<1>3. PICK s \in S : \A t \in S : ~ (<<t, s>> \in R)
  <2> HIDE DEF R, S
  <2> QED
    BY <1>1, <1>2, WFMin
<1>4. PICK x \in T : s = 0..x
  OBVIOUS
<1>5. ASSUME NEW y \in T, y < x PROVE FALSE
  <2>1. 0..y \in S /\ 0..y \subseteq 0..x /\ x \notin 0..y /\ x \in 0..x
    BY <1>5
  <2>2. <<0..y, 0..x>> \in R
    BY <2>1 DEF StrictSubsetOrdering
  <2> QED
    BY <1>3, <1>4, <2>1, <2>2
<1> QED
  BY <1>5

(* What holds at first and is kept by each step up to n holds up to n.     *)
LEMMA Steps ==
  ASSUME NEW n \in Nat, NEW A, 0 \in A, \A i \in 1..n : i - 1 \in A => i \in A
  PROVE  0..n \subseteq A
<1> SUFFICES ASSUME (0..n) \ A # {}
             PROVE  FALSE
  OBVIOUS
<1>1. PICK x \in (0..n) \ A : \A y \in (0..n) \ A : x <= y
  <2>1. (0..n) \ A \in SUBSET Nat
    OBVIOUS
  <2> QED
    BY <2>1, LeastNumber
<1>2. x \in 1..n /\ x - 1 \in 0..n
  BY <1>1
<1>3. x - 1 \in A
  BY <1>1, <1>2
<1> QED
  BY <1>1, <1>2, <1>3

(* A loop of n rounds has values.                                          *)
IsRun(w, S, x, n, F) == w \in [0..n -> S] /\ w[0] = x /\ \A i \in 1..n : w[i] = F[i][w[i - 1]]

LEMMA Rounds ==
  ASSUME NEW S, NEW x \in S, NEW n \in Nat, NEW F \in [1..n -> [S -> S]]
  PROVE  \E w : IsRun(w, S, x, n, F)
<1> DEFINE Good(k, w) == w[0] = x /\ \A i \in 1..k : w[i] = F[i][w[i - 1]]
           A == {k \in 0..n : \E w \in [0..k -> S] : Good(k, w)}
<1>1. 0 \in A
  <2> DEFINE v == [i \in 0..0 |-> x]
  <2>1. v \in [0..0 -> S] /\ Good(0, v)
    OBVIOUS
  <2> HIDE DEF v, Good
  <2> QED
    BY <2>1
<1>2. ASSUME NEW i \in 1..n, i - 1 \in A PROVE i \in A
  <2>1. PICK w \in [0..i - 1 -> S] : Good(i - 1, w)
    BY <1>2
  <2> DEFINE v == [j \in 0..i |-> IF j = i THEN F[i][w[i - 1]] ELSE w[j]]
  <2>2. w[i - 1] \in S
    BY <1>2, <2>1
  <2>3. F[i][w[i - 1]] \in S
    BY <1>2, <2>2
  <2>4. v \in [0..i -> S]
    BY <1>2, <2>1, <2>3
  <2>5. v[0] = x
    BY <1>2, <2>1
  <2>6. ASSUME NEW j \in 1..i PROVE v[j] = F[j][v[j - 1]]
    <3>1. CASE j = i
      BY <1>2, <3>1
    <3>2. CASE j # i
      <4>1. j \in 1..i - 1 /\ j - 1 \in 0..i - 1 /\ j \in 0..i /\ j - 1 # i /\ j - 1 \in 0..i
        BY <1>2, <2>6, <3>2
      <4> QED
        BY <2>1, <4>1, <3>2
    <3> QED
      BY <3>1, <3>2
  <2> HIDE DEF v
  <2>7. Good(i, v)
    BY <2>5, <2>6
  <2> HIDE DEF Good
  <2> QED
    BY <1>2, <2>4, <2>7
<1> HIDE DEF A
<1>3. 0..n \subseteq A
  BY ONLY <1>1, <1>2, n \in Nat, Steps
<1>4. n \in A
  BY <1>3
<1> QED
  BY <1>4 DEF A, IsRun

(* Two runs of a loop are the same.                                        *)
InStep(v, w, n) == v[0] = w[0] /\ \A i \in 1..n : v[i - 1] = w[i - 1] => v[i] = w[i]
Alike(v, w, n) == \A i \in 0..n : v[i] = w[i]

LEMMA SameRounds ==
  ASSUME NEW n \in Nat, NEW v, NEW w, InStep(v, w, n)
  PROVE  Alike(v, w, n)
<1> DEFINE A == {i \in 0..n : v[i] = w[i]}
<1>1. 0 \in A /\ \A i \in 1..n : i - 1 \in A => i \in A
  BY DEF InStep
<1> HIDE DEF A
<1>2. 0..n \subseteq A
  BY <1>1, Steps
<1> QED
  BY <1>2 DEF A, Alike

(* What holds of no elements and of one more holds of all sequences.       *)
LEMMA SeqInduct ==
  ASSUME NEW S, NEW A, <<>> \in A, \A b \in Seq(S), x \in S : b \in A => Append(b, x) \in A
  PROVE  Seq(S) \subseteq A
<1> DEFINE B == {n \in Nat : \A b \in Seq(S) : Len(b) = n => b \in A}
<1> SUFFICES ASSUME NEW b \in Seq(S) PROVE b \in A
  OBVIOUS
<1>1. 0 \in B
  <2>1. \A c \in Seq(S) : Len(c) = 0 => c = <<>>
    OBVIOUS
  <2> QED
    BY <2>1
<1>2. ASSUME NEW n \in 1..Len(b), n - 1 \in B PROVE n \in B
  <2> SUFFICES ASSUME NEW c \in Seq(S), Len(c) = n PROVE c \in A
    BY <1>2
  <2>1. c # <<>>
    BY <1>2
  <2>2. PICK d \in Seq(S), x \in S : c = Append(d, x)
    BY <2>1, SequenceEmptyOrAppend
  <2>3. Len(d) = n - 1
    BY <1>2, <2>2
  <2> QED
    BY <1>2, <2>2, <2>3
<1>3. Len(b) \in Nat
  OBVIOUS
<1> HIDE DEF B
<1>4. 0..Len(b) \subseteq B
  BY ONLY <1>1, <1>2, <1>3, Steps
<1>5. Len(b) \in B
  BY <1>3, <1>4
<1> QED
  BY <1>5 DEF B
-----------------------------------------------------------------------------
(* Without, element by element                                             *)

IsFilter(w, T, b, ns) ==
  /\ w \in [0..Len(b) -> Seq(T)] /\ w[0] = <<>> /\ Without(b, ns) = w[Len(b)]
  /\ \A i \in 1..Len(b) :
       w[i] = IF b[i] \in ToSet(ns) THEN w[i - 1] ELSE Append(w[i - 1], b[i])

LEMMA WithoutLoop ==
  ASSUME NEW T, NEW b \in Seq(T), NEW ns
  PROVE  \E w : IsFilter(w, T, b, ns)
<1> DEFINE n == Len(b)
           G(kept, c) == IF c \in ToSet(ns) THEN kept ELSE Append(kept, c)
           F == [i \in 1..n |-> [kept \in Seq(T) |-> G(kept, b[i])]]
<1>1. n \in Nat /\ \A i \in 1..n : b[i] \in T
  OBVIOUS
<1>2. F \in [1..n -> [Seq(T) -> Seq(T)]] /\ <<>> \in Seq(T)
  BY <1>1
<1>3. PICK w : IsRun(w, Seq(T), <<>>, n, F)
  <2> HIDE DEF F, n
  <2> QED
    BY ONLY <1>1, <1>2, Rounds
<1>3a. w \in [0..n -> Seq(T)] /\ w[0] = <<>> /\ \A i \in 1..n : w[i] = F[i][w[i - 1]]
  BY <1>3 DEF IsRun
<1>4. \A i \in 1..n : w[i] = G(w[i - 1], b[i])
  <2> SUFFICES ASSUME NEW i \in 1..n PROVE w[i] = G(w[i - 1], b[i])
    OBVIOUS
  <2>1. w[i - 1] \in Seq(T)
    BY <1>1, <1>3a
  <2> HIDE DEF G
  <2> QED
    BY <1>3a, <2>1
<1> HIDE DEF F
<1> DEFINE v == CHOOSE v : v = [i \in 0..n |-> IF i = 0 THEN <<>> ELSE G(v[i - 1], b[i])]
<1>5. w = [i \in 0..n |-> IF i = 0 THEN <<>> ELSE G(w[i - 1], b[i])]
  <2> HIDE DEF G
  <2> QED
    BY <1>1, <1>3a, <1>4
<1>6. v = [i \in 0..n |-> IF i = 0 THEN <<>> ELSE G(v[i - 1], b[i])]
  <2> HIDE DEF G
  <2> QED
    BY <1>5
<1>7. Without(b, ns) = v[n]
  BY DEF Without, Each
<1> HIDE DEF v, G
<1>8. v[0] = w[0] /\ \A i \in 1..n : v[i - 1] = w[i - 1] => v[i] = w[i]
  BY <1>1, <1>3a, <1>4, <1>6
<1>9. \A i \in 0..n : v[i] = w[i]
  <2> HIDE DEF n
  <2>1. InStep(v, w, n)
    BY <1>8 DEF InStep
  <2>2. Alike(v, w, n)
    BY ONLY <1>1, <2>1, SameRounds
  <2> QED
    BY <2>2 DEF Alike
<1>10. Without(b, ns) = w[n]
  BY <1>1, <1>7, <1>9
<1> QED
  BY <1>3a, <1>4, <1>10 DEF G, IsFilter

LEMMA WithoutSnoc ==
  ASSUME NEW T, NEW b \in Seq(T), NEW x \in T, NEW ns
  PROVE  /\ Without(b, ns) \in Seq(T)
         /\ Without(Append(b, x), ns) =
              IF x \in ToSet(ns) THEN Without(b, ns) ELSE Append(Without(b, ns), x)
<1> DEFINE c == Append(b, x)
           n == Len(b)
<1>1. c \in Seq(T) /\ Len(c) = n + 1 /\ c[n + 1] = x /\ \A i \in 1..n : c[i] = b[i]
  BY AppendProperties
<1>2. PICK v : IsFilter(v, T, b, ns)
  BY WithoutLoop
<1> HIDE DEF c
<1>3. PICK w : IsFilter(w, T, c, ns)
  BY <1>1, WithoutLoop
<1>4. n \in Nat
  OBVIOUS
<1>5. v[0] = w[0] /\ \A i \in 1..n : v[i - 1] = w[i - 1] => v[i] = w[i]
  <2>1. v[0] = w[0]
    BY <1>2, <1>3 DEF IsFilter
  <2>2. ASSUME NEW i \in 1..n, v[i - 1] = w[i - 1] PROVE v[i] = w[i]
    <3>1. i \in 1..Len(c) /\ c[i] = b[i]
      BY <1>1, <1>4
    <3>2. w[i] = IF c[i] \in ToSet(ns) THEN w[i - 1] ELSE Append(w[i - 1], c[i])
      BY <1>3, <3>1 DEF IsFilter
    <3>3. v[i] = IF b[i] \in ToSet(ns) THEN v[i - 1] ELSE Append(v[i - 1], b[i])
      BY <1>2 DEF IsFilter
    <3> QED
      BY <2>2, <3>1, <3>2, <3>3
  <2> QED
    BY <2>1, <2>2
<1> HIDE DEF n
<1>6. \A i \in 0..n : v[i] = w[i]
  <2>1. InStep(v, w, n)
    BY <1>4, <1>5 DEF InStep
  <2>2. Alike(v, w, n)
    BY ONLY <1>4, <1>5, <2>1, SameRounds
  <2> QED
    BY <2>2 DEF Alike
<1>7. w[n + 1] = IF x \in ToSet(ns) THEN w[n] ELSE Append(w[n], x)
  BY <1>1, <1>3, <1>4 DEF IsFilter
<1>8. v[n] = w[n] /\ v[n] \in Seq(T)
  BY <1>2, <1>4, <1>6 DEF IsFilter, n
<1> QED
  BY <1>1, <1>2, <1>3, <1>7, <1>8 DEF c, n, IsFilter

LEMMA WithoutEmpty == \A ns : Without(<<>>, ns) = <<>>
<1> SUFFICES ASSUME NEW ns PROVE Without(<<>>, ns) = <<>>
  OBVIOUS
<1>1. <<>> \in Seq({}) /\ Len(<<>>) = 0
  OBVIOUS
<1>2. PICK w : IsFilter(w, {}, <<>>, ns)
  BY <1>1, WithoutLoop
<1> QED
  BY <1>1, <1>2 DEF IsFilter

(* Elements that are elsewhere stay.                                       *)
LEMMA WithoutOthers ==
  ASSUME NEW T, NEW ns, NEW b \in Seq(T), \A i \in DOMAIN b : b[i] \notin ToSet(ns)
  PROVE  Without(b, ns) = b
<1> DEFINE A == {c \in Seq(T) : (\A i \in DOMAIN c : c[i] \notin ToSet(ns)) => Without(c, ns) = c}
<1>1. <<>> \in A
  BY WithoutEmpty
<1>2. ASSUME NEW c \in Seq(T), NEW x \in T, c \in A PROVE Append(c, x) \in A
  <2> DEFINE d == Append(c, x)
  <2>1. d \in Seq(T) /\ DOMAIN d = 1..Len(c) + 1 /\ d[Len(c) + 1] = x
        /\ \A i \in 1..Len(c) : d[i] = c[i]
    BY AppendProperties, LenProperties
  <2>2. DOMAIN c = 1..Len(c) /\ Len(c) \in Nat
    OBVIOUS
  <2>3. Without(d, ns) = IF x \in ToSet(ns) THEN Without(c, ns) ELSE Append(Without(c, ns), x)
    BY WithoutSnoc
  <2> HIDE DEF d
  <2>4. ASSUME \A i \in DOMAIN d : d[i] \notin ToSet(ns)
        PROVE  Without(d, ns) = d
    <3>1. x \notin ToSet(ns) /\ \A i \in DOMAIN c : c[i] \notin ToSet(ns)
      BY <2>1, <2>2, <2>4
    <3>2. Without(c, ns) = c
      BY <1>2, <3>1
    <3> QED
      BY <2>3, <3>1, <3>2 DEF d
  <2> QED
    BY <2>1, <2>4 DEF d
<1> HIDE DEF A
<1>3. Seq(T) \subseteq A
  BY ONLY <1>1, <1>2, SeqInduct
<1> QED
  BY <1>3 DEF A
-----------------------------------------------------------------------------
(* Without, on concatenations and twice                                    *)

LEMMA WithoutConcat ==
  ASSUME NEW T, NEW ns, NEW b \in Seq(T), NEW e \in Seq(T)
  PROVE  Without(b \o e, ns) = Without(b, ns) \o Without(e, ns)
<1> DEFINE A == {c \in Seq(T) : Without(b \o c, ns) = Without(b, ns) \o Without(c, ns)}
<1>1. \A c \in Seq(T) : Without(c, ns) \in Seq(T)
  <2> SUFFICES ASSUME NEW c \in Seq(T) PROVE Without(c, ns) \in Seq(T)
    OBVIOUS
  <2>1. PICK w : IsFilter(w, T, c, ns)
    BY WithoutLoop
  <2> QED
    BY <2>1 DEF IsFilter
<1>2. <<>> \in A
  <2>1. Without(<<>>, ns) = <<>>
    BY WithoutEmpty
  <2>2. b \o <<>> = b /\ Without(b, ns) \o <<>> = Without(b, ns)
    BY <1>1, ConcatEmptySeq
  <2>3. Without(b \o <<>>, ns) = Without(b, ns) \o Without(<<>>, ns)
    BY <2>1, <2>2
  <2> QED
    BY <2>3
<1>3. ASSUME NEW c \in Seq(T), NEW x \in T, c \in A PROVE Append(c, x) \in A
  <2>1. b \o Append(c, x) = Append(b \o c, x)
    <3>1. b \o Append(c, x) = b \o (c \o <<x>>) /\ Append(b \o c, x) = (b \o c) \o <<x>>
      BY AppendIsConcat, ConcatProperties
    <3> QED
      BY <3>1, ConcatAssociative
  <2>2. b \o c \in Seq(T)
    BY ConcatProperties
  <2>3. Without(Append(c, x), ns) =
          IF x \in ToSet(ns) THEN Without(c, ns) ELSE Append(Without(c, ns), x)
    BY WithoutSnoc
  <2>3a. Without(Append(b \o c, x), ns) =
           IF x \in ToSet(ns) THEN Without(b \o c, ns) ELSE Append(Without(b \o c, ns), x)
    <3> DEFINE d == b \o c
    <3>1. d \in Seq(T)
      BY <2>2
    <3> HIDE DEF d
    <3>2. Without(Append(d, x), ns) = IF x \in ToSet(ns) THEN Without(d, ns) ELSE Append(Without(d, ns), x)
      BY <3>1, WithoutSnoc
    <3> QED
      BY <3>2 DEF d
  <2>4. Without(b, ns) \o Append(Without(c, ns), x) = Append(Without(b, ns) \o Without(c, ns), x)
    <3> DEFINE p == Without(b, ns)
               q == Without(c, ns)
    <3>1. p \in Seq(T) /\ q \in Seq(T)
      BY <1>1
    <3> HIDE DEF p, q
    <3>2. p \o Append(q, x) = p \o (q \o <<x>>) /\ Append(p \o q, x) = (p \o q) \o <<x>>
      BY <3>1, AppendIsConcat, ConcatProperties
    <3>3. p \o (q \o <<x>>) = (p \o q) \o <<x>>
      BY <3>1, ConcatAssociative
    <3> QED
      BY <3>2, <3>3 DEF p, q
  <2>5. Without(b \o c, ns) = Without(b, ns) \o Without(c, ns)
    BY <1>3
  <2>6. Append(c, x) \in Seq(T)
    BY AppendProperties
  <2> QED
    BY <2>1, <2>3, <2>3a, <2>4, <2>5, <2>6
<1> HIDE DEF A
<1>4. Seq(T) \subseteq A
  BY ONLY <1>2, <1>3, SeqInduct
<1> QED
  BY <1>4 DEF A

LEMMA RangeSnoc ==
  ASSUME NEW T, NEW d \in Seq(T), NEW x \in T
  PROVE  Append(d, x) \in Seq(T) /\ Range(Append(d, x)) = Range(d) \cup {x}
<1> DEFINE e == Append(d, x)
<1>1. /\ e \in Seq(T) /\ Len(d) \in Nat /\ DOMAIN d = 1..Len(d) /\ DOMAIN e = 1..Len(d) + 1
      /\ e[Len(d) + 1] = x /\ \A i \in 1..Len(d) : e[i] = d[i]
  BY AppendProperties, LenProperties
<1> HIDE DEF e
<1>2. DOMAIN e = DOMAIN d \cup {Len(d) + 1}
  BY <1>1
<1>3. Range(e) \subseteq Range(d) \cup {x}
  BY <1>1, <1>2 DEF Range
<1>4. Range(d) \subseteq Range(e) /\ x \in Range(e)
  BY <1>1, <1>2 DEF Range
<1> QED
  BY <1>1, <1>3, <1>4 DEF e

(* Which elements stay.                                                    *)
LEMMA WithoutStays ==
  ASSUME NEW T, NEW ns, NEW b \in Seq(T)
  PROVE  Without(b, ns) \in Seq(T) /\ Range(Without(b, ns)) = Range(b) \ ToSet(ns)
<1> DEFINE A == {c \in Seq(T) : Range(Without(c, ns)) = Range(c) \ ToSet(ns)}
<1>1. <<>> \in A
  BY WithoutEmpty DEF Range
<1>2. ASSUME NEW c \in Seq(T), NEW x \in T, c \in A PROVE Append(c, x) \in A
  <2>1. \A d \in Seq(T) : Append(d, x) \in Seq(T) /\ Range(Append(d, x)) = Range(d) \cup {x}
    BY RangeSnoc
  <2>2. /\ Without(c, ns) \in Seq(T)
        /\ Without(Append(c, x), ns) =
             IF x \in ToSet(ns) THEN Without(c, ns) ELSE Append(Without(c, ns), x)
    BY WithoutSnoc
  <2>3. Range(Without(c, ns)) = Range(c) \ ToSet(ns)
    BY <1>2
  <2>4. Range(Append(c, x)) = Range(c) \cup {x} /\ Append(c, x) \in Seq(T)
    BY <2>1
  <2>5. Range(Without(Append(c, x), ns)) = Range(Append(c, x)) \ ToSet(ns)
    <3>1. CASE x \in ToSet(ns)
      BY <2>2, <2>3, <2>4, <3>1
    <3>2. CASE x \notin ToSet(ns)
      <4>1. Range(Append(Without(c, ns), x)) = Range(Without(c, ns)) \cup {x}
        BY <2>1, <2>2
      <4> QED
        BY <2>2, <2>3, <2>4, <3>2, <4>1
    <3> QED
      BY <3>1, <3>2
  <2> QED
    BY <2>4, <2>5
<1> HIDE DEF A
<1>3. Seq(T) \subseteq A
  BY ONLY <1>1, <1>2, SeqInduct
<1>4. Without(b, ns) \in Seq(T)
  <2>1. PICK w : IsFilter(w, T, b, ns)
    BY WithoutLoop
  <2> QED
    BY <2>1 DEF IsFilter
<1> QED
  BY <1>3, <1>4 DEF A

LEMMA WithoutTwice ==
  ASSUME NEW T, NEW m, NEW n, NEW k, ToSet(k) = ToSet(m) \cup ToSet(n), NEW b \in Seq(T)
  PROVE  Without(Without(b, m), n) = Without(b, k)
<1> DEFINE A == {c \in Seq(T) : Without(Without(c, m), n) = Without(c, k)}
<1>1. <<>> \in A
  BY WithoutEmpty
<1>2. ASSUME NEW c \in Seq(T), NEW x \in T, c \in A PROVE Append(c, x) \in A
  <2>1. /\ Without(c, m) \in Seq(T)
        /\ Without(Append(c, x), m) =
             IF x \in ToSet(m) THEN Without(c, m) ELSE Append(Without(c, m), x)
    BY ONLY c \in Seq(T), x \in T, WithoutSnoc
  <2>1a. Without(Append(c, x), k) =
           IF x \in ToSet(k) THEN Without(c, k) ELSE Append(Without(c, k), x)
    BY WithoutSnoc
  <2>2. Without(Append(Without(c, m), x), n) =
             IF x \in ToSet(n) THEN Without(Without(c, m), n) ELSE Append(Without(Without(c, m), n), x)
    BY <2>1, WithoutSnoc
  <2>3. Without(Without(c, m), n) = Without(c, k) /\ Append(c, x) \in Seq(T)
    BY <1>2, AppendProperties
  <2> QED
    BY <2>1, <2>1a, <2>2, <2>3
<1> HIDE DEF A
<1>3. Seq(T) \subseteq A
  BY ONLY <1>1, <1>2, SeqInduct
<1> QED
  BY <1>3 DEF A
-----------------------------------------------------------------------------
(* Children and the anchor                                                 *)

LEMMA SetToOne == \A x, y : ToSet(<<x>>) = {x} /\ ToSet(<<x, y>>) = {x, y}
<1> SUFFICES ASSUME NEW x, NEW y PROVE ToSet(<<x>>) = {x} /\ ToSet(<<x, y>>) = {x, y}
  OBVIOUS
<1>1. DOMAIN <<x>> = {1} /\ DOMAIN <<x, y>> = {1, 2}
  OBVIOUS
<1> QED
  BY <1>1 DEF ToSet

LEMMA BeforeAnchor ==
  ASSUME NEW T, NEW b \in Seq(T), NEW ns \in Seq(T), Anchor \in T, Anchor \notin Range(b)
  PROVE  Before(Append(b, Anchor), Anchor, ns) = Append(b \o ns, Anchor)
<1> DEFINE c == Append(b, Anchor)
           n == Len(b)
<1>1. /\ c \in Seq(T) /\ n \in Nat /\ DOMAIN b = 1..n /\ Len(c) = n + 1
      /\ c[n + 1] = Anchor /\ \A i \in 1..n : c[i] = b[i] /\ b[i] \in T /\ b[i] # Anchor
  BY AppendProperties, LenProperties DEF Range
<1> HIDE DEF c, n
<1>2. Contains(c, Anchor)
  BY <1>1 DEF Contains
<1>3. SelectInSeq(c, LAMBDA x : x = Anchor) = n + 1
  <2>1. {i \in 1..Len(c) : c[i] = Anchor} = {n + 1}
    BY <1>1
  <2>2. Min({n + 1}) = n + 1
    BY <1>1 DEF Min
  <2> QED
    BY <2>1, <2>2 DEF SelectInSeq
<1>4. SubSeq(c, 1, (n + 1) - 1) = b
  <2>1. \A i \in 1..n : c[i] \in T
    BY <1>1
  <2>2. /\ SubSeq(c, 1, n) \in Seq(T) /\ Len(SubSeq(c, 1, n)) = n
        /\ \A i \in 1..n : SubSeq(c, 1, n)[i] = c[i]
    <3>1. /\ SubSeq(c, 1, n) \in Seq(T)
          /\ Len(SubSeq(c, 1, n)) = IF 1 <= n THEN n - 1 + 1 ELSE 0
          /\ \A i \in 1..n - 1 + 1 : SubSeq(c, 1, n)[i] = c[1 + i - 1]
      BY <1>1, <2>1, SubSeqProperties
    <3> QED
      BY <1>1, <3>1
  <2>3. SubSeq(c, 1, n) = b
    BY <1>1, <2>2, SeqEqual DEF n
  <2> QED
    BY <1>1, <2>3
<1>5. SubSeq(c, n + 1, Len(c)) = <<Anchor>>
  <2>1. \A i \in n + 1..n + 1 : c[i] \in T
    BY <1>1
  <2>2. /\ SubSeq(c, n + 1, n + 1) \in Seq(T)
        /\ Len(SubSeq(c, n + 1, n + 1)) = 1 /\ SubSeq(c, n + 1, n + 1)[1] = c[n + 1]
    <3>1. /\ SubSeq(c, n + 1, n + 1) \in Seq(T)
          /\ Len(SubSeq(c, n + 1, n + 1)) = IF n + 1 <= n + 1 THEN (n + 1) - (n + 1) + 1 ELSE 0
          /\ \A i \in 1..(n + 1) - (n + 1) + 1 : SubSeq(c, n + 1, n + 1)[i] = c[(n + 1) + i - 1]
      BY <1>1, <2>1, SubSeqProperties
    <3>2. (n + 1) + 1 - 1 = n + 1 /\ 1 \in 1..(n + 1) - (n + 1) + 1
      BY <1>1
    <3> QED
      BY <1>1, <3>1, <3>2
  <2>3. <<Anchor>> \in Seq(T) /\ Len(<<Anchor>>) = 1 /\ <<Anchor>>[1] = Anchor
    OBVIOUS
  <2> DEFINE d == SubSeq(c, n + 1, n + 1)
  <2>4. d \in Seq(T) /\ Len(d) = 1 /\ d[1] = Anchor
    BY <1>1, <2>2
  <2> HIDE DEF d
  <2>5. d = <<Anchor>>
    BY <2>4
  <2> QED
    BY <1>1, <2>5 DEF d
<1>6. Before(c, Anchor, ns) = (b \o ns) \o <<Anchor>>
  BY <1>2, <1>3, <1>4, <1>5 DEF Before
<1>7. Append(b \o ns, Anchor) = (b \o ns) \o <<Anchor>>
  BY ConcatProperties, AppendIsConcat
<1> QED
  BY <1>6, <1>7 DEF c
-----------------------------------------------------------------------------
(* The nodes of rows                                                       *)

RowNodes == RowIds \X {1, 2}
InnerNodes    == (RowIds \cup {1, 2}) \X {0, 1, 2}
Children == InnerNodes \cup {Anchor}

NodesOf(l) == FlattenSeq([p \in DOMAIN l |-> RealNodes(l[p])])

LEMMA NodeFacts ==
  /\ RowNodes \subseteq InnerNodes /\ InnerNodes \subseteq Children /\ Anchor \in Children /\ Anchor \notin InnerNodes
  /\ None \notin Seq(Children)
  BY ViewAssumption DEF RowNodes, InnerNodes, Children

LEMMA RowPair ==
  ASSUME NEW r \in RowIds
  PROVE  /\ RealNodes(r) = <<<<r, 1>>, <<r, 2>>>> /\ RealNodes(r) \in Seq(RowNodes)
         /\ ToSet(RealNodes(r)) = {<<r, 1>>, <<r, 2>>}
         /\ <<r, 1>> \in RowNodes /\ <<r, 2>> \in RowNodes /\ <<r, 1>> # <<r, 2>>
<1>1. RealNodes(r) = <<<<r, 1>>, <<r, 2>>>>
  BY DEF RealNodes
<1>2. <<r, 1>> \in RowNodes /\ <<r, 2>> \in RowNodes /\ <<r, 1>> # <<r, 2>>
  BY DEF RowNodes
<1>3. RealNodes(r) \in Seq(RowNodes)
  <2> DEFINE a == <<r, 1>>
             b == <<r, 2>>
  <2>1. a \in RowNodes /\ b \in RowNodes
    BY <1>2
  <2> HIDE DEF a, b
  <2>2. <<a, b>> \in Seq(RowNodes)
    BY <2>1
  <2> QED
    BY <1>1, <2>2 DEF a, b
<1> QED
  BY <1>1, <1>2, <1>3, SetToOne

LEMMA BranchNode ==
  ASSUME NEW n \in {1, 2} \X {0, 1}
  PROVE  RealNodes(n) = <<n>> /\ n \in InnerNodes /\ <<n>> \in Seq(InnerNodes) /\ ToSet(<<n>>) = {n}
<1>1. n \notin RowIds /\ n \in InnerNodes
  BY ViewAssumption DEF InnerNodes
<1> QED
  BY <1>1, SetToOne DEF RealNodes

IsNodes(w, l) ==
  /\ w \in [0..Len(l) -> Seq(RowNodes)] /\ w[0] = <<>> /\ NodesOf(l) = w[Len(l)]
  /\ \A i \in 1..Len(l) : w[i] = w[i - 1] \o RealNodes(l[i])

LEMMA NodesLoop ==
  ASSUME NEW l \in Seq(RowIds)
  PROVE  \E w : IsNodes(w, l)
<1> DEFINE n == Len(l)
           T == Seq(RowNodes)
           F == [i \in 1..n |-> [got \in T |-> got \o RealNodes(l[i])]]
           s == [p \in DOMAIN l |-> RealNodes(l[p])]
<1>1. n \in Nat /\ DOMAIN l = 1..n /\ \A i \in 1..n : l[i] \in RowIds
  BY LenProperties
<1>2. \A i \in 1..n : RealNodes(l[i]) \in T
  BY <1>1, RowPair
<1>3. F \in [1..n -> [T -> T]] /\ <<>> \in T
  <2>1. \A i \in 1..n : \A got \in T : got \o RealNodes(l[i]) \in T
    BY <1>2, ConcatProperties
  <2> HIDE DEF n
  <2> QED
    BY <2>1
<1>4. PICK w : IsRun(w, T, <<>>, n, F)
  <2> HIDE DEF F, n, T
  <2> QED
    BY ONLY <1>1, <1>3, Rounds
<1>5. w \in [0..n -> T] /\ w[0] = <<>> /\ \A i \in 1..n : w[i] = F[i][w[i - 1]]
  BY <1>4 DEF IsRun
<1>6. \A i \in 1..n : w[i] = w[i - 1] \o RealNodes(l[i])
  <2> SUFFICES ASSUME NEW i \in 1..n PROVE w[i] = w[i - 1] \o RealNodes(l[i])
    OBVIOUS
  <2>1. w[i - 1] \in T
    BY <1>1, <1>5
  <2> HIDE DEF T, n
  <2> QED
    BY <1>5, <2>1
<1> HIDE DEF F
<1>7. s \in Seq(T) /\ Len(s) = n /\ \A i \in 1..n : s[i] = RealNodes(l[i])
  <2> HIDE DEF T, n
  <2>1. s \in [1..n -> T]
    BY <1>1, <1>2
  <2>2. s \in Seq(T) /\ Len(s) = n
    BY <1>1, <2>1
  <2> QED
    BY <1>1, <2>2
<1> HIDE DEF s
<1>8. NodesOf(l) = w[n]
  <2>1. CASE n = 0
    <3>1. NodesOf(l) = s /\ s = <<>>
      BY <1>7, <2>1 DEF NodesOf, FlattenSeq, s
    <3> QED
      BY <1>5, <2>1, <3>1
  <2>2. CASE n # 0
    <3> DEFINE v == CHOOSE v : v = [i \in 1..n |-> IF i = 1 THEN s[i] ELSE v[i - 1] \o s[i]]
               u == [i \in 1..n |-> w[i]]
    <3>1. u = [i \in 1..n |-> IF i = 1 THEN s[i] ELSE u[i - 1] \o s[i]]
      <4>1. ASSUME NEW i \in 1..n PROVE w[i] = IF i = 1 THEN s[i] ELSE u[i - 1] \o s[i]
        <5>1. CASE i = 1
          <6>0. 1 \in 1..n /\ 1 - 1 = 0
            BY <5>1
          <6>1. w[1] = <<>> \o s[1] /\ s[1] \in T
            <7> HIDE DEF T, n
            <7>1. w[1] = w[1 - 1] \o RealNodes(l[1])
              BY <1>6, <6>0
            <7>2. w[1 - 1] = <<>>
              BY <1>5, <6>0
            <7>3. s[1] = RealNodes(l[1]) /\ s[1] \in T
              BY <1>2, <1>7, <6>0
            <7> QED
              BY <7>1, <7>2, <7>3
          <6>2. <<>> \o s[1] = s[1]
            BY <6>1, ConcatEmptySeq
          <6> QED
            BY <5>1, <6>1, <6>2
        <5>2. CASE i # 1
          <6>1. i - 1 \in 1..n
            BY <1>1, <5>2
          <6> QED
            BY <1>6, <1>7, <5>2, <6>1
        <5> QED
          BY <5>1, <5>2
      <4> QED
        BY <4>1
    <3>2. v = [i \in 1..n |-> IF i = 1 THEN s[i] ELSE v[i - 1] \o s[i]]
      <4> HIDE DEF u
      <4> QED
        BY <3>1
    <3>3. FlattenSeq(s) = v[n]
      BY <1>7, <2>2 DEF FlattenSeq
    <3> HIDE DEF v
    <3> DEFINE v0 == [i \in 0..n |-> IF i = 0 THEN w[0] ELSE v[i]]
    <3>4. v0[0] = w[0]
      BY <1>1
    <3>5. ASSUME NEW i \in 1..n, v0[i - 1] = w[i - 1] PROVE v0[i] = w[i]
      <4>0. v0[i] = v[i]
        BY <1>1
      <4>1. v0[i] = v[i] /\ v[i] = IF i = 1 THEN s[i] ELSE v[i - 1] \o s[i]
        <5> HIDE DEF v0, n
        <5> QED
          BY <3>2, <4>0
      <4>2. CASE i = 1
        <5>1. w[i] = s[i]
          BY <3>1, <4>2 DEF u
        <5> QED
          BY <4>1, <4>2, <5>1
      <4>3. CASE i # 1
        <5>1. v0[i - 1] = v[i - 1]
          BY <1>1, <4>3
        <5> QED
          BY <1>6, <1>7, <3>5, <4>1, <4>3, <5>1
      <4> QED
        BY <4>2, <4>3
    <3> HIDE DEF v0, n
    <3>6. \A i \in 0..n : v0[i] = w[i]
      <4>1. InStep(v0, w, n)
        BY <1>1, <3>4, <3>5 DEF InStep
      <4>2. Alike(v0, w, n)
        BY ONLY <1>1, <3>4, <3>5, <4>1, SameRounds
      <4> QED
        BY <4>2 DEF Alike
    <3>7. v0[n] = v[n] /\ n \in 0..n
      BY <1>1, <2>2 DEF v0
    <3>8. NodesOf(l) = FlattenSeq(s)
      BY DEF NodesOf, s
    <3> QED
      BY <3>3, <3>6, <3>7, <3>8
  <2> QED
    BY <2>1, <2>2
<1> QED
  BY <1>5, <1>6, <1>8 DEF IsNodes

LEMMA NodesSnoc ==
  ASSUME NEW l \in Seq(RowIds), NEW r \in RowIds
  PROVE  NodesOf(l) \in Seq(RowNodes) /\ NodesOf(Append(l, r)) = NodesOf(l) \o RealNodes(r)
<1> DEFINE c == Append(l, r)
           n == Len(l)
<1>1. c \in Seq(RowIds) /\ Len(c) = n + 1 /\ c[n + 1] = r /\ \A i \in 1..n : c[i] = l[i]
  BY AppendProperties
<1>2. PICK v : IsNodes(v, l)
  BY NodesLoop
<1> HIDE DEF c
<1>3. PICK w : IsNodes(w, c)
  BY <1>1, NodesLoop
<1>4. n \in Nat
  OBVIOUS
<1>5. v[0] = w[0] /\ \A i \in 1..n : v[i - 1] = w[i - 1] => v[i] = w[i]
  <2>1. v[0] = w[0]
    BY <1>2, <1>3 DEF IsNodes
  <2>2. ASSUME NEW i \in 1..n, v[i - 1] = w[i - 1] PROVE v[i] = w[i]
    <3>1. i \in 1..Len(c) /\ c[i] = l[i]
      BY <1>1, <1>4
    <3>2. w[i] = w[i - 1] \o RealNodes(c[i])
      BY <1>3, <3>1 DEF IsNodes
    <3>3. v[i] = v[i - 1] \o RealNodes(l[i])
      BY <1>2 DEF IsNodes
    <3> QED
      BY <2>2, <3>1, <3>2, <3>3
  <2> QED
    BY <2>1, <2>2
<1> HIDE DEF n
<1>6. \A i \in 0..n : v[i] = w[i]
  <2>1. InStep(v, w, n)
    BY <1>4, <1>5 DEF InStep
  <2>2. Alike(v, w, n)
    BY ONLY <1>4, <1>5, <2>1, SameRounds
  <2> QED
    BY <2>2 DEF Alike
<1>7. w[n + 1] = w[n] \o RealNodes(r)
  <2>1. n + 1 \in 1..Len(c) /\ (n + 1) - 1 = n
    BY <1>1, <1>4
  <2>2. w[n + 1] = w[(n + 1) - 1] \o RealNodes(c[n + 1])
    BY <1>3, <2>1 DEF IsNodes
  <2> QED
    BY <1>1, <2>1, <2>2
<1>8. v[n] = w[n] /\ v[n] \in Seq(RowNodes)
  BY <1>2, <1>4, <1>6 DEF IsNodes, n
<1> QED
  BY <1>1, <1>2, <1>3, <1>7, <1>8 DEF c, n, IsNodes

LEMMA NodesEmpty == NodesOf(<<>>) = <<>>
<1>1. <<>> \in Seq(RowIds) /\ Len(<<>>) = 0
  OBVIOUS
<1>2. PICK w : IsNodes(w, <<>>)
  BY <1>1, NodesLoop
<1> QED
  BY <1>1, <1>2 DEF IsNodes
-----------------------------------------------------------------------------
(* Rows, their nodes and the anchor                                        *)

LEMMA NoneLeft ==
  ASSUME NEW T, NEW b \in Seq(T), Range(b) = {}
  PROVE  b = <<>>
<1>1. DOMAIN b = 1..Len(b) /\ Len(b) \in Nat
  BY LenProperties
<1>2. DOMAIN b = {}
  BY DEF Range
<1>3. Len(b) = 0
  BY <1>1, <1>2
<1> QED
  BY <1>3

LEMMA NodesRange ==
  ASSUME NEW l \in Seq(RowIds)
  PROVE  NodesOf(l) \in Seq(RowNodes) /\ NodesOf(l) \in Seq(InnerNodes) /\ Range(NodesOf(l)) = Range(l) \X {1, 2}
<1> DEFINE A == {c \in Seq(RowIds) : Range(NodesOf(c)) = Range(c) \X {1, 2}}
<1>1. <<>> \in A
  BY NodesEmpty DEF Range
<1>2. ASSUME NEW c \in Seq(RowIds), NEW x \in RowIds, c \in A PROVE Append(c, x) \in A
  <2>1. NodesOf(c) \in Seq(RowNodes) /\ NodesOf(Append(c, x)) = NodesOf(c) \o RealNodes(x)
    BY NodesSnoc
  <2>2. RealNodes(x) \in Seq(RowNodes) /\ ToSet(RealNodes(x)) = {<<x, 1>>, <<x, 2>>}
    BY RowPair
  <2>3. Range(NodesOf(c) \o RealNodes(x)) = Range(NodesOf(c)) \cup Range(RealNodes(x))
    BY <2>1, <2>2, RangeConcatenation
  <2>4. Range(RealNodes(x)) = {<<x, 1>>, <<x, 2>>}
    BY <2>2 DEF Range, ToSet
  <2>5. Append(c, x) \in Seq(RowIds) /\ Range(Append(c, x)) = Range(c) \cup {x}
    BY RangeSnoc
  <2>6. Range(NodesOf(c)) = Range(c) \X {1, 2}
    BY <1>2
  <2>7. Range(NodesOf(Append(c, x))) = Range(Append(c, x)) \X {1, 2}
    BY <2>1, <2>3, <2>4, <2>5, <2>6
  <2> QED
    BY <2>5, <2>7
<1> HIDE DEF A
<1>3. Seq(RowIds) \subseteq A
  BY ONLY <1>1, <1>2, SeqInduct
<1>4. NodesOf(l) \in Seq(RowNodes)
  <2>1. PICK w : IsNodes(w, l)
    BY NodesLoop
  <2> QED
    BY <2>1 DEF IsNodes
<1>5. NodesOf(l) \in Seq(InnerNodes)
  BY <1>4, NodeFacts, SeqMonotonic
<1> QED
  BY <1>3, <1>4, <1>5 DEF A

LEMMA NodesWithout ==
  ASSUME NEW r \in RowIds, NEW l \in Seq(RowIds)
  PROVE  Without(NodesOf(l), RealNodes(r)) = NodesOf(Without(l, <<r>>))
<1> DEFINE R == RealNodes(r)
           A == {c \in Seq(RowIds) : Without(NodesOf(c), R) = NodesOf(Without(c, <<r>>))}
<1>1. <<>> \in A
  BY NodesEmpty, WithoutEmpty
<1>2. ASSUME NEW c \in Seq(RowIds), NEW x \in RowIds, c \in A PROVE Append(c, x) \in A
  <2>1. NodesOf(c) \in Seq(RowNodes) /\ NodesOf(Append(c, x)) = NodesOf(c) \o RealNodes(x)
    BY NodesSnoc
  <2>2. /\ RealNodes(x) \in Seq(RowNodes) /\ ToSet(RealNodes(x)) = {<<x, 1>>, <<x, 2>>}
        /\ R \in Seq(RowNodes) /\ ToSet(R) = {<<r, 1>>, <<r, 2>>}
    BY RowPair
  <2>3. Without(NodesOf(c) \o RealNodes(x), R) = Without(NodesOf(c), R) \o Without(RealNodes(x), R)
    BY <2>1, <2>2, WithoutConcat
  <2>4. /\ Without(c, <<r>>) \in Seq(RowIds)
        /\ Without(Append(c, x), <<r>>) = IF x = r THEN Without(c, <<r>>) ELSE Append(Without(c, <<r>>), x)
    <3>1. ToSet(<<r>>) = {r}
      BY SetToOne
    <3>2. /\ Without(c, <<r>>) \in Seq(RowIds)
          /\ Without(Append(c, x), <<r>>) =
                IF x \in ToSet(<<r>>) THEN Without(c, <<r>>) ELSE Append(Without(c, <<r>>), x)
      BY WithoutSnoc
    <3> QED
      BY <3>1, <3>2
  <2>5. Without(NodesOf(c), R) = NodesOf(Without(c, <<r>>)) /\ Append(c, x) \in Seq(RowIds)
    BY <1>2, RangeSnoc
  <2>6. CASE x = r
    <3>1. Without(R, R) \in Seq(RowNodes) /\ Range(Without(R, R)) = Range(R) \ ToSet(R)
      BY <2>2, WithoutStays
    <3>2. Range(R) = ToSet(R)
      BY DEF Range, ToSet
    <3>3. Without(R, R) = <<>>
      BY <3>1, <3>2, NoneLeft
    <3>4. NodesOf(Without(c, <<r>>)) \in Seq(RowNodes)
      BY <2>4, NodesRange
    <3>5. NodesOf(Without(c, <<r>>)) \o <<>> = NodesOf(Without(c, <<r>>))
      BY <3>4, ConcatEmptySeq
    <3> QED
      BY <2>1, <2>3, <2>4, <2>5, <2>6, <3>3, <3>5
  <2>7. CASE x # r
    <3>1. \A i \in DOMAIN RealNodes(x) : RealNodes(x)[i] \notin ToSet(R)
      <4>1. \A i \in DOMAIN RealNodes(x) : RealNodes(x)[i] \in {<<x, 1>>, <<x, 2>>}
        BY <2>2 DEF ToSet
      <4> QED
        BY <2>2, <2>7, <4>1
    <3>2. Without(RealNodes(x), R) = RealNodes(x)
      BY <2>2, <3>1, WithoutOthers
    <3>3. NodesOf(Append(Without(c, <<r>>), x)) = NodesOf(Without(c, <<r>>)) \o RealNodes(x)
      BY <2>4, NodesSnoc
    <3> QED
      BY <2>1, <2>3, <2>4, <2>5, <2>7, <3>2, <3>3
  <2> QED
    BY <2>6, <2>7
<1> HIDE DEF A
<1>3. Seq(RowIds) \subseteq A
  BY ONLY <1>1, <1>2, SeqInduct
<1> QED
  BY <1>3 DEF A
-----------------------------------------------------------------------------
(* The children of an element with an anchor                               *)

LEMMA AnchorStays ==
  ASSUME NEW b \in Seq(InnerNodes), NEW ns, Anchor \notin ToSet(ns)
  PROVE  /\ Without(b, ns) \in Seq(InnerNodes)
         /\ Without(Append(b, Anchor), ns) = Append(Without(b, ns), Anchor)
<1>1. b \in Seq(Children) /\ Anchor \in Children
  BY NodeFacts, SeqMonotonic
<1>2. Without(Append(b, Anchor), ns) =
        IF Anchor \in ToSet(ns) THEN Without(b, ns) ELSE Append(Without(b, ns), Anchor)
  BY <1>1, WithoutSnoc
<1>3. Without(b, ns) \in Seq(InnerNodes)
  BY WithoutStays
<1> QED
  BY <1>2, <1>3

LEMMA InsertBefore ==
  ASSUME NEW b \in Seq(InnerNodes), NEW ns \in Seq(InnerNodes)
  PROVE  Before(Append(b, Anchor), Anchor, ns) = Append(b \o ns, Anchor)
<1>1. b \in Seq(Children) /\ ns \in Seq(Children) /\ Anchor \in Children
  BY NodeFacts, SeqMonotonic
<1>2. Anchor \notin Range(b)
  BY NodeFacts, RangeOfSeq
<1> QED
  BY <1>1, <1>2, BeforeAnchor

LEMMA SomeChildren ==
  ASSUME NEW b \in Seq(InnerNodes)
  PROVE  /\ Append(b, Anchor) \in Seq(Children) /\ Append(b, Anchor) # None
         /\ Contains(Append(b, Anchor), Anchor)
         /\ \A x \in InnerNodes : Contains(Append(b, Anchor), x) <=> x \in Range(b)
<1> DEFINE c == Append(b, Anchor)
           n == Len(b)
<1>1. b \in Seq(Children) /\ Anchor \in Children
  BY NodeFacts, SeqMonotonic
<1>2. c \in Seq(Children) /\ Len(c) = n + 1 /\ c[n + 1] = Anchor /\ \A i \in 1..n : c[i] = b[i]
  BY <1>1, AppendProperties
<1>3. n \in Nat /\ DOMAIN b = 1..n
  BY LenProperties
<1> HIDE DEF c, n
<1>4. c # None
  BY <1>2, NodeFacts
<1>5. Contains(c, Anchor)
  BY <1>2, <1>3 DEF Contains
<1>6. ASSUME NEW x \in InnerNodes PROVE Contains(c, x) <=> x \in Range(b)
  <2>1. x # Anchor
    BY NodeFacts
  <2> QED
    BY <1>2, <1>3, <2>1 DEF Contains, Range
<1> QED
  BY <1>2, <1>4, <1>5, <1>6 DEF c
-----------------------------------------------------------------------------
(* What the two backends make of one row and of a branch                   *)

LEMMA PairAppend == \A x, y : Append(<<x>>, y) = <<x, y>>
<1> SUFFICES ASSUME NEW x, NEW y PROVE Append(<<x>>, y) = <<x, y>>
  OBVIOUS
<1> DEFINE T == {x, y}
           s == Append(<<x>>, y)
           t == <<x, y>>
<1>1. <<x>> \in Seq(T) /\ Len(<<x>>) = 1 /\ <<x>>[1] = x
  OBVIOUS
<1>2. s \in Seq(T) /\ Len(s) = 2 /\ s[1] = x /\ s[2] = y
  BY <1>1, AppendProperties
<1>3. t \in Seq(T) /\ Len(t) = 2 /\ t[1] = x /\ t[2] = y
  OBVIOUS
<1> HIDE DEF s, t
<1>4. \A i \in 1..Len(s) : s[i] = t[i]
  BY <1>2, <1>3
<1>5. s = t
  BY <1>2, <1>3, <1>4, SeqEqual
<1> QED
  BY <1>5 DEF s, t

(* Two nodes taken out one after the other.                                *)
LEMMA WithoutPair ==
  ASSUME NEW N \in Seq(InnerNodes), NEW a, NEW b, NEW R, ToSet(R) = {a, b}
  PROVE  Without(Without(N, <<a>>), <<b>>) = Without(N, R)
<1>1. PICK m, n : m = <<a>> /\ n = <<b>>
  OBVIOUS
<1>2. ToSet(R) = ToSet(m) \cup ToSet(n)
  BY <1>1, SetToOne
<1>3. N \in Seq(InnerNodes)
  OBVIOUS
<1>4. Without(Without(N, m), n) = Without(N, R)
  BY ONLY <1>2, <1>3, WithoutTwice
<1> QED
  BY <1>1, <1>4

LEMMA InsertOneIs ==
  ASSUME NEW b \in Seq(InnerNodes), NEW x \in InnerNodes
  PROVE  /\ Append(Without(b, <<x>>), x) \in Seq(InnerNodes)
         /\ InsertOne(Append(b, Anchor), x) = Append(Append(Without(b, <<x>>), x), Anchor)
<1>1. ToSet(<<x>>) = {x} /\ x # Anchor
  BY SetToOne, NodeFacts
<1>2. /\ Without(b, <<x>>) \in Seq(InnerNodes)
      /\ Without(Append(b, Anchor), <<x>>) = Append(Without(b, <<x>>), Anchor)
  BY <1>1, AnchorStays
<1>3. Append(b, Anchor) # None /\ Contains(Append(b, Anchor), Anchor)
  BY SomeChildren
<1>4. <<x>> \in Seq(InnerNodes)
  OBVIOUS
<1>5. Before(Append(Without(b, <<x>>), Anchor), Anchor, <<x>>) = Append(Without(b, <<x>>) \o <<x>>, Anchor)
  BY <1>2, <1>4, InsertBefore
<1>6. Without(b, <<x>>) \o <<x>> = Append(Without(b, <<x>>), x) /\ Append(Without(b, <<x>>), x) \in Seq(InnerNodes)
  BY <1>2, AppendIsConcat, AppendProperties
<1> QED
  BY <1>2, <1>3, <1>5, <1>6 DEF InsertOne

LEMMA RemoveOneIs ==
  ASSUME NEW b \in Seq(InnerNodes), NEW x \in Range(b)
  PROVE  /\ Without(b, <<x>>) \in Seq(InnerNodes)
         /\ RemoveOne(Append(b, Anchor), x) = Append(Without(b, <<x>>), Anchor)
<1>1. x \in InnerNodes
  BY RangeOfSeq
<1>2. ToSet(<<x>>) = {x} /\ x # Anchor
  BY <1>1, SetToOne, NodeFacts
<1>3. /\ Without(b, <<x>>) \in Seq(InnerNodes)
      /\ Without(Append(b, Anchor), <<x>>) = Append(Without(b, <<x>>), Anchor)
  BY <1>2, AnchorStays
<1>4. Append(b, Anchor) # None /\ Contains(Append(b, Anchor), x)
  BY <1>1, SomeChildren
<1> QED
  BY <1>3, <1>4 DEF RemoveOne

LEMMA InsertLoop ==
  ASSUME NEW x, NEW r, NEW a, NEW b
  PROVE  /\ RealNodes(r) = <<a>> => WebInsert(x, r) = InsertOne(x, a)
         /\ RealNodes(r) = <<a, b>> => WebInsert(x, r) = InsertOne(InsertOne(x, a), b)
<1>1. ASSUME RealNodes(r) = <<a>> PROVE WebInsert(x, r) = InsertOne(x, a)
  <2> DEFINE G(v) == [i \in 0..1 |-> IF i = 0 THEN x ELSE InsertOne(v[i - 1], <<a>>[i])]
             w == [i \in 0..1 |-> IF i = 0 THEN x ELSE InsertOne(x, a)]
             v == CHOOSE v : v = G(v)
  <2>1. \A i \in 0..1 : i = 0 \/ i = 1
    OBVIOUS
  <2>2. w = G(w)
    BY <2>1
  <2> HIDE DEF w
  <2>3. v = G(v)
    BY <2>2
  <2>4. WebInsert(x, r) = v[1]
    BY <1>1 DEF WebInsert, Each
  <2> HIDE DEF v
  <2>5. v[0] = x /\ v[1] = InsertOne(v[0], a)
    BY <2>3
  <2> QED
    BY <2>4, <2>5
<1>2. ASSUME RealNodes(r) = <<a, b>> PROVE WebInsert(x, r) = InsertOne(InsertOne(x, a), b)
  <2> DEFINE G(v) == [i \in 0..2 |-> IF i = 0 THEN x ELSE InsertOne(v[i - 1], <<a, b>>[i])]
             w == [i \in 0..2 |-> IF i = 0 THEN x ELSE IF i = 1 THEN InsertOne(x, a)
                                  ELSE InsertOne(InsertOne(x, a), b)]
             v == CHOOSE v : v = G(v)
  <2>1. \A i \in 0..2 : i = 0 \/ i = 1 \/ i = 2
    OBVIOUS
  <2>2. w = G(w)
    BY <2>1
  <2> HIDE DEF w
  <2>3. v = G(v)
    BY <2>2
  <2>4. WebInsert(x, r) = v[2]
    BY <1>2 DEF WebInsert, Each
  <2> HIDE DEF v
  <2>5. v[0] = x /\ v[1] = InsertOne(v[0], a) /\ v[2] = InsertOne(v[1], b)
    BY <2>3
  <2> QED
    BY <2>4, <2>5
<1> QED
  BY <1>1, <1>2

LEMMA RemoveLoop ==
  ASSUME NEW x, NEW r, NEW a, NEW b
  PROVE  /\ RealNodes(r) = <<a>> => WebRemove(x, r) = RemoveOne(x, a)
         /\ RealNodes(r) = <<a, b>> => WebRemove(x, r) = RemoveOne(RemoveOne(x, a), b)
<1>1. ASSUME RealNodes(r) = <<a>> PROVE WebRemove(x, r) = RemoveOne(x, a)
  <2> DEFINE G(v) == [i \in 0..1 |-> IF i = 0 THEN x ELSE RemoveOne(v[i - 1], <<a>>[i])]
             w == [i \in 0..1 |-> IF i = 0 THEN x ELSE RemoveOne(x, a)]
             v == CHOOSE v : v = G(v)
  <2>1. \A i \in 0..1 : i = 0 \/ i = 1
    OBVIOUS
  <2>2. w = G(w)
    BY <2>1
  <2> HIDE DEF w
  <2>3. v = G(v)
    BY <2>2
  <2>4. WebRemove(x, r) = v[1]
    BY <1>1 DEF WebRemove, Each
  <2> HIDE DEF v
  <2>5. v[0] = x /\ v[1] = RemoveOne(v[0], a)
    BY <2>3
  <2> QED
    BY <2>4, <2>5
<1>2. ASSUME RealNodes(r) = <<a, b>> PROVE WebRemove(x, r) = RemoveOne(RemoveOne(x, a), b)
  <2> DEFINE G(v) == [i \in 0..2 |-> IF i = 0 THEN x ELSE RemoveOne(v[i - 1], <<a, b>>[i])]
             w == [i \in 0..2 |-> IF i = 0 THEN x ELSE IF i = 1 THEN RemoveOne(x, a)
                                  ELSE RemoveOne(RemoveOne(x, a), b)]
             v == CHOOSE v : v = G(v)
  <2>1. \A i \in 0..2 : i = 0 \/ i = 1 \/ i = 2
    OBVIOUS
  <2>2. w = G(w)
    BY <2>1
  <2> HIDE DEF w
  <2>3. v = G(v)
    BY <2>2
  <2>4. WebRemove(x, r) = v[2]
    BY <1>2 DEF WebRemove, Each
  <2> HIDE DEF v
  <2>5. v[0] = x /\ v[1] = RemoveOne(v[0], a) /\ v[2] = RemoveOne(v[1], b)
    BY <2>3
  <2> QED
    BY <2>4, <2>5
<1> QED
  BY <1>1, <1>2

(* The children that both backends have: the nodes b, then the anchor.     *)
Holding(b) == [m \in Modes |-> Append(b, Anchor)]
Both(l) == Holding(NodesOf(l))

(* A row is inserted last, and leaves the place where it was.              *)
LEMMA InsertRow ==
  ASSUME NEW l \in Seq(RowIds), NEW r \in RowIds
  PROVE  /\ Append(Without(l, <<r>>), r) \in Seq(RowIds)
         /\ InsertNode(Both(l), r) = Both(Append(Without(l, <<r>>), r))
<1> DEFINE N == NodesOf(l)
           R == RealNodes(r)
           W == Without(N, R)
<1>a. PICK a, b : a = <<r, 1>> /\ b = <<r, 2>>
  OBVIOUS
<1>1. N \in Seq(InnerNodes)
  BY <1>a, NodesRange
<1>2. /\ R = <<a, b>> /\ R \in Seq(RowNodes) /\ ToSet(R) = {a, b}
      /\ a \in RowNodes /\ b \in RowNodes /\ a # b
  BY <1>a, RowPair
<1>3. R \in Seq(InnerNodes) /\ a \in InnerNodes /\ b \in InnerNodes /\ a # Anchor /\ b # Anchor
  BY <1>2, NodeFacts, SeqMonotonic
<1>4. Without(l, <<r>>) \in Seq(RowIds)
  BY WithoutStays
<1>5. W = NodesOf(Without(l, <<r>>)) /\ NodesOf(Append(Without(l, <<r>>), r)) = W \o R
  <2>1. W = NodesOf(Without(l, <<r>>))
    BY NodesWithout
  <2> QED
    BY <1>4, <2>1, NodesSnoc
<1> HIDE DEF N, R
<1>6. /\ W \in Seq(InnerNodes) /\ Without(Append(N, Anchor), R) = Append(W, Anchor)
  BY <1>1, <1>2, <1>3, AnchorStays
<1>7. MockInsert(Append(N, Anchor), r) = Append(W \o R, Anchor)
  <2>1. Before(Append(W, Anchor), Anchor, R) = Append(W \o R, Anchor)
    BY <1>3, <1>6, InsertBefore
  <2> QED
    BY <1>6, <2>1 DEF MockInsert, R
<1>8. WebInsert(Append(N, Anchor), r) = Append(W \o R, Anchor)
  <2> DEFINE V == Append(Without(N, <<a>>), a)
  <2>1. V \in Seq(InnerNodes) /\ InsertOne(Append(N, Anchor), a) = Append(V, Anchor)
    BY <1>1, <1>3, InsertOneIs
  <2>2. InsertOne(Append(V, Anchor), b) = Append(Append(Without(V, <<b>>), b), Anchor)
    <3> HIDE DEF V
    <3> QED
      BY <1>3, <2>1, InsertOneIs
  <2>3. Without(V, <<b>>) = Append(Without(Without(N, <<a>>), <<b>>), a)
    <3>1. Without(N, <<a>>) \in Seq(InnerNodes)
      BY <1>1, WithoutStays
    <3>2. Without(V, <<b>>) = IF a \in ToSet(<<b>>) THEN Without(Without(N, <<a>>), <<b>>)
                              ELSE Append(Without(Without(N, <<a>>), <<b>>), a)
      BY <1>3, <3>1, WithoutSnoc
    <3>3. ToSet(<<b>>) = {b}
      BY SetToOne
    <3> QED
      BY <1>2, <3>2, <3>3
  <2>4. Without(Without(N, <<a>>), <<b>>) = W
    BY ONLY <1>1, <1>2, WithoutPair
  <2>5. Append(Append(W, a), b) = W \o R
    <3> HIDE DEF W
    <3>1. Append(W, a) = W \o <<a>> /\ Append(W, a) \in Seq(InnerNodes) /\ <<a>> \in Seq(InnerNodes) /\ <<b>> \in Seq(InnerNodes)
      BY <1>3, <1>6, AppendIsConcat, AppendProperties
    <3>2. Append(Append(W, a), b) = (W \o <<a>>) \o <<b>>
      BY <1>3, <3>1, AppendIsConcat
    <3>3. (W \o <<a>>) \o <<b>> = W \o (<<a>> \o <<b>>)
      BY <1>6, <3>1, ConcatAssociative
    <3>4. <<a>> \o <<b>> = <<a, b>>
      <4>1. Append(<<a>>, b) = <<a>> \o <<b>>
        BY <1>3, <3>1, AppendIsConcat
      <4>2. Append(<<a>>, b) = <<a, b>>
        BY ONLY PairAppend
      <4> QED
        BY <4>1, <4>2
    <3> QED
      BY <1>2, <3>2, <3>3, <3>4
  <2>6. WebInsert(Append(N, Anchor), r) = InsertOne(InsertOne(Append(N, Anchor), a), b)
    <3>1. RealNodes(r) = <<a, b>>
      BY <1>2 DEF R
    <3> DEFINE c == Append(N, Anchor)
    <3> HIDE DEF c
    <3>2. WebInsert(c, r) = InsertOne(InsertOne(c, a), b)
      BY ONLY <3>1, InsertLoop
    <3> QED
      BY <3>2 DEF c
  <2> QED
    BY <2>1, <2>2, <2>3, <2>4, <2>5, <2>6
<1>9. InsertNode(Both(l), r) = Holding(W \o R)
  <2>1. \A m \in Modes : Both(l)[m] = Append(N, Anchor)
    BY DEF Both, Holding, N
  <2> QED
    BY <1>7, <1>8, <2>1 DEF InsertNode, Holding
<1>10. Append(Without(l, <<r>>), r) \in Seq(RowIds)
  BY <1>4, RangeSnoc
<1> QED
  BY <1>5, <1>9, <1>10 DEF Both

LEMMA RemoveRow ==
  ASSUME NEW l \in Seq(RowIds), NEW r \in Range(l)
  PROVE  /\ Without(l, <<r>>) \in Seq(RowIds)
         /\ RemoveNode(Both(l), r) = Both(Without(l, <<r>>))
<1> DEFINE N == NodesOf(l)
           R == RealNodes(r)
           W == Without(N, R)
<1>a. PICK a, b : a = <<r, 1>> /\ b = <<r, 2>>
  OBVIOUS
<1>0. r \in RowIds
  BY RangeOfSeq
<1>1. N \in Seq(InnerNodes) /\ a \in Range(N) /\ b \in Range(N)
  BY <1>a, NodesRange
<1>2. /\ R = <<a, b>> /\ R \in Seq(RowNodes) /\ ToSet(R) = {a, b}
      /\ a \in RowNodes /\ b \in RowNodes /\ a # b
  BY <1>0, <1>a, RowPair
<1>3. a # Anchor /\ b # Anchor
  BY <1>2, NodeFacts
<1>4. Without(l, <<r>>) \in Seq(RowIds) /\ W = NodesOf(Without(l, <<r>>))
  BY <1>0, WithoutStays, NodesWithout
<1> HIDE DEF N, R
<1>6. /\ W \in Seq(InnerNodes) /\ Without(Append(N, Anchor), R) = Append(W, Anchor)
  BY <1>1, <1>2, <1>3, AnchorStays
<1>7. MockRemove(Append(N, Anchor), r) = Append(W, Anchor)
  BY <1>6 DEF MockRemove, R
<1>8. WebRemove(Append(N, Anchor), r) = Append(W, Anchor)
  <2> DEFINE V == Without(N, <<a>>)
  <2>1. V \in Seq(InnerNodes) /\ RemoveOne(Append(N, Anchor), a) = Append(V, Anchor)
    BY <1>1, RemoveOneIs
  <2>2. b \in Range(V)
    <3>1. Range(V) = Range(N) \ ToSet(<<a>>)
      BY <1>1, WithoutStays
    <3> QED
      BY <1>1, <1>2, <3>1, SetToOne
  <2>3. RemoveOne(Append(V, Anchor), b) = Append(Without(V, <<b>>), Anchor)
    <3> HIDE DEF V
    <3> QED
      BY <2>1, <2>2, RemoveOneIs
  <2>4. Without(V, <<b>>) = W
    <3> HIDE DEF V
    <3>1. N \in Seq(InnerNodes) /\ ToSet(R) = {a, b}
      BY <1>1, <1>2
    <3>2. Without(Without(N, <<a>>), <<b>>) = Without(N, R)
      BY ONLY <3>1, WithoutPair
    <3> QED
      BY <3>2 DEF V
  <2>6. WebRemove(Append(N, Anchor), r) = RemoveOne(RemoveOne(Append(N, Anchor), a), b)
    <3>1. RealNodes(r) = <<a, b>>
      BY <1>2 DEF R
    <3> DEFINE c == Append(N, Anchor)
    <3> HIDE DEF c
    <3>2. WebRemove(c, r) = RemoveOne(RemoveOne(c, a), b)
      BY ONLY <3>1, RemoveLoop
    <3> QED
      BY <3>2 DEF c
  <2> QED
    BY <2>1, <2>3, <2>4, <2>6
<1>9. RemoveNode(Both(l), r) = Holding(W)
  <2>1. \A m \in Modes : Both(l)[m] = Append(N, Anchor)
    BY DEF Both, Holding, N
  <2> QED
    BY <1>7, <1>8, <2>1 DEF RemoveNode, Holding
<1> QED
  BY <1>4, <1>9 DEF Both

(* The node of a branch comes and goes.                                    *)
LEMMA BranchComes ==
  ASSUME NEW n \in {1, 2} \X {0, 1}
  PROVE  InsertNode(Empty, n) = Holding(<<n>>) /\ RemoveNode(Holding(<<n>>), n) = Empty
<1>1. RealNodes(n) = <<n>> /\ n \in InnerNodes /\ <<n>> \in Seq(InnerNodes) /\ ToSet(<<n>>) = {n}
  BY BranchNode
<1>2. n # Anchor
  BY <1>1, NodeFacts
<1>3. <<>> \in Seq(InnerNodes) /\ <<Anchor>> = Append(<<>>, Anchor)
  OBVIOUS
<1>4. Without(<<>>, <<n>>) = <<>>
  BY WithoutEmpty
<1>5. Append(<<>>, n) = <<n>> /\ <<>> \o <<n>> = <<n>>
  OBVIOUS
<1>6. MockInsert(<<Anchor>>, n) = Append(<<n>>, Anchor)
  <2>1. Without(<<Anchor>>, <<n>>) = <<Anchor>>
    BY <1>1, <1>2, <1>3, <1>4, AnchorStays
  <2>2. Before(<<Anchor>>, Anchor, <<n>>) = Append(<<n>>, Anchor)
    BY <1>1, <1>3, <1>5, InsertBefore
  <2> QED
    BY <1>1, <2>1, <2>2 DEF MockInsert
<1>7. WebInsert(<<Anchor>>, n) = Append(<<n>>, Anchor)
  <2>1. InsertOne(<<Anchor>>, n) = Append(<<n>>, Anchor)
    BY <1>1, <1>3, <1>4, <1>5, InsertOneIs
  <2> QED
    BY <1>1, <2>1, InsertLoop
<1>8. Without(<<n>>, <<n>>) = <<>>
  BY <1>1, <1>3, <1>4, <1>5, WithoutSnoc
<1>9. MockRemove(Append(<<n>>, Anchor), n) = <<Anchor>>
  BY <1>1, <1>2, <1>3, <1>8, AnchorStays DEF MockRemove
<1>10. WebRemove(Append(<<n>>, Anchor), n) = <<Anchor>>
  <2>1. n \in Range(<<n>>)
    BY DEF Range
  <2>2. RemoveOne(Append(<<n>>, Anchor), n) = <<Anchor>>
    BY <1>1, <1>3, <1>8, <2>1, RemoveOneIs
  <2> QED
    BY <1>1, <2>2, RemoveLoop
<1>11. InsertNode(Empty, n) = Holding(<<n>>)
  BY <1>6, <1>7 DEF InsertNode, Holding, Empty
<1>12. RemoveNode(Holding(<<n>>), n) = Empty
  BY <1>9, <1>10 DEF RemoveNode, Holding, Empty
<1> QED
  BY <1>11, <1>12
-----------------------------------------------------------------------------
(* Rows inserted one after the other.                                      *)
Inserted(k, s) == Each(InsertNode, k, s)

IsInserted(w, k, s, n) == w = [i \in 0..n |-> IF i = 0 THEN k ELSE InsertNode(w[i - 1], s[i])]

LEMMA InsertedRun ==
  ASSUME NEW x, NEW n \in Nat, NEW s
  PROVE  \E w : IsInserted(w, x, s, n)
<1> DEFINE G(k, w) == [i \in 0..k |-> IF i = 0 THEN x ELSE InsertNode(w[i - 1], s[i])]
           A == {k \in 0..n : \E w : w = G(k, w)}
<1>1. 0 \in A
  <2> DEFINE w == [i \in 0..0 |-> x]
  <2>1. w = G(0, w)
    OBVIOUS
  <2> HIDE DEF w, G
  <2> QED
    BY <2>1
<1>2. ASSUME NEW i \in 1..n, i - 1 \in A PROVE i \in A
  <2>1. PICK w : w = G(i - 1, w)
    BY <1>2
  <2> DEFINE v == [j \in 0..i |-> IF j = i THEN InsertNode(w[i - 1], s[i]) ELSE w[j]]
  <2>2. ASSUME NEW j \in 0..i
        PROVE  v[j] = IF j = 0 THEN x ELSE InsertNode(v[j - 1], s[j])
    <3>1. CASE j = 0
      BY <2>1, <3>1
    <3>2. CASE j = i
      <4>1. j - 1 \in 0..i /\ j - 1 # i /\ j # 0
        BY <3>2
      <4> QED
        BY <3>2, <4>1
    <3>3. CASE j # 0 /\ j # i
      <4>1. j - 1 \in 0..i /\ j - 1 # i /\ j \in 0..i - 1
        BY <3>3
      <4>2. v[j] = w[j] /\ v[j - 1] = w[j - 1]
        BY <3>3, <4>1
      <4>3. w[j] = InsertNode(w[j - 1], s[j])
        BY <2>1, <3>3, <4>1
      <4> QED
        BY <3>3, <4>2, <4>3
    <3> QED
      BY <3>1, <3>2, <3>3
  <2>3. v = [j \in 0..i |-> v[j]]
    OBVIOUS
  <2> HIDE DEF v
  <2>4. v = G(i, v)
    BY <2>2, <2>3
  <2> HIDE DEF G
  <2> QED
    BY <1>2, <2>4
<1> HIDE DEF A
<1>3. 0..n \subseteq A
  BY ONLY <1>1, <1>2, n \in Nat, Steps
<1> QED
  BY <1>3 DEF A, IsInserted

LEMMA InsertedIs ==
  ASSUME NEW T, NEW k, NEW s \in Seq(T)
  PROVE  \E w : IsInserted(w, k, s, Len(s)) /\ Inserted(k, s) = w[Len(s)]
<1> DEFINE G(w) == [i \in 0..Len(s) |-> IF i = 0 THEN k ELSE InsertNode(w[i - 1], s[i])]
           v == CHOOSE v : v = G(v)
<1>1. Len(s) \in Nat
  OBVIOUS
<1>2. \E w : w = G(w)
  <2>1. PICK w : IsInserted(w, k, s, Len(s))
    BY <1>1, InsertedRun
  <2> QED
    BY <2>1 DEF IsInserted
<1>3. v = G(v)
  <2> HIDE DEF G
  <2> QED
    BY <1>2
<1>4. Inserted(k, s) = v[Len(s)]
  BY DEF Inserted, Each
<1>5. IsInserted(v, k, s, Len(s))
  <2> HIDE DEF v
  <2> QED
    BY <1>3 DEF IsInserted
<1> HIDE DEF v
<1> QED
  BY <1>4, <1>5

LEMMA InsertedSnoc ==
  ASSUME NEW T, NEW k, NEW s \in Seq(T), NEW r \in T
  PROVE  Inserted(k, Append(s, r)) = InsertNode(Inserted(k, s), r)
<1> DEFINE c == Append(s, r)
           n == Len(s)
<1>1. c \in Seq(T) /\ Len(c) = n + 1 /\ c[n + 1] = r /\ \A i \in 1..n : c[i] = s[i]
  BY AppendProperties
<1>2. PICK v : IsInserted(v, k, s, n) /\ Inserted(k, s) = v[n]
  BY InsertedIs
<1> HIDE DEF c
<1>3. PICK w : IsInserted(w, k, c, Len(c)) /\ Inserted(k, c) = w[Len(c)]
  BY <1>1, InsertedIs
<1>4. n \in Nat
  OBVIOUS
<1>5. v[0] = w[0] /\ \A i \in 1..n : v[i - 1] = w[i - 1] => v[i] = w[i]
  <2>1. v[0] = w[0]
    BY <1>1, <1>2, <1>3, <1>4 DEF IsInserted
  <2>2. ASSUME NEW i \in 1..n, v[i - 1] = w[i - 1] PROVE v[i] = w[i]
    <3>1. i \in 0..Len(c) /\ i \in 0..n /\ i # 0 /\ c[i] = s[i]
      BY <1>1, <1>4
    <3>2. w[i] = InsertNode(w[i - 1], c[i])
      BY <1>3, <3>1 DEF IsInserted
    <3>3. v[i] = InsertNode(v[i - 1], s[i])
      BY <1>2, <3>1 DEF IsInserted
    <3> QED
      BY <2>2, <3>1, <3>2, <3>3
  <2> QED
    BY <2>1, <2>2
<1> HIDE DEF n
<1>6. \A i \in 0..n : v[i] = w[i]
  <2>1. InStep(v, w, n)
    BY <1>4, <1>5 DEF InStep
  <2>2. Alike(v, w, n)
    BY ONLY <1>4, <1>5, <2>1, SameRounds
  <2> QED
    BY <2>2 DEF Alike
<1>7. w[n + 1] = InsertNode(w[n], r)
  <2>1. n + 1 \in 0..Len(c) /\ n + 1 # 0 /\ (n + 1) - 1 = n
    BY <1>1, <1>4
  <2>2. w[n + 1] = InsertNode(w[(n + 1) - 1], c[n + 1])
    BY <1>3, <2>1 DEF IsInserted
  <2> QED
    BY <1>1, <2>1, <2>2
<1>8. v[n] = w[n]
  BY <1>4, <1>6
<1> QED
  BY <1>1, <1>2, <1>3, <1>7, <1>8 DEF c

LEMMA InsertedNone ==
  ASSUME NEW k
  PROVE  Inserted(k, <<>>) = k
<1>1. <<>> \in Seq({}) /\ Len(<<>>) = 0
  OBVIOUS
<1>2. PICK v : IsInserted(v, k, <<>>, Len(<<>>)) /\ Inserted(k, <<>>) = v[Len(<<>>)]
  BY <1>1, InsertedIs
<1>3. 0 \in 0..Len(<<>>)
  BY <1>1
<1>4. v[0] = k
  BY <1>2, <1>3 DEF IsInserted
<1> QED
  BY <1>1, <1>2, <1>4

(* Rows removed one after the other.                                    *)
Removed(k, s) == Each(RemoveNode, k, s)

IsRemoved(w, k, s, n) == w = [i \in 0..n |-> IF i = 0 THEN k ELSE RemoveNode(w[i - 1], s[i])]

LEMMA RemovedRun ==
  ASSUME NEW x, NEW n \in Nat, NEW s
  PROVE  \E w : IsRemoved(w, x, s, n)
<1> DEFINE G(k, w) == [i \in 0..k |-> IF i = 0 THEN x ELSE RemoveNode(w[i - 1], s[i])]
           A == {k \in 0..n : \E w : w = G(k, w)}
<1>1. 0 \in A
  <2> DEFINE w == [i \in 0..0 |-> x]
  <2>1. w = G(0, w)
    OBVIOUS
  <2> HIDE DEF w, G
  <2> QED
    BY <2>1
<1>2. ASSUME NEW i \in 1..n, i - 1 \in A PROVE i \in A
  <2>1. PICK w : w = G(i - 1, w)
    BY <1>2
  <2> DEFINE v == [j \in 0..i |-> IF j = i THEN RemoveNode(w[i - 1], s[i]) ELSE w[j]]
  <2>2. ASSUME NEW j \in 0..i
        PROVE  v[j] = IF j = 0 THEN x ELSE RemoveNode(v[j - 1], s[j])
    <3>1. CASE j = 0
      BY <2>1, <3>1
    <3>2. CASE j = i
      <4>1. j - 1 \in 0..i /\ j - 1 # i /\ j # 0
        BY <3>2
      <4> QED
        BY <3>2, <4>1
    <3>3. CASE j # 0 /\ j # i
      <4>1. j - 1 \in 0..i /\ j - 1 # i /\ j \in 0..i - 1
        BY <3>3
      <4>2. v[j] = w[j] /\ v[j - 1] = w[j - 1]
        BY <3>3, <4>1
      <4>3. w[j] = RemoveNode(w[j - 1], s[j])
        BY <2>1, <3>3, <4>1
      <4> QED
        BY <3>3, <4>2, <4>3
    <3> QED
      BY <3>1, <3>2, <3>3
  <2>3. v = [j \in 0..i |-> v[j]]
    OBVIOUS
  <2> HIDE DEF v
  <2>4. v = G(i, v)
    BY <2>2, <2>3
  <2> HIDE DEF G
  <2> QED
    BY <1>2, <2>4
<1> HIDE DEF A
<1>3. 0..n \subseteq A
  BY ONLY <1>1, <1>2, n \in Nat, Steps
<1> QED
  BY <1>3 DEF A, IsRemoved

LEMMA RemovedIs ==
  ASSUME NEW T, NEW k, NEW s \in Seq(T)
  PROVE  \E w : IsRemoved(w, k, s, Len(s)) /\ Removed(k, s) = w[Len(s)]
<1> DEFINE G(w) == [i \in 0..Len(s) |-> IF i = 0 THEN k ELSE RemoveNode(w[i - 1], s[i])]
           v == CHOOSE v : v = G(v)
<1>1. Len(s) \in Nat
  OBVIOUS
<1>2. \E w : w = G(w)
  <2>1. PICK w : IsRemoved(w, k, s, Len(s))
    BY <1>1, RemovedRun
  <2> QED
    BY <2>1 DEF IsRemoved
<1>3. v = G(v)
  <2> HIDE DEF G
  <2> QED
    BY <1>2
<1>4. Removed(k, s) = v[Len(s)]
  BY DEF Removed, Each
<1>5. IsRemoved(v, k, s, Len(s))
  <2> HIDE DEF v
  <2> QED
    BY <1>3 DEF IsRemoved
<1> HIDE DEF v
<1> QED
  BY <1>4, <1>5

LEMMA RemovedSnoc ==
  ASSUME NEW T, NEW k, NEW s \in Seq(T), NEW r \in T
  PROVE  Removed(k, Append(s, r)) = RemoveNode(Removed(k, s), r)
<1> DEFINE c == Append(s, r)
           n == Len(s)
<1>1. c \in Seq(T) /\ Len(c) = n + 1 /\ c[n + 1] = r /\ \A i \in 1..n : c[i] = s[i]
  BY AppendProperties
<1>2. PICK v : IsRemoved(v, k, s, n) /\ Removed(k, s) = v[n]
  BY RemovedIs
<1> HIDE DEF c
<1>3. PICK w : IsRemoved(w, k, c, Len(c)) /\ Removed(k, c) = w[Len(c)]
  BY <1>1, RemovedIs
<1>4. n \in Nat
  OBVIOUS
<1>5. v[0] = w[0] /\ \A i \in 1..n : v[i - 1] = w[i - 1] => v[i] = w[i]
  <2>1. v[0] = w[0]
    BY <1>1, <1>2, <1>3, <1>4 DEF IsRemoved
  <2>2. ASSUME NEW i \in 1..n, v[i - 1] = w[i - 1] PROVE v[i] = w[i]
    <3>1. i \in 0..Len(c) /\ i \in 0..n /\ i # 0 /\ c[i] = s[i]
      BY <1>1, <1>4
    <3>2. w[i] = RemoveNode(w[i - 1], c[i])
      BY <1>3, <3>1 DEF IsRemoved
    <3>3. v[i] = RemoveNode(v[i - 1], s[i])
      BY <1>2, <3>1 DEF IsRemoved
    <3> QED
      BY <2>2, <3>1, <3>2, <3>3
  <2> QED
    BY <2>1, <2>2
<1> HIDE DEF n
<1>6. \A i \in 0..n : v[i] = w[i]
  <2>1. InStep(v, w, n)
    BY <1>4, <1>5 DEF InStep
  <2>2. Alike(v, w, n)
    BY ONLY <1>4, <1>5, <2>1, SameRounds
  <2> QED
    BY <2>2 DEF Alike
<1>7. w[n + 1] = RemoveNode(w[n], r)
  <2>1. n + 1 \in 0..Len(c) /\ n + 1 # 0 /\ (n + 1) - 1 = n
    BY <1>1, <1>4
  <2>2. w[n + 1] = RemoveNode(w[(n + 1) - 1], c[n + 1])
    BY <1>3, <2>1 DEF IsRemoved
  <2> QED
    BY <1>1, <2>1, <2>2
<1>8. v[n] = w[n]
  BY <1>4, <1>6
<1> QED
  BY <1>1, <1>2, <1>3, <1>7, <1>8 DEF c

LEMMA RemovedNone ==
  ASSUME NEW k
  PROVE  Removed(k, <<>>) = k
<1>1. <<>> \in Seq({}) /\ Len(<<>>) = 0
  OBVIOUS
<1>2. PICK v : IsRemoved(v, k, <<>>, Len(<<>>)) /\ Removed(k, <<>>) = v[Len(<<>>)]
  BY <1>1, RemovedIs
<1>3. 0 \in 0..Len(<<>>)
  BY <1>1
<1>4. v[0] = k
  BY <1>2, <1>3 DEF IsRemoved
<1> QED
  BY <1>1, <1>2, <1>4
-----------------------------------------------------------------------------
(* What they make of the rows of a sequence                                *)

LEMMA RangeIsToSet == \A s : ToSet(s) = Range(s)
  BY DEF ToSet, Range

LEMMA InjectiveSnoc ==
  ASSUME NEW T, NEW s \in Seq(T), NEW x \in T
  PROVE  /\ IsInjective(Append(s, x)) <=> IsInjective(s) /\ x \notin ToSet(s)
         /\ ToSet(Append(s, x)) = ToSet(s) \cup {x}
<1> DEFINE c == Append(s, x)
<1>1. /\ Len(s) \in Nat /\ DOMAIN s = 1..Len(s) /\ DOMAIN c = 1..Len(s) + 1
      /\ c[Len(s) + 1] = x /\ \A i \in 1..Len(s) : c[i] = s[i]
  BY AppendProperties, LenProperties
<1> HIDE DEF c
<1>2. ASSUME IsInjective(c) PROVE IsInjective(s) /\ x \notin ToSet(s)
  <2>1. \A a, b \in DOMAIN c : c[a] = c[b] => a = b
    BY <1>2 DEF IsInjective
  <2>2. \A a, b \in DOMAIN s : s[a] = s[b] => a = b
    BY <1>1, <2>1
  <2>3. x \notin ToSet(s)
    BY <1>1, <2>1 DEF ToSet
  <2> QED
    BY <2>2, <2>3 DEF IsInjective
<1>3. ASSUME IsInjective(s), x \notin ToSet(s) PROVE IsInjective(c)
  <2>1. \A a, b \in DOMAIN s : s[a] = s[b] => a = b
    BY <1>3 DEF IsInjective
  <2>2. \A a \in DOMAIN s : s[a] # x
    BY <1>3 DEF ToSet
  <2>3. \A a \in DOMAIN c : a = Len(s) + 1 \/ a \in DOMAIN s
    BY <1>1
  <2>4. ASSUME NEW a \in DOMAIN c, NEW b \in DOMAIN c, c[a] = c[b] PROVE a = b
    <3>1. CASE a \in DOMAIN s /\ b \in DOMAIN s
      BY <1>1, <2>1, <2>4, <3>1
    <3>2. CASE a = Len(s) + 1 /\ b = Len(s) + 1
      BY <3>2
    <3>3. CASE a \in DOMAIN s /\ b = Len(s) + 1
      BY <1>1, <2>2, <2>4, <3>3
    <3>4. CASE b \in DOMAIN s /\ a = Len(s) + 1
      BY <1>1, <2>2, <2>4, <3>4
    <3> QED
      BY <2>3, <3>1, <3>2, <3>3, <3>4
  <2> QED
    BY <2>4 DEF IsInjective
<1>4. ToSet(c) = ToSet(s) \cup {x}
  BY RangeSnoc, RangeIsToSet DEF c
<1> QED
  BY <1>2, <1>3, <1>4 DEF c

LEMMA WithoutMore ==
  ASSUME NEW T, NEW U, NEW s \in Seq(T), NEW x \in T, NEW b \in Seq(U)
  PROVE  Without(Without(b, s), <<x>>) = Without(b, Append(s, x))
<1>1. PICK m, n : m = <<x>> /\ n = Append(s, x)
  OBVIOUS
<1>2. ToSet(n) = ToSet(s) \cup ToSet(m)
  BY <1>1, SetToOne, InjectiveSnoc
<1>3. b \in Seq(U)
  OBVIOUS
<1>4. Without(Without(b, s), m) = Without(b, n)
  BY ONLY <1>2, <1>3, WithoutTwice
<1> QED
  BY <1>1, <1>4

LEMMA NothingTaken ==
  ASSUME NEW T, NEW b \in Seq(T)
  PROVE  Without(b, <<>>) = b
<1>1. \A i \in DOMAIN b : b[i] \notin ToSet(<<>>)
  BY DEF ToSet
<1>2. PICK ns : ns = <<>>
  OBVIOUS
<1>3. \A i \in DOMAIN b : b[i] \notin ToSet(ns)
  BY <1>1, <1>2
<1>4. b \in Seq(T)
  OBVIOUS
<1>5. Without(b, ns) = b
  BY ONLY <1>3, <1>4, WithoutOthers
<1> QED
  BY <1>2, <1>5

(* Rows inserted in order end up in that order.                            *)
LEMMA InsertedRows ==
  ASSUME NEW l \in Seq(RowIds), NEW s \in Seq(RowIds), IsInjective(s)
  PROVE  Inserted(Both(l), s) = Both(Without(l, s) \o s)
<1> DEFINE A == {c \in Seq(RowIds) : IsInjective(c) => Inserted(Both(l), c) = Both(Without(l, c) \o c)}
<1>1. <<>> \in A
  <2>1. Inserted(Both(l), <<>>) = Both(l)
    BY InsertedNone
  <2>2. Without(l, <<>>) \o <<>> = l
    BY NothingTaken, ConcatEmptySeq
  <2> QED
    BY <2>1, <2>2
<1>2. ASSUME NEW c \in Seq(RowIds), NEW x \in RowIds, c \in A PROVE Append(c, x) \in A
  <2> SUFFICES ASSUME IsInjective(Append(c, x))
               PROVE  Inserted(Both(l), Append(c, x)) = Both(Without(l, Append(c, x)) \o Append(c, x))
    BY RangeSnoc
  <2>1. IsInjective(c) /\ x \notin ToSet(c)
    BY InjectiveSnoc
  <2> DEFINE W == Without(l, c)
             V == Without(l, Append(c, x))
  <2>2. Inserted(Both(l), c) = Both(W \o c)
    BY <1>2, <2>1
  <2>3. W \in Seq(RowIds) /\ V \in Seq(RowIds) /\ Without(W, <<x>>) = V
    <3>1. \A ns : Without(l, ns) \in Seq(RowIds)
      BY WithoutStays
    <3>2. Without(W, <<x>>) = V
      BY WithoutMore
    <3> QED
      BY <3>1, <3>2
  <2> HIDE DEF W, V
  <2>4. W \o c \in Seq(RowIds)
    BY <2>3, ConcatProperties
  <2>5. Without(W \o c, <<x>>) = V \o c
    <3>1. Without(W \o c, <<x>>) = Without(W, <<x>>) \o Without(c, <<x>>)
      <4>1. PICK ns : ns = <<x>>
        OBVIOUS
      <4>2. Without(W \o c, ns) = Without(W, ns) \o Without(c, ns)
        BY <2>3, WithoutConcat
      <4> QED
        BY <4>1, <4>2
    <3>2. Without(c, <<x>>) = c
      <4>1. PICK ns : ns = <<x>>
        OBVIOUS
      <4>2. \A i \in DOMAIN c : c[i] \notin ToSet(ns)
        BY <2>1, <4>1, SetToOne DEF ToSet
      <4>3. c \in Seq(RowIds)
        OBVIOUS
      <4>4. Without(c, ns) = c
        BY ONLY <4>2, <4>3, WithoutOthers
      <4> QED
        BY <4>1, <4>4
    <3> QED
      BY <2>3, <3>1, <3>2
  <2>6. InsertNode(Both(W \o c), x) = Both(Append(V \o c, x))
    <3>1. PICK d : d = W \o c
      OBVIOUS
    <3>2. InsertNode(Both(d), x) = Both(Append(Without(d, <<x>>), x))
      BY <2>4, <3>1, InsertRow
    <3> QED
      BY <2>5, <3>1, <3>2
  <2>7. Append(V \o c, x) = V \o Append(c, x)
    <3>1. V \o Append(c, x) = V \o (c \o <<x>>) /\ Append(V \o c, x) = (V \o c) \o <<x>>
      BY <2>3, AppendIsConcat, ConcatProperties
    <3>2. V \o (c \o <<x>>) = (V \o c) \o <<x>>
      BY <2>3, ConcatAssociative
    <3> QED
      BY <3>1, <3>2
  <2>8. Inserted(Both(l), Append(c, x)) = InsertNode(Inserted(Both(l), c), x)
    <3>1. PICK k : k = Both(l)
      OBVIOUS
    <3>2. Inserted(k, Append(c, x)) = InsertNode(Inserted(k, c), x)
      BY InsertedSnoc
    <3> QED
      BY <3>1, <3>2
  <2> QED
    BY <2>2, <2>6, <2>7, <2>8 DEF V
<1> HIDE DEF A
<1>3. Seq(RowIds) \subseteq A
  BY ONLY <1>1, <1>2, SeqInduct
<1> QED
  BY <1>3 DEF A

(* Rows that are there are removed.                                        *)
LEMMA RemovedRows ==
  ASSUME NEW l \in Seq(RowIds), NEW s \in Seq(RowIds), IsInjective(s), ToSet(s) \subseteq Range(l)
  PROVE  /\ Removed(Both(l), s) = Both(Without(l, s))
         /\ Without(l, s) \in Seq(RowIds) /\ Range(Without(l, s)) = Range(l) \ ToSet(s)
<1> DEFINE A == {c \in Seq(RowIds) : IsInjective(c) /\ ToSet(c) \subseteq Range(l) =>
                                       Removed(Both(l), c) = Both(Without(l, c))}
<1>1. <<>> \in A
  <2>1. Removed(Both(l), <<>>) = Both(l)
    BY RemovedNone
  <2>2. Without(l, <<>>) = l
    BY NothingTaken
  <2> QED
    BY <2>1, <2>2
<1>2. ASSUME NEW c \in Seq(RowIds), NEW x \in RowIds, c \in A PROVE Append(c, x) \in A
  <2> SUFFICES ASSUME IsInjective(Append(c, x)), ToSet(Append(c, x)) \subseteq Range(l)
               PROVE  Removed(Both(l), Append(c, x)) = Both(Without(l, Append(c, x)))
    BY RangeSnoc
  <2>1. IsInjective(c) /\ x \notin ToSet(c) /\ ToSet(c) \subseteq Range(l) /\ x \in Range(l)
    BY InjectiveSnoc
  <2> DEFINE W == Without(l, c)
  <2>2. Removed(Both(l), c) = Both(W)
    BY <1>2, <2>1
  <2>3. W \in Seq(RowIds) /\ Range(W) = Range(l) \ ToSet(c)
    BY WithoutStays
  <2>4. Without(W, <<x>>) = Without(l, Append(c, x))
    BY WithoutMore
  <2> HIDE DEF W
  <2>5. RemoveNode(Both(W), x) = Both(Without(W, <<x>>))
    BY <2>1, <2>3, RemoveRow
  <2>6. Removed(Both(l), Append(c, x)) = RemoveNode(Removed(Both(l), c), x)
    <3>1. PICK k : k = Both(l)
      OBVIOUS
    <3>2. Removed(k, Append(c, x)) = RemoveNode(Removed(k, c), x)
      BY RemovedSnoc
    <3> QED
      BY <3>1, <3>2
  <2> QED
    BY <2>2, <2>4, <2>5, <2>6
<1> HIDE DEF A
<1>3. Seq(RowIds) \subseteq A
  BY ONLY <1>1, <1>2, SeqInduct
<1>4. Without(l, s) \in Seq(RowIds) /\ Range(Without(l, s)) = Range(l) \ ToSet(s)
  BY WithoutStays
<1> QED
  BY <1>3, <1>4 DEF A
-----------------------------------------------------------------------------
(* Sets in order                                                           *)

LEMMA SetInOrder ==
  ASSUME NEW S, IsFiniteSet(S)
  PROVE  SetToSeq(S) \in Seq(S) /\ IsInjective(SetToSeq(S)) /\ ToSet(SetToSeq(S)) = S
<1> DEFINE n == Cardinality(S)
           f == SetToSeq(S)
<1>1. n \in Nat /\ ExistsBijection(1 .. n, S)
  BY FS_CardinalityType
<1>2. \E g \in [1 .. n -> S] : IsInjective(g)
  BY <1>1 DEF ExistsBijection, Bijection, Injection
<1>3. f \in [1 .. n -> S] /\ IsInjective(f)
  BY <1>2 DEF SetToSeq
<1>4. IsFiniteSet(1 .. n) /\ Cardinality(1 .. n) = n
  BY <1>1, CountTo
<1> HIDE DEF f
<1>5. f \in Injection(1 .. n, S)
  BY <1>3 DEF Injection
<1>6. f \in Surjection(1 .. n, S)
  <2>1. Cardinality(1 .. n) = Cardinality(S) <=> f \in Surjection(1 .. n, S)
    <3> HIDE DEF n
    <3> QED
      BY ONLY <1>5, IsFiniteSet(S), FS_Injection
  <2> QED
    BY <1>4, <2>1
<1>7. ToSet(f) = S
  BY <1>3, <1>6 DEF ToSet, Surjection
<1> HIDE DEF n
<1> QED
  BY <1>1, <1>3, <1>7, SeqDef DEF f
-----------------------------------------------------------------------------
(* The places where a key occurs first                                     *)

IsFirsts(w, g) ==
  /\ w \in [0..Len(g) -> Seq(Nat)] /\ w[0] = <<>> /\ Firsts(g) = w[Len(g)]
  /\ \A i \in 1..Len(g) : w[i] = IF FirstOfKey(g, i) THEN Append(w[i - 1], i) ELSE w[i - 1]

LEMMA FirstsLoop ==
  ASSUME NEW T, NEW g \in Seq(T)
  PROVE  \E w : IsFirsts(w, g)
<1> DEFINE n == Len(g)
           s == [i \in DOMAIN g |-> i]
           G(firsts, i) == IF FirstOfKey(g, i) THEN Append(firsts, i) ELSE firsts
           F == [i \in 1..n |-> [firsts \in Seq(Nat) |-> G(firsts, i)]]
<1>1. n \in Nat /\ DOMAIN g = 1..n /\ \A i \in 1..n : i \in Nat
  BY LenProperties
<1>2. F \in [1..n -> [Seq(Nat) -> Seq(Nat)]] /\ <<>> \in Seq(Nat)
  BY <1>1
<1>3. PICK w : IsRun(w, Seq(Nat), <<>>, n, F)
  <2> HIDE DEF F, n
  <2> QED
    BY ONLY <1>1, <1>2, Rounds
<1>3a. w \in [0..n -> Seq(Nat)] /\ w[0] = <<>> /\ \A i \in 1..n : w[i] = F[i][w[i - 1]]
  BY <1>3 DEF IsRun
<1>4. \A i \in 1..n : w[i] = G(w[i - 1], i)
  <2> SUFFICES ASSUME NEW i \in 1..n PROVE w[i] = G(w[i - 1], i)
    OBVIOUS
  <2> HIDE DEF G, F
  <2>1. w[i - 1] \in Seq(Nat)
    BY <1>1, <1>3a
  <2> USE DEF F
  <2> QED
    BY <1>3a, <2>1
<1> HIDE DEF F
<1>5. s \in Seq(Nat) /\ Len(s) = n /\ \A i \in 1..n : s[i] = i
  <2> HIDE DEF n
  <2>1. s \in [1..n -> Nat]
    BY <1>1
  <2>2. s \in Seq(Nat) /\ Len(s) = n
    BY <1>1, <2>1
  <2> QED
    BY <1>1, <2>2
<1> DEFINE R(v) == [i \in 0..Len(s) |-> IF i = 0 THEN <<>> ELSE G(v[i - 1], s[i])]
           v == CHOOSE v : v = R(v)
<1>6. w = R(w)
  <2> HIDE DEF G, s
  <2>1. \A i \in 0..n : i # 0 => s[i] = i /\ w[i] = G(w[i - 1], i)
    BY <1>1, <1>4, <1>5
  <2> QED
    BY <1>1, <1>3a, <1>5, <2>1
<1>7. v = R(v)
  <2> HIDE DEF R
  <2> QED
    BY <1>6
<1>8. Firsts(g) = v[Len(s)]
  BY DEF Firsts, Each
<1> HIDE DEF v, G, s
<1>9. v[0] = w[0] /\ \A i \in 1..n : v[i - 1] = w[i - 1] => v[i] = w[i]
  BY <1>1, <1>3a, <1>4, <1>5, <1>7
<1>10. \A i \in 0..n : v[i] = w[i]
  <2> HIDE DEF n
  <2>1. n \in Nat
    BY <1>1
  <2>2. InStep(v, w, n)
    BY <1>9 DEF InStep
  <2>3. Alike(v, w, n)
    BY ONLY <2>1, <2>2, SameRounds
  <2> QED
    BY <2>3 DEF Alike
<1>11. Firsts(g) = w[n]
  BY <1>1, <1>5, <1>8, <1>10
<1> QED
  BY <1>3a, <1>4, <1>11 DEF G, IsFirsts

LEMMA FirstsFacts ==
  ASSUME NEW T, NEW g \in Seq(T)
  PROVE  /\ Firsts(g) \in Seq(DOMAIN g) /\ IsInjective(Firsts(g))
         /\ Range(Firsts(g)) = {i \in DOMAIN g : FirstOfKey(g, i)}
<1>1. PICK w : IsFirsts(w, g)
  BY FirstsLoop
<1> DEFINE n == Len(g)
           A == {k \in 0..n : IsInjective(w[k]) /\ ToSet(w[k]) = {i \in 1..k : FirstOfKey(g, i)}}
<1>2. /\ n \in Nat /\ DOMAIN g = 1..n
      /\ w \in [0..n -> Seq(Nat)] /\ w[0] = <<>> /\ Firsts(g) = w[n]
      /\ \A i \in 1..n : w[i] = IF FirstOfKey(g, i) THEN Append(w[i - 1], i) ELSE w[i - 1]
  BY <1>1, LenProperties DEF IsFirsts
<1> HIDE DEF n
<1>3. 0 \in A
  BY <1>2 DEF IsInjective, ToSet
<1>4. ASSUME NEW k \in 1..n, k - 1 \in A PROVE k \in A
  <2>1. /\ w[k - 1] \in Seq(Nat) /\ IsInjective(w[k - 1])
        /\ ToSet(w[k - 1]) = {i \in 1..k - 1 : FirstOfKey(g, i)}
    BY <1>2, <1>4
  <2>2. k \in 0..n /\ k \in Nat
    BY <1>2
  <2>3. \A i : i \in 1..k <=> i \in 1..k - 1 \/ i = k
    BY <2>2
  <2>3a. k \notin 1..k - 1
    BY <2>2
  <2>4. CASE FirstOfKey(g, k)
    <3>1. w[k] = Append(w[k - 1], k)
      BY <1>2, <2>4
    <3>2. k \notin ToSet(w[k - 1])
      BY <2>1, <2>3a
    <3>3. /\ IsInjective(Append(w[k - 1], k)) <=> IsInjective(w[k - 1]) /\ k \notin ToSet(w[k - 1])
          /\ ToSet(Append(w[k - 1], k)) = ToSet(w[k - 1]) \cup {k}
      BY <2>1, <2>2, InjectiveSnoc
    <3>4. ToSet(w[k]) = {i \in 1..k : FirstOfKey(g, i)}
      BY <2>1, <2>3, <2>4, <3>1, <3>3
    <3> QED
      BY <2>1, <2>2, <3>1, <3>2, <3>3, <3>4
  <2>5. CASE ~FirstOfKey(g, k)
    <3>1. w[k] = w[k - 1]
      BY <1>2, <2>5
    <3>2. ToSet(w[k]) = {i \in 1..k : FirstOfKey(g, i)}
      BY <2>1, <2>3, <2>5, <3>1
    <3> QED
      BY <2>1, <2>2, <3>1, <3>2
  <2> QED
    BY <2>4, <2>5
<1> HIDE DEF A
<1>5. 0..n \subseteq A
  BY ONLY <1>2, <1>3, <1>4, Steps
<1>6. n \in A
  BY <1>2, <1>5
<1>7. IsInjective(Firsts(g)) /\ ToSet(Firsts(g)) = {i \in 1..n : FirstOfKey(g, i)}
  BY <1>2, <1>6 DEF A
<1>8. Firsts(g) \in Seq(Nat)
  BY <1>2
<1>9. Range(Firsts(g)) = {i \in DOMAIN g : FirstOfKey(g, i)}
  BY <1>2, <1>7, RangeIsToSet
<1>10. Firsts(g) \in Seq(DOMAIN g)
  <2>1. Firsts(g) \in Seq(Range(Firsts(g)))
    BY <1>8, SeqOfRange
  <2>2. Range(Firsts(g)) \subseteq DOMAIN g
    BY <1>9
  <2> QED
    BY <2>1, <2>2, SeqMonotonic
<1> QED
  BY <1>7, <1>9, <1>10
-----------------------------------------------------------------------------
(* The rows of a list and their order                                      *)

Keys(g) == {g[i].key : i \in DOMAIN g}
FirstPlaces(g) == {i \in DOMAIN g : FirstOfKey(g, i)}
OrderOf(g, st) == [p \in DOMAIN Firsts(g) |-> st[g[Firsts(g)[p]].key]]

OneToOne(st) == \A k1, k2 \in DOMAIN st : st[k1] = st[k2] => k1 = k2

(* The rows st of the items g: a row of its own for each key, which has    *)
(* the first item of its key.                                              *)
Rows(g, st, rows) ==
  /\ DOMAIN st = Keys(g) /\ OneToOne(st)
  /\ \A i \in FirstPlaces(g) : /\ rows[st[g[i].key]].item = g[i]
                               /\ rows[st[g[i].key]].index = i - 1

LEMMA FirstUnique ==
  ASSUME NEW T, NEW g \in Seq(T), NEW i \in FirstPlaces(g), NEW j \in FirstPlaces(g),
         g[i].key = g[j].key
  PROVE  i = j
<1>1. DOMAIN g = 1..Len(g) /\ Len(g) \in Nat
  BY LenProperties
<1>2. i \in Nat /\ j \in Nat /\ FirstOfKey(g, i) /\ FirstOfKey(g, j) /\ i >= 1 /\ j >= 1
  BY <1>1 DEF FirstPlaces
<1>3. ~ (i < j) /\ ~ (j < i)
  BY <1>2 DEF FirstOfKey
<1> QED
  BY <1>2, <1>3

LEMMA FirstExists ==
  ASSUME NEW T, NEW g \in Seq(T), NEW k \in Keys(g)
  PROVE  \E i \in FirstPlaces(g) : g[i].key = k
<1> DEFINE S == {i \in DOMAIN g : g[i].key = k}
<1>1. DOMAIN g = 1..Len(g) /\ Len(g) \in Nat
  BY LenProperties
<1>2. S \in SUBSET Nat /\ S # {}
  BY <1>1 DEF Keys
<1>3. PICK i \in S : \A j \in S : i <= j
  <2> HIDE DEF S
  <2> QED
    BY <1>2, LeastNumber
<1>4. \A j \in 1..(i - 1) : g[j].key # g[i].key
  BY <1>1, <1>3
<1> QED
  BY <1>3, <1>4 DEF FirstPlaces, FirstOfKey

LEMMA OrderFacts ==
  ASSUME NEW T, NEW g \in Seq(T), NEW st, DOMAIN st = Keys(g), OneToOne(st), Range(st) \subseteq RowIds
  PROVE  /\ OrderOf(g, st) \in Seq(RowIds) /\ IsInjective(OrderOf(g, st))
         /\ Range(OrderOf(g, st)) = Range(st)
<1> DEFINE F == Firsts(g)
           o == OrderOf(g, st)
<1>1. F \in Seq(DOMAIN g) /\ IsInjective(F) /\ Range(F) = FirstPlaces(g)
  BY FirstsFacts DEF FirstPlaces
<1>2. o = [p \in DOMAIN F |-> st[g[F[p]].key]]
  BY DEF OrderOf
<1> HIDE DEF F, o
<1>3. DOMAIN F = 1..Len(F) /\ Len(F) \in Nat /\ \A p \in DOMAIN F : F[p] \in FirstPlaces(g)
  BY <1>1, LenProperties DEF Range
<1>4. \A i \in FirstPlaces(g) : g[i].key \in DOMAIN st
  BY DEF FirstPlaces, Keys
<1>5. \A p \in DOMAIN F : o[p] = st[g[F[p]].key] /\ o[p] \in Range(st)
  BY <1>2, <1>3, <1>4 DEF Range
<1>6. o \in Seq(RowIds)
  <2>1. o \in [1..Len(F) -> RowIds]
    BY <1>2, <1>3, <1>5
  <2> QED
    BY <1>3, <2>1, SeqDef
<1>7. DOMAIN o = DOMAIN F
  BY <1>2
<1>8. IsInjective(o)
  <2>1. ASSUME NEW p \in DOMAIN o, NEW r \in DOMAIN o, o[p] = o[r] PROVE p = r
    <3>1. st[g[F[p]].key] = st[g[F[r]].key] /\ F[p] \in FirstPlaces(g) /\ F[r] \in FirstPlaces(g)
      BY <1>3, <1>5, <1>7, <2>1
    <3>2. g[F[p]].key = g[F[r]].key
      BY <1>4, <3>1 DEF OneToOne
    <3>3. F[p] = F[r]
      BY <3>1, <3>2, FirstUnique
    <3> QED
      BY <1>1, <1>7, <3>3 DEF IsInjective
  <2> QED
    BY <2>1 DEF IsInjective
<1>9. Range(o) = Range(st)
  <2>1. Range(o) \subseteq Range(st)
    BY <1>5, <1>7 DEF Range
  <2>2. ASSUME NEW k \in DOMAIN st PROVE st[k] \in Range(o)
    <3>1. PICK i \in FirstPlaces(g) : g[i].key = k
      BY FirstExists
    <3>2. PICK p \in DOMAIN F : F[p] = i
      BY <1>1 DEF Range
    <3>3. o[p] = st[k] /\ p \in DOMAIN o
      BY <1>5, <1>7, <3>1, <3>2
    <3> QED
      BY <3>3 DEF Range
  <2> QED
    BY <2>1, <2>2 DEF Range
<1> QED
  BY <1>6, <1>8, <1>9 DEF o
-----------------------------------------------------------------------------
(* The list's effect                                                       *)

MadeOrder  == [p \in DOMAIN Firsts(items) |-> RowOf(items)[Firsts(items)[p]]]
MadeResult == [k \in {items[i].key : i \in DOMAIN RowOf(items)} |->
                 RowOf(items)[CHOOSE i \in DOMAIN RowOf(items) : items[i].key = k]]
GoneRows   == Range(store) \ Range(MadeResult)
PlaceOf(r) == CHOOSE i \in DOMAIN RowOf(items) : RowOf(items)[i] = r
NewRow(r)  == [item |-> items[PlaceOf(r)], index |-> PlaceOf(r) - 1,
               text |-> RowText(items[PlaceOf(r)], PlaceOf(r) - 1)]
KeptRow(r) == [NewRow(r) EXCEPT !.text = row[r].text]
StaleRows  == {r \in Range(store) \cap Range(RowOf(items)) : row[r] # KeptRow(r)}

LEMMA ReconcileIs ==
  ASSUME NEW s, NEW q, Reconcile(s, q)
  PROVE  /\ row' = [r \in (DOMAIN row \ GoneRows) \cup Range(RowOf(items)) |->
                      IF r \notin Range(RowOf(items)) THEN row[r]
                      ELSE IF r \in Range(store) THEN KeptRow(r) ELSE NewRow(r)]
         /\ kids' = Removed(kids, SetToSeq(GoneRows))
         /\ pending' = Forget(q, GoneRows) \o SetToSeq(StaleRows \ dirty)
         /\ dirty' = (dirty \ GoneRows) \cup StaleRows \cup {"list"}
         /\ ScheduleOrFlush(Append(s, ListFrame(MadeOrder, MadeResult)))
         /\ UNCHANGED <<prog, phase, items, shown, writes, async, post, choice, mounted, top, store,
                        prev, heard, panicked>>
  BY DEF Reconcile, MadeOrder, MadeResult, GoneRows, PlaceOf, NewRow, KeptRow, StaleRows, Removed

(* The new rows and their order, for any list.                             *)
LEMMA MadeFacts ==
  ASSUME items \in Lists, NamesLeft(DOMAIN row), DOMAIN row = Range(store)
  PROVE  /\ DOMAIN RowOf(items) = FirstPlaces(items) /\ Range(RowOf(items)) \subseteq RowIds
         /\ DOMAIN MadeResult = Keys(items) /\ Range(MadeResult) = Range(RowOf(items))
         /\ \A i \in FirstPlaces(items) : MadeResult[items[i].key] = RowOf(items)[i]
         /\ MadeOrder = OrderOf(items, MadeResult)
         /\ MadeOrder \in Seq(RowIds) /\ Range(MadeOrder) = Range(MadeResult)
<1> DEFINE rowOf == RowOf(items)
           F == Firsts(items)
<1>1. DOMAIN rowOf = FirstPlaces(items) /\ rowOf \in [DOMAIN rowOf -> RowIds]
  BY RowOfNames DEF FirstPlaces
<1>2. items \in Seq(Range(items))
  BY ViewAssumption
<1>3. Range(rowOf) \subseteq RowIds
  BY <1>1 DEF Range
<1>4. F \in Seq(DOMAIN items) /\ Range(F) = FirstPlaces(items)
  BY <1>2, FirstsFacts DEF FirstPlaces
<1>5. MadeResult = [k \in {items[i].key : i \in DOMAIN rowOf} |->
                      rowOf[CHOOSE i \in DOMAIN rowOf : items[i].key = k]]
  BY DEF MadeResult
<1>6. MadeOrder = [p \in DOMAIN F |-> rowOf[F[p]]]
  BY DEF MadeOrder
<1> HIDE DEF rowOf, F
<1>7. {items[i].key : i \in DOMAIN rowOf} = Keys(items)
  <2>1. \A i \in DOMAIN rowOf : items[i].key \in Keys(items)
    BY <1>1 DEF FirstPlaces, Keys
  <2>2. \A k \in Keys(items) : \E i \in DOMAIN rowOf : items[i].key = k
    BY <1>1, <1>2, FirstExists
  <2> QED
    BY <2>1, <2>2
<1>8. \A i, j \in FirstPlaces(items) : items[i].key = items[j].key => i = j
  BY <1>2, FirstUnique
<1>9. ASSUME NEW i \in FirstPlaces(items) PROVE MadeResult[items[i].key] = rowOf[i]
  <2>1. (CHOOSE j \in DOMAIN rowOf : items[j].key = items[i].key) = i
    BY <1>1, <1>8
  <2> QED
    BY <1>1, <1>5, <2>1
<1>10. DOMAIN MadeResult = Keys(items)
  BY <1>5, <1>7
<1>11. Range(MadeResult) = Range(rowOf)
  <2>1. \A k \in Keys(items) : MadeResult[k] \in Range(rowOf)
    <3> TAKE k \in Keys(items)
    <3>1. PICK i \in FirstPlaces(items) : items[i].key = k
      BY <1>2, FirstExists
    <3> QED
      BY <1>1, <1>9, <3>1 DEF Range
  <2>2. \A i \in DOMAIN rowOf : rowOf[i] \in Range(MadeResult)
    <3> TAKE i \in DOMAIN rowOf
    <3>1. items[i].key \in DOMAIN MadeResult /\ MadeResult[items[i].key] = rowOf[i]
      BY <1>1, <1>9, <1>10 DEF FirstPlaces, Keys
    <3> QED
      BY <3>1 DEF Range
  <2> QED
    BY <1>10, <2>1, <2>2 DEF Range
<1>12. \A p \in DOMAIN F : F[p] \in FirstPlaces(items)
  BY <1>4 DEF Range
<1>13. MadeOrder = OrderOf(items, MadeResult)
  <2>1. \A p \in DOMAIN F : rowOf[F[p]] = MadeResult[items[F[p]].key]
    BY <1>9, <1>12
  <2>2. OrderOf(items, MadeResult) = [p \in DOMAIN F |-> MadeResult[items[F[p]].key]]
    BY DEF OrderOf, F
  <2> QED
    BY <1>6, <2>1, <2>2
<1>14. DOMAIN F = 1..Len(F) /\ Len(F) \in Nat
  BY <1>4, LenProperties
<1>15. MadeOrder \in Seq(RowIds)
  <2>1. \A p \in DOMAIN F : rowOf[F[p]] \in RowIds
    BY <1>1, <1>12
  <2>2. MadeOrder \in [1..Len(F) -> RowIds]
    BY <1>6, <1>14, <2>1
  <2> QED
    BY <1>14, <2>2, SeqDef
<1>16. Range(MadeOrder) = Range(rowOf)
  <2>1. Range(MadeOrder) \subseteq Range(rowOf)
    BY <1>1, <1>6, <1>12 DEF Range
  <2>2. Range(rowOf) \subseteq Range(MadeOrder)
    <3> SUFFICES ASSUME NEW i \in DOMAIN rowOf PROVE rowOf[i] \in Range(MadeOrder)
      BY DEF Range
    <3>1. PICK p \in DOMAIN F : F[p] = i
      BY <1>1, <1>4 DEF Range
    <3> QED
      BY <1>6, <3>1 DEF Range
  <2> QED
    BY <2>1, <2>2
<1> QED
  BY <1>1, <1>3, <1>9, <1>10, <1>11, <1>13, <1>15, <1>16 DEF rowOf

(* No two items share a row.                                               *)
LEMMA MadeOneToOne ==
  ASSUME items \in Lists, NamesLeft(DOMAIN row), DOMAIN row = Range(store), OneToOne(store)
  PROVE  /\ \A i, j \in FirstPlaces(items) : RowOf(items)[i] = RowOf(items)[j] => i = j
         /\ OneToOne(MadeResult)
<1> DEFINE rowOf == RowOf(items)
           D == {j \in DOMAIN items : FirstOfKey(items, j)}
           news == {i \in DOMAIN items : ~Reused(items, i)}
           fresh == CHOOSE f \in [news -> RowIds \ DOMAIN row] : IsInjective(f)
<1>1. fresh \in [news -> RowIds \ DOMAIN row] /\ IsInjective(fresh)
  BY FreshNames
<1>2. rowOf = [i \in D |-> IF Reused(items, i) THEN store[items[i].key] ELSE fresh[i]]
  BY DEF RowOf
<1>3. items \in Seq(Range(items)) /\ D = FirstPlaces(items)
  BY ViewAssumption DEF FirstPlaces
<1> HIDE DEF rowOf, fresh
<1>4. \A i, j \in D : items[i].key = items[j].key => i = j
  BY <1>3, FirstUnique
<1>5. \A i \in D : Reused(items, i) => rowOf[i] = store[items[i].key] /\ rowOf[i] \in DOMAIN row
                                       /\ items[i].key \in DOMAIN store
  BY <1>2 DEF Reused, Range
<1>6. \A i \in D : ~Reused(items, i) => rowOf[i] = fresh[i] /\ rowOf[i] \notin DOMAIN row /\ i \in DOMAIN fresh
  BY <1>1, <1>2
<1>7. ASSUME NEW i \in D, NEW j \in D, rowOf[i] = rowOf[j] PROVE i = j
  <2>1. CASE Reused(items, i) /\ Reused(items, j)
    BY <1>4, <1>5, <1>7, <2>1 DEF OneToOne
  <2>2. CASE ~Reused(items, i) /\ ~Reused(items, j)
    BY <1>1, <1>6, <1>7, <2>2 DEF IsInjective
  <2> QED
    BY <1>5, <1>6, <1>7, <2>1, <2>2
<1>8. OneToOne(MadeResult)
  <2> SUFFICES ASSUME NEW k1 \in Keys(items), NEW k2 \in Keys(items), MadeResult[k1] = MadeResult[k2]
               PROVE  k1 = k2
    BY MadeFacts DEF OneToOne
  <2>1. PICK i \in FirstPlaces(items) : items[i].key = k1
    BY <1>3, FirstExists
  <2>2. PICK j \in FirstPlaces(items) : items[j].key = k2
    BY <1>3, FirstExists
  <2>3. rowOf[i] = rowOf[j]
    BY <2>1, <2>2, MadeFacts DEF rowOf
  <2> QED
    BY <1>3, <1>7, <2>1, <2>2, <2>3
<1> QED
  BY <1>3, <1>7, <1>8 DEF rowOf

(* What the list's effect has done when it turns to the insertions.        *)
LEMMA ListMade ==
  ASSUME NEW s, NEW q, Reconcile(s, q), items \in Lists, NamesLeft(DOMAIN row),
         DOMAIN row = Range(store), NEW T, NEW g \in Seq(T), Rows(g, store, row),
         kids = Both(OrderOf(g, store))
  PROVE  /\ Rows(items, MadeResult, row') /\ IsInjective(MadeOrder)
         /\ \E l \in Seq(RowIds) : kids' = Both(l) /\ Range(l) \subseteq Range(MadeOrder)
<1>1. OneToOne(store) /\ DOMAIN store = Keys(g) /\ Range(store) \subseteq RowIds
  BY DEF Rows, NamesLeft
<1>2. /\ \A i, j \in FirstPlaces(items) : RowOf(items)[i] = RowOf(items)[j] => i = j
      /\ OneToOne(MadeResult)
  BY <1>1, MadeOneToOne
<1>3. /\ DOMAIN RowOf(items) = FirstPlaces(items) /\ Range(RowOf(items)) \subseteq RowIds
      /\ DOMAIN MadeResult = Keys(items) /\ Range(MadeResult) = Range(RowOf(items))
      /\ \A i \in FirstPlaces(items) : MadeResult[items[i].key] = RowOf(items)[i]
      /\ MadeOrder = OrderOf(items, MadeResult)
      /\ MadeOrder \in Seq(RowIds) /\ Range(MadeOrder) = Range(MadeResult)
  BY MadeFacts
<1>4. /\ row' = [r \in (DOMAIN row \ GoneRows) \cup Range(RowOf(items)) |->
                      IF r \notin Range(RowOf(items)) THEN row[r]
                      ELSE IF r \in Range(store) THEN KeptRow(r) ELSE NewRow(r)]
      /\ kids' = Removed(kids, SetToSeq(GoneRows))
  BY ReconcileIs
<1>5. ASSUME NEW i \in FirstPlaces(items)
      PROVE  /\ row'[MadeResult[items[i].key]].item = items[i]
             /\ row'[MadeResult[items[i].key]].index = i - 1
  <2> DEFINE r == RowOf(items)[i]
  <2>1. PlaceOf(r) = i
    BY <1>2, <1>3 DEF PlaceOf
  <2>2. r \in Range(RowOf(items))
    BY <1>3 DEF Range
  <2>3. row'[r] = IF r \in Range(store) THEN KeptRow(r) ELSE NewRow(r)
    BY <1>4, <2>2
  <2>4. MadeResult[items[i].key] = r
    BY <1>3
  <2> HIDE DEF r
  <2>5. /\ KeptRow(r).item = items[i] /\ KeptRow(r).index = i - 1
        /\ NewRow(r).item = items[i] /\ NewRow(r).index = i - 1
    BY <2>1 DEF KeptRow, NewRow
  <2> QED
    BY <2>3, <2>4, <2>5
<1>6. Rows(items, MadeResult, row')
  BY <1>2, <1>3, <1>5 DEF Rows
<1>7. items \in Seq(Range(items))
  BY ViewAssumption
<1>8. IsInjective(MadeOrder)
  <2>1. Range(MadeResult) \subseteq RowIds
    BY <1>3
  <2> QED
    BY <1>2, <1>3, <1>7, <2>1, OrderFacts
<1>9. /\ OrderOf(g, store) \in Seq(RowIds) /\ IsInjective(OrderOf(g, store))
      /\ Range(OrderOf(g, store)) = Range(store)
  BY <1>1, OrderFacts
<1>10. \E l \in Seq(RowIds) : kids' = Both(l) /\ Range(l) \subseteq Range(MadeOrder)
  <2> DEFINE o == OrderOf(g, store)
             c == SetToSeq(GoneRows)
  <2>1. GoneRows \subseteq RowIds /\ GoneRows \subseteq Range(store) /\ Range(store) \ GoneRows \subseteq Range(MadeResult)
    BY <1>1 DEF GoneRows
  <2>2. IsFiniteSet(GoneRows)
    BY <2>1, FS_Subset, ViewAssumption
  <2>3. c \in Seq(RowIds) /\ IsInjective(c) /\ ToSet(c) = GoneRows
    BY <2>1, <2>2, SetInOrder, SeqMonotonic
  <2>4. o \in Seq(RowIds) /\ Range(o) = Range(store) /\ kids = Both(o)
    BY <1>9
  <2> HIDE DEF o, c
  <2>5. /\ Removed(Both(o), c) = Both(Without(o, c))
        /\ Without(o, c) \in Seq(RowIds) /\ Range(Without(o, c)) = Range(o) \ ToSet(c)
    BY <2>1, <2>3, <2>4, RemovedRows
  <2>6. kids' = Both(Without(o, c))
    BY <1>4, <2>4, <2>5 DEF c
  <2>7. Range(Without(o, c)) \subseteq Range(MadeOrder)
    BY <1>3, <2>1, <2>3, <2>4, <2>5
  <2> QED
    BY <2>5, <2>6, <2>7
<1> QED
  BY <1>6, <1>8, <1>10

(* The insertions put the rows in order.                                   *)
LEMMA RowsPlaced ==
  ASSUME NEW l \in Seq(RowIds), NEW order \in Seq(RowIds), IsInjective(order),
         Range(l) \subseteq Range(order)
  PROVE  Inserted(Both(l), order) = Both(order)
<1>1. Inserted(Both(l), order) = Both(Without(l, order) \o order)
  BY InsertedRows
<1>2. Without(l, order) \in Seq(RowIds) /\ Range(Without(l, order)) = Range(l) \ ToSet(order)
  BY WithoutStays
<1>3. Without(l, order) = <<>>
  BY <1>2, RangeIsToSet, NoneLeft
<1>4. <<>> \o order = order
  BY ConcatEmptySeq
<1> QED
  BY <1>1, <1>3, <1>4
-----------------------------------------------------------------------------
(* The parts of the type invariant                                         *)

BaseOK == /\ prog \in Programs /\ phase \in {"new", "live", "unmounted"}
          /\ items \in Lists /\ shown \in Branches /\ writes \in 0..MaxWrites
FlagsOK == {async, scheduled, flushing, panicked} \subseteq BOOLEAN
QueuesOK == pending \in Seq(EffectIds) /\ post \in Seq(Tolds)
LiveOK == alive \subseteq {"branch", "watch", "list"} /\ dirty \subseteq alive \cup DOMAIN row
FramesOK(s) == \A i \in DOMAIN s : FrameOK(s[i])
BranchOK == choice \in Branches \cup {Unset} /\ mounted \in (Branches \X {0, 1}) \cup {None}
RowOK(rw) == /\ rw = [item |-> rw.item, index |-> rw.index, text |-> rw.text]
             /\ rw.item \in ItemsOf /\ rw.index \in Indices
RowsOK == /\ DOMAIN row \subseteq RowIds /\ Range(store) \subseteq RowIds
          /\ \A r \in DOMAIN row : RowOK(row[r])
HeardOK == {prev, heard} \subseteq Lists \cup {None}

TypeI == /\ BaseOK /\ FlagsOK /\ QueuesOK /\ LiveOK /\ FramesOK(stack)
         /\ BranchOK /\ RowsOK /\ HeardOK

LEMMA TypeOfParts == TypeI => TypeOK
  BY DEF TypeI, TypeOK, BaseOK, FlagsOK, QueuesOK, LiveOK, FramesOK, BranchOK, RowsOK, RowOK, HeardOK

(* A sync watcher that a write has marked runs next; the life of the view; *)
(* the element has the branch that is mounted.                             *)
SyncIn(s, live) ==
  \A i \in DOMAIN s : s[i].op = "notify" /\ s[i].sync => i = Len(s) /\ "watch" \in live

LiveIn(ph, live) == /\ ph = "new" => live = {"branch"}
                    /\ ph # "unmounted" <=> "branch" \in live

Building(s) == Calls(s, "branch") # {}

TopIn(building, live, m, c, t) ==
  "branch" \in live =>
    /\ t = IF building \/ m = None THEN Empty ELSE Holding(<<m>>)
    /\ m = None <=> c \in {None, Unset}

MountedIn(m) == m = None \/ m \in {1, 2} \X {0, 1}

TInv ==
  ~panicked => /\ SyncIn(stack, alive) /\ LiveIn(phase, alive) /\ MountedIn(mounted)
               /\ TopIn(Building(stack), alive, mounted, choice, top)
-----------------------------------------------------------------------------
(* Types of frames                                                         *)

LEMMA FrameKinds ==
  /\ FrameOK(HandlerFrame) /\ FrameOK(FlushFrame)
  /\ \A cbs \in Seq(Tolds) : FrameOK([FlushFrame EXCEPT !.cbs = cbs])
  /\ \A sync \in BOOLEAN : FrameOK(NotifyFrame(sync))
  /\ \A step \in {"watch", "list", "insert"} : FrameOK(BranchFrame(step))
  /\ \A order, result : order \in Seq(RowIds) /\ Range(result) = Range(order)
                          => FrameOK(ListFrame(order, result))
  /\ \A told \in Tolds, from \in {"watch", "flush"} : FrameOK(CallbackFrame(told, from))
<1>1. <<>> \in Seq(Tolds)
  OBVIOUS
<1>2. FrameOK(HandlerFrame)
  BY DEF FrameOK, HandlerFrame
<1>3. FrameOK(FlushFrame)
  BY <1>1 DEF FrameOK, FlushFrame
<1>4. \A cbs \in Seq(Tolds) : FrameOK([FlushFrame EXCEPT !.cbs = cbs])
  BY DEF FrameOK, FlushFrame
<1>5. \A sync \in BOOLEAN : FrameOK(NotifyFrame(sync))
  BY DEF FrameOK, NotifyFrame
<1>6. \A step \in {"watch", "list", "insert"} : FrameOK(BranchFrame(step))
  BY DEF FrameOK, BranchFrame
<1>7. ASSUME NEW order \in Seq(RowIds), NEW result, Range(result) = Range(order)
      PROVE  FrameOK(ListFrame(order, result))
  <2> DEFINE f == ListFrame(order, result)
  <2>1. f.op = "list" /\ f.order = order /\ f.result = result
    BY DEF ListFrame
  <2> HIDE DEF f
  <2> QED
    BY <1>7, <2>1 DEF FrameOK, f
<1>8. \A told \in Tolds, from \in {"watch", "flush"} : FrameOK(CallbackFrame(told, from))
  BY DEF FrameOK, CallbackFrame
<1> QED
  BY <1>2, <1>3, <1>4, <1>5, <1>6, <1>7, <1>8

LEMMA FrameParts ==
  ASSUME NEW f, FrameOK(f)
  PROVE  /\ f.op = "flush" => f.cbs \in Seq(Tolds)
         /\ f.op = "list" => f.order \in Seq(RowIds) /\ Range(f.result) = Range(f.order)
         /\ f.op = "callback" => f.told \in Tolds /\ f.from \in {"watch", "flush"}
         /\ f.op = "branch" => f.step \in {"watch", "list", "insert"}
<1>1. f.op = "flush" => f.cbs \in Seq(Tolds)
  BY DEF FrameOK
<1>2. f.op = "list" => f.order \in Seq(RowIds) /\ Range(f.result) = Range(f.order)
  BY DEF FrameOK
<1>3. f.op = "callback" => f.told \in Tolds /\ f.from \in {"watch", "flush"}
  BY DEF FrameOK
<1>4. f.op = "branch" => f.step \in {"watch", "list", "insert"}
  BY DEF FrameOK
<1> QED
  BY <1>1, <1>2, <1>3, <1>4

LEMMA OkPush ==
  ASSUME NEW s, IsStack(s), FramesOK(s), NEW f, FrameOK(f)
  PROVE  IsStack(Append(s, f)) /\ FramesOK(Append(s, f))
<1> DEFINE t == Append(s, f)
           k == Len(s) + 1
<1>1. /\ IsStack(t) /\ DOMAIN t = DOMAIN s \cup {k} /\ t[k] = f /\ \A i \in DOMAIN s : t[i] = s[i]
  BY PushFrame
<1> HIDE DEF t, k
<1>2. \A i \in DOMAIN t : FrameOK(t[i])
  BY <1>1 DEF FramesOK
<1> QED
  BY <1>1, <1>2 DEF FramesOK, t

LEMMA OkPop ==
  ASSUME NEW s, IsStack(s), FramesOK(s), s # <<>>
  PROVE  IsStack(Front(s)) /\ FramesOK(Front(s)) /\ FrameOK(Last(s))
<1> DEFINE t == Front(s)
           k == Len(s)
<1>1. /\ IsStack(t) /\ DOMAIN s = DOMAIN t \cup {k} /\ Last(s) = s[k]
      /\ \A i \in DOMAIN t : t[i] = s[i]
  BY PopFrame
<1> HIDE DEF t, k
<1>2. \A i \in DOMAIN t : FrameOK(t[i])
  BY <1>1 DEF FramesOK
<1>3. FrameOK(Last(s))
  BY <1>1 DEF FramesOK
<1> QED
  BY <1>1, <1>2, <1>3 DEF FramesOK, t

LEMMA OkFlush ==
  ASSUME NEW s, IsStack(s), FramesOK(s), FlagsOK, ScheduleOrFlush(s) \/ MaybeFlush(s)
  PROVE  FramesOK(stack') /\ {scheduled', flushing'} \subseteq BOOLEAN
<1>1. FramesOK(Append(s, FlushFrame))
  BY FrameKinds, OkPush
<1> QED
  BY <1>1 DEF ScheduleOrFlush, MaybeFlush, FlagsOK

LEMMA ToldType ==
  ASSUME items \in Lists, prev \in Lists \cup {None}
  PROVE  Told(items, prev) \in Tolds
  BY DEF Told, Tolds

LEMMA WatchTypes ==
  ASSUME TypeI, NEW s, IsStack(s), FramesOK(s), RunWatch(s)
  PROVE  /\ FramesOK(stack') /\ {scheduled', flushing'} \subseteq BOOLEAN
         /\ post' \in Seq(Tolds) /\ dirty' \subseteq dirty \cup {"watch"}
         /\ {prev', heard'} \subseteq Lists \cup {None}
<1> DEFINE told == Told(items, prev)
           now  == Fires /\ prog.flush # "post"
<1>1. items \in Lists /\ {prev, heard} \subseteq Lists \cup {None} /\ FlagsOK
      /\ {scheduled, flushing} \subseteq BOOLEAN /\ post \in Seq(Tolds)
  BY DEF TypeI, BaseOK, HeardOK, FlagsOK, QueuesOK
<1>2. told \in Tolds
  BY <1>1, ToldType
<1>3. /\ prev' = items
      /\ post' = Append(post, told) \/ post' = post
      /\ dirty' = dirty \cup {"watch"} \/ dirty' = dirty \ {"watch"}
      /\ heard' = items \/ heard' = heard
      /\ \/ stack' = Append(s, CallbackFrame(told, "watch")) /\ UNCHANGED <<scheduled, flushing>>
         \/ MaybeFlush(s)
         \/ stack' = s /\ UNCHANGED <<scheduled, flushing>>
  BY DEF RunWatch
<1> HIDE DEF told
<1>4. FramesOK(Append(s, CallbackFrame(told, "watch")))
  BY <1>2, FrameKinds, OkPush
<1>5. FramesOK(stack') /\ {scheduled', flushing'} \subseteq BOOLEAN
  BY <1>1, <1>3, <1>4, OkFlush
<1>6. post' \in Seq(Tolds)
  BY <1>1, <1>2, <1>3
<1> QED
  BY <1>1, <1>3, <1>5, <1>6
-----------------------------------------------------------------------------
(* Types of rows                                                           *)

LEMMA IndexType ==
  ASSUME NEW g \in Lists, NEW i \in DOMAIN g
  PROVE  i - 1 \in Indices /\ g[i] \in ItemsOf
<1> DEFINE L == {Len(l) : l \in Lists}
           U == {x \in Nat : \A y \in L : y <= x}
           c == Cardinality(RowIds)
<1>1. c \in Nat
  BY FS_CardinalityType, ViewAssumption
<1>2. \A l \in Lists : Len(l) \in Nat /\ DOMAIN l = 1..Len(l) /\ 2 * Len(l) <= c
  <2> TAKE l \in Lists
  <2>1. l \in Seq(Range(l)) /\ 2 * Len(l) <= c
    BY ViewAssumption
  <2> QED
    BY <2>1, LenProperties
<1>3. c \in U
  <2>1. \A l \in Lists : Len(l) <= c
    <3> HIDE DEF c
    <3> QED
      BY <1>1, <1>2
  <2> QED
    BY <1>1, <2>1
<1>4. PICK u \in U : \A x \in U : u <= x
  <2>1. U \in SUBSET Nat /\ U # {}
    BY <1>3
  <2> HIDE DEF U
  <2> QED
    BY <2>1, LeastNumber
<1>5. u \in L
  <2> SUFFICES ASSUME u \notin L PROVE FALSE
    OBVIOUS
  <2>1. \A y \in L : y \in Nat /\ y < u
    <3> TAKE y \in L
    <3>1. y \in Nat
      BY <1>2
    <3>2. y <= u /\ y # u /\ u \in Nat
      BY <1>4
    <3> QED
      BY <3>1, <3>2
  <2>2. Len(g) \in L
    OBVIOUS
  <2>3. u - 1 \in Nat /\ \A y \in L : y <= u - 1
    <3>1. u \in Nat
      BY <1>4
    <3> HIDE DEF L
    <3> QED
      BY <2>1, <2>2, <3>1
  <2>4. u - 1 \in U
    BY <2>3
  <2>5. u <= u - 1
    BY <1>4, <2>4
  <2> QED
    BY <1>4, <2>5
<1>6. \A y \in L : y \in Nat /\ y <= u
  BY <1>2, <1>4
<1> HIDE DEF L, U, c
<1>7. Max(L) \in L /\ \A y \in L : Max(L) >= y
  <2>1. \E x \in L : \A y \in L : x >= y
    BY <1>5, <1>6
  <2> QED
    BY <2>1 DEF Max
<1>8. Len(g) \in L
  BY DEF L
<1>9. Indices = 0..Max(L)
  BY DEF Indices, L
<1>10. i - 1 \in 0..Max(L)
  BY <1>2, <1>6, <1>7, <1>8
<1>11. g[i] \in ItemsOf
  BY DEF ItemsOf, Range
<1> QED
  BY <1>9, <1>10, <1>11

LEMMA ReconcileTypes ==
  ASSUME TypeI, NEW s, IsStack(s), FramesOK(s), NEW q \in Seq(EffectIds), Reconcile(s, q),
         NamesLeft(DOMAIN row), DOMAIN row = Range(store)
  PROVE  /\ FramesOK(stack') /\ {scheduled', flushing'} \subseteq BOOLEAN
         /\ pending' \in Seq(EffectIds)
         /\ dirty' \subseteq (dirty \cap {"branch", "watch", "list"}) \cup {"list"} \cup DOMAIN row'
         /\ RowsOK'
<1>1. items \in Lists /\ FlagsOK /\ RowsOK /\ LiveOK
  BY DEF TypeI, BaseOK
<1>2. /\ row' = [r \in (DOMAIN row \ GoneRows) \cup Range(RowOf(items)) |->
                      IF r \notin Range(RowOf(items)) THEN row[r]
                      ELSE IF r \in Range(store) THEN KeptRow(r) ELSE NewRow(r)]
      /\ dirty' = (dirty \ GoneRows) \cup StaleRows \cup {"list"}
      /\ ScheduleOrFlush(Append(s, ListFrame(MadeOrder, MadeResult)))
      /\ store' = store
  BY ReconcileIs
<1>3. /\ DOMAIN RowOf(items) = FirstPlaces(items) /\ Range(RowOf(items)) \subseteq RowIds
      /\ MadeOrder \in Seq(RowIds) /\ Range(MadeOrder) = Range(MadeResult)
  BY <1>1, MadeFacts
<1>4. FrameOK(ListFrame(MadeOrder, MadeResult))
  BY <1>3, FrameKinds
<1>5. FramesOK(stack') /\ {scheduled', flushing'} \subseteq BOOLEAN
  <2> DEFINE t == Append(s, ListFrame(MadeOrder, MadeResult))
  <2>1. IsStack(t) /\ FramesOK(t)
    BY <1>4, OkPush
  <2> HIDE DEF t
  <2>2. ScheduleOrFlush(t)
    BY <1>2 DEF t
  <2> QED
    BY <1>1, <2>1, <2>2, OkFlush
<1>6. pending' \in Seq(EffectIds)
  BY <1>1, ReconcileRows
<1>7. DOMAIN row' = (DOMAIN row \ GoneRows) \cup Range(RowOf(items))
  BY <1>2
<1>8. dirty' \subseteq (dirty \cap {"branch", "watch", "list"}) \cup {"list"} \cup DOMAIN row'
  BY <1>1, <1>2, <1>7 DEF LiveOK, StaleRows
<1>9. ASSUME NEW r \in DOMAIN row' PROVE RowOK(row'[r])
  <2>1. CASE r \notin Range(RowOf(items))
    <3>1. row'[r] = row[r] /\ r \in DOMAIN row
      BY <1>2, <1>7, <1>9, <2>1
    <3> QED
      BY <1>1, <3>1 DEF RowsOK
  <2>2. CASE r \in Range(RowOf(items))
    <3>1. row'[r] = NewRow(r) \/ row'[r] = KeptRow(r)
      BY <1>2, <1>7, <1>9, <2>2
    <3>2. PlaceOf(r) \in DOMAIN items
      <4>1. PlaceOf(r) \in DOMAIN RowOf(items)
        BY <2>2 DEF PlaceOf, Range
      <4> QED
        BY <1>3, <4>1 DEF FirstPlaces
    <3>3. items[PlaceOf(r)] \in ItemsOf /\ PlaceOf(r) - 1 \in Indices
      BY <1>1, <3>2, IndexType
    <3>4. RowOK(NewRow(r)) /\ RowOK(KeptRow(r))
      BY <3>3 DEF RowOK, NewRow, KeptRow
    <3> QED
      BY <3>1, <3>4
  <2> QED
    BY <2>1, <2>2
<1>10. RowsOK'
  BY <1>1, <1>2, <1>3, <1>7, <1>9 DEF RowsOK
<1> QED
  BY <1>5, <1>6, <1>8, <1>10
-----------------------------------------------------------------------------
(* Calls that come and go, sync notifications apart                        *)

Good(s) == IsStack(s) /\ FramesOK(s) /\ SyncIn(s, {})

IsSyncFrame(f) == f.op = "notify" /\ f.sync

LEMMA GoodPush ==
  ASSUME NEW s, Good(s), NEW f, FrameOK(f), ~IsSyncFrame(f)
  PROVE  /\ Good(Append(s, f))
         /\ f.op # "branch" => Calls(Append(s, f), "branch") = Calls(s, "branch")
         /\ f.op = "branch" => Building(Append(s, f))
<1> DEFINE t == Append(s, f)
           k == Len(s) + 1
<1>1. /\ IsStack(t) /\ DOMAIN t = DOMAIN s \cup {k} /\ t[k] = f /\ \A i \in DOMAIN s : t[i] = s[i]
      /\ \A op : Calls(t, op) = IF f.op = op THEN Calls(s, op) \cup {k} ELSE Calls(s, op)
  BY PushFrame DEF Good
<1>2. FramesOK(t)
  BY OkPush DEF Good
<1> HIDE DEF t, k
<1>3. SyncIn(t, {})
  BY <1>1 DEF Good, SyncIn, IsSyncFrame
<1>4. f.op # "branch" => Calls(t, "branch") = Calls(s, "branch")
  BY <1>1
<1>5. f.op = "branch" => Building(t)
  BY <1>1 DEF Building
<1> QED
  BY <1>1, <1>2, <1>3, <1>4, <1>5 DEF Good, t

LEMMA GoodPop ==
  ASSUME NEW s, IsStack(s), FramesOK(s), NEW live, SyncIn(s, live), s # <<>>
  PROVE  /\ Good(Front(s)) /\ FrameOK(Last(s))
         /\ Last(s).op # "branch" => Calls(Front(s), "branch") = Calls(s, "branch")
         /\ \A op : Calls(Front(s), op) = Calls(s, op) \ {Len(s)}
         /\ ~IsSyncFrame(Last(s)) => Good(s)
<1> DEFINE t == Front(s)
           k == Len(s)
<1>1. /\ IsStack(t) /\ DOMAIN s = DOMAIN t \cup {k} /\ k \notin DOMAIN t
      /\ Last(s) = s[k] /\ \A i \in DOMAIN t : t[i] = s[i]
      /\ \A op : Calls(t, op) = Calls(s, op) \ {k}
  BY PopFrame
<1>2. FramesOK(t) /\ FrameOK(Last(s))
  BY OkPop
<1> HIDE DEF t, k
<1>3. SyncIn(t, {})
  BY <1>1 DEF SyncIn, k
<1>4. Last(s).op # "branch" => Calls(t, "branch") = Calls(s, "branch")
  BY <1>1 DEF Calls
<1>5. ~IsSyncFrame(Last(s)) => SyncIn(s, {})
  BY <1>1 DEF SyncIn, IsSyncFrame, k
<1> QED
  BY <1>1, <1>2, <1>3, <1>4, <1>5 DEF Good, t, k

LEMMA GoodFlush ==
  ASSUME NEW s, Good(s), ScheduleOrFlush(s) \/ MaybeFlush(s)
  PROVE  Good(stack') /\ Calls(stack', "branch") = Calls(s, "branch")
<1>1. FrameOK(FlushFrame)
  BY FrameKinds
<1>2. ~IsSyncFrame(FlushFrame) /\ FlushFrame.op # "branch"
  BY DEF FlushFrame, IsSyncFrame
<1>3. Good(Append(s, FlushFrame)) /\ Calls(Append(s, FlushFrame), "branch") = Calls(s, "branch")
  BY <1>1, <1>2, GoodPush
<1> QED
  BY <1>3 DEF ScheduleOrFlush, MaybeFlush

LEMMA GoodWatch ==
  ASSUME NEW s, Good(s), RunWatch(s), items \in Lists, prev \in Lists \cup {None}
  PROVE  Good(stack') /\ Calls(stack', "branch") = Calls(s, "branch")
<1> DEFINE told == Told(items, prev)
           f == CallbackFrame(told, "watch")
<1>1. FrameOK(f)
  BY ToldType, FrameKinds
<1>2. ~IsSyncFrame(f) /\ f.op # "branch"
  BY DEF CallbackFrame, IsSyncFrame
<1>3. stack' = Append(s, f) \/ MaybeFlush(s) \/ stack' = s
  BY DEF RunWatch
<1> HIDE DEF f
<1>4. Good(Append(s, f)) /\ Calls(Append(s, f), "branch") = Calls(s, "branch")
  BY <1>1, <1>2, GoodPush
<1> QED
  BY <1>3, <1>4, GoodFlush

LEMMA GoodList ==
  ASSUME NEW s, Good(s), NEW q, Reconcile(s, q),
         items \in Lists, NamesLeft(DOMAIN row), DOMAIN row = Range(store)
  PROVE  Good(stack') /\ Calls(stack', "branch") = Calls(s, "branch")
<1> DEFINE f == ListFrame(MadeOrder, MadeResult)
<1>1. MadeOrder \in Seq(RowIds) /\ Range(MadeOrder) = Range(MadeResult)
  BY MadeFacts
<1>2. FrameOK(f)
  BY <1>1, FrameKinds
<1>3. ~IsSyncFrame(f) /\ f.op # "branch"
  BY DEF ListFrame, IsSyncFrame
<1>4. ScheduleOrFlush(Append(s, f))
  BY ReconcileIs
<1> HIDE DEF f
<1>5. Good(Append(s, f)) /\ Calls(Append(s, f), "branch") = Calls(s, "branch")
  BY <1>2, <1>3, GoodPush
<1> QED
  BY <1>4, <1>5, GoodFlush

LEMMA GoodIs ==
  ASSUME NEW s, Good(s)
  PROVE  FramesOK(s) /\ \A live : SyncIn(s, live)
  BY DEF Good, SyncIn
-----------------------------------------------------------------------------
(* Disposing and building branches                                         *)

LEMMA DisposeTypes ==
  ASSUME TypeI, NEW q \in Seq(EffectIds), NEW effects \in SUBSET {"branch"},
         DisposeBranch(q, effects), "branch" \in alive
  PROVE  /\ pending' \in Seq(EffectIds) /\ post' \in Seq(Tolds) /\ LiveOK' /\ RowsOK'
         /\ prev' = None /\ alive' = alive \ ({"watch", "list"} \cup effects)
<1> DEFINE gone == {"watch", "list"} \cup effects \cup RowsLeft
<1>1. /\ alive' = alive \ gone /\ pending' = Forget(q, gone) /\ post' = Orphan(post)
      /\ dirty' = (dirty \cup {"branch"}) \ gone
      /\ row' = [r \in DOMAIN row \ RowsLeft |-> row[r]] /\ store' = <<>> /\ prev' = None
  BY DEF DisposeBranch
<1>2. QueuesOK /\ LiveOK /\ RowsOK
  BY DEF TypeI
<1>3. pending' \in Seq(EffectIds)
  BY <1>1, Forgotten
<1>4. post' \in Seq(Tolds)
  <2>1. post \in Seq(Tolds) /\ Len(post) \in Nat /\ DOMAIN post = 1..Len(post)
    BY <1>2, LenProperties DEF QueuesOK
  <2>2. \A i \in DOMAIN post : post[i] \in Tolds
    BY <2>1
  <2>3. \A told \in Tolds : [told EXCEPT !.own = FALSE] \in Tolds
    BY DEF Tolds
  <2>4. Orphan(post) \in [1..Len(post) -> Tolds]
    BY <2>1, <2>2, <2>3 DEF Orphan
  <2> QED
    BY <1>1, <2>1, <2>4, SeqDef
<1>5. RowsLeft \subseteq RowIds
  BY <1>2 DEF RowsLeft, RowsOK
<1>6. alive \cap RowIds = {}
  BY <1>2, ViewAssumption DEF LiveOK, Effects
<1>7. alive' = alive \ ({"watch", "list"} \cup effects)
  BY <1>1, <1>5, <1>6
<1>8. DOMAIN row' = DOMAIN row \ RowsLeft
  BY <1>1
<1>9. LiveOK'
  BY <1>1, <1>2, <1>8 DEF LiveOK
<1>10. RowsOK'
  <2>1. Range(store') = {}
    BY <1>1 DEF Range
  <2> QED
    BY <1>1, <1>2, <1>8, <2>1 DEF RowsOK
<1> QED
  BY <1>1, <1>3, <1>4, <1>7, <1>9, <1>10

LEMMA BranchSet == Branches = {None, 1, 2} /\ \A builder \in Builders : BranchesOf(builder) \subseteq Branches
  BY DEF Branches, BranchesOf, Builders

LEMMA NewNodeType ==
  ASSUME "branch" \in alive, TopIn(FALSE, alive, mounted, choice, top), MountedIn(mounted),
         shown \in {1, 2}
  PROVE  NewNode \in {1, 2} \X {0, 1} /\ NewNode # None
<1> DEFINE z == <<shown, 0>>
           o == <<shown, 1>>
<1>1. z \in {1, 2} \X {0, 1} /\ o \in {1, 2} \X {0, 1} /\ z # o
  OBVIOUS
<1>2. z # Anchor /\ o # Anchor
  BY <1>1, BranchNode, NodeFacts
<1>3. top.mock = <<Anchor>> \/ top.mock = <<mounted, Anchor>>
  <2>1. top = Empty \/ top = Holding(<<mounted>>)
    BY DEF TopIn
  <2>2. Empty.mock = <<Anchor>>
    BY DEF Empty, Modes
  <2>3. Holding(<<mounted>>).mock = <<mounted, Anchor>>
    BY PairAppend DEF Holding, Modes
  <2> QED
    BY <2>1, <2>2, <2>3
<1>4. \A n : Contains(top.mock, n) => n = Anchor \/ n = mounted
  <2>1. CASE top.mock = <<Anchor>>
    BY <2>1 DEF Contains
  <2>2. CASE top.mock = <<mounted, Anchor>>
    BY <2>2 DEF Contains
  <2> QED
    BY <1>3, <2>1, <2>2
<1>5. ~Contains(top.mock, z) \/ ~Contains(top.mock, o)
  BY <1>1, <1>2, <1>4
<1>6. z \in {shown} \X {0, 1} /\ o \in {shown} \X {0, 1}
  OBVIOUS
<1> HIDE DEF z, o
<1>7. NewNode \in {shown} \X {0, 1}
  BY <1>5, <1>6 DEF NewNode
<1>8. NewNode \in {1, 2} \X {0, 1}
  BY <1>7
<1> QED
  BY <1>8, ViewAssumption
-----------------------------------------------------------------------------
(* Every step preserves the types                                          *)

LEMMA Known ==
  ASSUME IInv, TypeI, TInv, ~panicked
  PROVE  /\ IsStack(stack) /\ FramesOK(stack) /\ SyncIn(stack, alive) /\ FlagsOK
         /\ items \in Lists /\ prev \in Lists \cup {None} /\ pending \in Seq(EffectIds)
         /\ stack = <<>> \/ ~IsSyncFrame(Last(stack)) => Good(stack)
         /\ stack # <<>> => /\ Good(Front(stack)) /\ FrameOK(Last(stack)) /\ phase # "new"
                            /\ \A op : Calls(Front(stack), op) = Calls(stack, op) \ {Len(stack)}
                            /\ Last(stack).op # "branch"
                                 => Calls(Front(stack), "branch") = Calls(stack, "branch")
<1>1. /\ IsStack(stack) /\ FramesOK(stack) /\ SyncIn(stack, alive) /\ FlagsOK
      /\ items \in Lists /\ prev \in Lists \cup {None} /\ pending \in Seq(EffectIds)
      /\ stack # <<>> => phase # "new"
  BY Invariant DEF TypeI, TInv, BaseOK, HeardOK
<1>2. stack = <<>> => Good(stack)
  <2>1. DOMAIN <<>> = {}
    OBVIOUS
  <2> QED
    BY <1>1, <2>1 DEF Good, SyncIn
<1>3. CASE stack = <<>>
  BY <1>1, <1>2, <1>3
<1>4. CASE stack # <<>>
  <2>1. /\ Good(Front(stack)) /\ FrameOK(Last(stack))
        /\ Last(stack).op # "branch" => Calls(Front(stack), "branch") = Calls(stack, "branch")
        /\ \A op : Calls(Front(stack), op) = Calls(stack, op) \ {Len(stack)}
        /\ ~IsSyncFrame(Last(stack)) => Good(stack)
    BY ONLY <1>1, <1>4, GoodPop
  <2> QED
    BY <1>1, <1>4, <2>1
<1> QED
  BY <1>3, <1>4

LEMMA TStays ==
  ASSUME IInv, TInv, ~panicked, UNCHANGED <<phase, mounted, choice, top>>,
         alive' = alive \/ (stack # <<>> /\ ("branch" \in alive' <=> "branch" \in alive)),
         Good(stack'), Building(stack') <=> Building(stack)
  PROVE  TInv'
<1>1. SyncIn(stack', alive')
  BY GoodIs
<1>2. LiveIn(phase, alive')
  BY Invariant DEF TInv, LiveIn
<1>3. TopIn(Building(stack'), alive', mounted, choice, top)
  BY DEF TInv, TopIn
<1> QED
  BY <1>1, <1>2, <1>3 DEF TInv

LEMMA HostTypes ==
  ASSUME IInv, TypeI, TInv, Mount \/ Event \/ Batch \/ Microtask
  PROVE  TypeI' /\ TInv'
<1>1. /\ UNCHANGED <<prog, phase, items, shown, writes, queues, alive, dom, prev, heard, panicked>>
      /\ ~panicked /\ async' \in {async, TRUE} /\ scheduled' \in {scheduled, FALSE}
      /\ flushing' \in {flushing, TRUE}
  BY DEF Mount, Event, Batch, Microtask, AtRest, In
<1>2. \/ stack' = stack
      \/ \E f \in {HandlerFrame, FlushFrame} : stack' = Append(stack, f)
  <2>1. \A f : <<f>> = Append(<<>>, f)
    OBVIOUS
  <2> QED
    BY <2>1 DEF Mount, Event, Batch, Microtask, AtRest
<1>3. Good(stack)
  <2>1. stack = <<>> \/ ~IsSyncFrame(Last(stack))
    BY DEF Mount, Event, Batch, Microtask, AtRest, In, Top, IsSyncFrame
  <2> QED
    BY <1>1, <2>1, Known
<1>4. \A f \in {HandlerFrame, FlushFrame} : FrameOK(f) /\ ~IsSyncFrame(f) /\ f.op # "branch"
  BY FrameKinds DEF HandlerFrame, FlushFrame, IsSyncFrame
<1>5. Good(stack') /\ Calls(stack', "branch") = Calls(stack, "branch")
  BY <1>2, <1>3, <1>4, GoodPush
<1>6. TInv'
  BY <1>1, <1>5, TStays DEF Building, dom
<1>7. TypeI'
  <2>1. FramesOK(stack')
    BY <1>5, GoodIs
  <2>2. FlagsOK'
    BY <1>1 DEF TypeI, FlagsOK
  <2> QED
    BY <1>1, <2>1, <2>2 DEF TypeI, BaseOK, QueuesOK, LiveOK, BranchOK, RowsOK, HeardOK, queues, dom
<1> QED
  BY <1>6, <1>7

LEMMA ReturnsTypes ==
  ASSUME IInv, TypeI, TInv, HandlerDone \/ NotifyDone \/ CallbackDone \/ FlushDone
  PROVE  TypeI' /\ TInv'
<1>1. /\ UNCHANGED <<prog, phase, items, shown, writes, async, pending, post, alive, dom, prev, heard,
                     panicked>>
      /\ ~panicked /\ stack # <<>> /\ dirty' \subseteq dirty /\ Last(stack).op # "branch"
  BY DEF HandlerDone, NotifyDone, CallbackDone, FlushDone, queues, In, Top
<1>2. \/ stack' = Front(stack) /\ scheduled' = scheduled /\ flushing' \in {flushing, FALSE}
      \/ ScheduleOrFlush(Front(stack)) \/ MaybeFlush(Front(stack))
  BY DEF HandlerDone, NotifyDone, CallbackDone, FlushDone, Rest
<1>3. /\ Good(Front(stack)) /\ FlagsOK
      /\ Calls(Front(stack), "branch") = Calls(stack, "branch")
  BY <1>1, Known
<1>4. Good(stack') /\ Calls(stack', "branch") = Calls(stack, "branch")
  BY <1>2, <1>3, GoodFlush
<1>5. {scheduled', flushing'} \subseteq BOOLEAN
  <2>1. IsStack(Front(stack)) /\ FramesOK(Front(stack))
    BY <1>3 DEF Good
  <2> QED
    BY <1>2, <1>3, <2>1, OkFlush DEF FlagsOK
<1>6. TInv'
  BY <1>1, <1>4, TStays DEF Building, dom
<1>7. TypeI'
  <2>1. FramesOK(stack')
    BY <1>4, GoodIs
  <2>2. FlagsOK'
    BY <1>1, <1>5 DEF TypeI, FlagsOK
  <2>3. LiveOK'
    BY <1>1 DEF TypeI, LiveOK, dom
  <2> QED
    BY <1>1, <2>1, <2>2, <2>3 DEF TypeI, BaseOK, QueuesOK, BranchOK, RowsOK, HeardOK, dom
<1> QED
  BY <1>6, <1>7

LEMMA PostTypes ==
  ASSUME IInv, TypeI, TInv, FlushTake \/ FlushCallback
  PROVE  TypeI' /\ TInv'
<1>1. /\ UNCHANGED <<prog, phase, items, shown, writes, async, scheduled, flushing, pending, dirty,
                     alive, dom, prev>>
      /\ ~panicked /\ stack # <<>> /\ Last(stack).op = "flush"
  BY DEF FlushTake, FlushCallback, queues, In, Top
<1>2. /\ Good(Front(stack)) /\ FlagsOK /\ FrameOK(Last(stack))
      /\ Calls(Front(stack), "branch") = Calls(stack, "branch")
  BY <1>1, Known
<1>3. Last(stack).cbs \in Seq(Tolds) /\ post \in Seq(Tolds) /\ {prev, heard} \subseteq Lists \cup {None}
  BY <1>1, <1>2, FrameParts DEF TypeI, QueuesOK, HeardOK
<1>4. \A cbs \in Seq(Tolds) :
        LET f == [FlushFrame EXCEPT !.cbs = cbs]
        IN FrameOK(f) /\ ~IsSyncFrame(f) /\ f.op # "branch"
  BY FrameKinds DEF FlushFrame, IsSyncFrame
<1>5. /\ Good(stack') /\ Calls(stack', "branch") = Calls(stack, "branch")
      /\ post' \in Seq(Tolds) /\ heard' \in Lists \cup {None} /\ panicked' \in BOOLEAN
  <2>1. CASE FlushTake
    <3> DEFINE f == [FlushFrame EXCEPT !.cbs = post]
    <3>1. /\ stack' = Append(Front(stack), f) /\ post' = <<>> /\ heard' = heard
          /\ panicked' = panicked
      BY <2>1 DEF FlushTake, Resume, Rest
    <3>2. FrameOK(f) /\ ~IsSyncFrame(f) /\ f.op # "branch"
      BY <1>3, <1>4
    <3> HIDE DEF f
    <3>3. Good(stack') /\ Calls(stack', "branch") = Calls(stack, "branch")
      BY <1>2, <3>1, <3>2, GoodPush
    <3> QED
      BY <1>1, <1>2, <1>3, <3>1, <3>3 DEF FlagsOK
  <2>2. CASE FlushCallback
    <3> DEFINE told == Head(Last(stack).cbs)
               f == [FlushFrame EXCEPT !.cbs = Tail(Last(stack).cbs)]
               g == CallbackFrame(told, "flush")
    <3>1. /\ stack' = Append(Append(Front(stack), f), g) /\ post' = post
          /\ heard' = IF told.own THEN told.new ELSE heard
          /\ panicked' = (told.own /\ Calling("callback"))
          /\ Last(stack).cbs # <<>>
      BY <2>2 DEF FlushCallback, Resume, Rest, Top, queues
    <3>2. told \in Tolds /\ Tail(Last(stack).cbs) \in Seq(Tolds)
      BY <1>3, <3>1
    <3>3. FrameOK(f) /\ ~IsSyncFrame(f) /\ f.op # "branch"
      BY <1>4, <3>2
    <3>4. FrameOK(g) /\ ~IsSyncFrame(g) /\ g.op # "branch"
      BY <3>2, FrameKinds DEF CallbackFrame, IsSyncFrame
    <3>5. told.new \in Lists /\ told.own \in BOOLEAN
      BY <3>2 DEF Tolds
    <3> HIDE DEF f, g, told
    <3> DEFINE t == Append(Front(stack), f)
    <3>6. Good(t) /\ Calls(t, "branch") = Calls(stack, "branch")
      BY <1>2, <3>3, GoodPush
    <3> HIDE DEF t
    <3>7. Good(Append(t, g)) /\ Calls(Append(t, g), "branch") = Calls(stack, "branch")
      BY <3>4, <3>6, GoodPush
    <3>8. heard' \in Lists \cup {None}
      BY <1>3, <3>1, <3>5
    <3>9. panicked' \in BOOLEAN
      BY <3>1, <3>5
    <3> QED
      BY <1>3, <3>1, <3>7, <3>8, <3>9 DEF t
  <2> QED
    BY <2>1, <2>2
<1>6. TInv'
  BY <1>1, <1>5, TStays DEF Building, dom
<1>7. TypeI'
  <2>1. FramesOK(stack')
    BY <1>5, GoodIs
  <2>2. FlagsOK'
    BY <1>1, <1>5 DEF TypeI, FlagsOK
  <2>3. QueuesOK' /\ HeardOK'
    BY <1>1, <1>3, <1>5 DEF TypeI, QueuesOK, HeardOK
  <2> QED
    BY <1>1, <2>1, <2>2, <2>3 DEF TypeI, BaseOK, LiveOK, BranchOK, RowsOK, dom
<1> QED
  BY <1>6, <1>7

(* A write marks effects that exist; what it marks as sync runs next.      *)
LEMMA WritesTypes ==
  ASSUME IInv, TypeI, TInv, WriteItems \/ WriteShown
  PROVE  TypeI' /\ TInv'
<1>1. /\ UNCHANGED <<prog, phase, async, scheduled, flushing, post, alive, dom, prev, heard, panicked>>
      /\ ~panicked /\ stack # <<>> /\ writes > 0 /\ writes' = writes - 1
      /\ Last(stack).op # "notify"
  BY DEF WriteItems, WriteShown, Write, Show, WritesItems, WritesShown, In, Top
<1>2. /\ Good(stack) /\ IsStack(stack) /\ pending \in Seq(EffectIds) /\ FramesOK(stack)
  BY <1>1, Known DEF IsSyncFrame
<1>3. BaseOK /\ QueuesOK /\ LiveOK
  BY DEF TypeI
<1>4. PICK b \in BOOLEAN : stack' = Append(stack, NotifyFrame(b)) /\ (b => "watch" \in alive)
  BY DEF WriteItems, WriteShown, Write, Show
<1> DEFINE f == NotifyFrame(b)
<1>5. FrameOK(f) /\ f.op = "notify" /\ f.sync = b
  BY FrameKinds DEF NotifyFrame
<1> HIDE DEF f
<1>6. /\ FramesOK(stack') /\ IsStack(stack')
      /\ DOMAIN stack' = DOMAIN stack \cup {Len(stack) + 1} /\ stack'[Len(stack) + 1] = f
      /\ \A i \in DOMAIN stack : stack'[i] = stack[i]
      /\ Calls(stack', "branch") = Calls(stack, "branch")
      /\ Len(stack') = Len(stack) + 1
  <2> DEFINE t == Append(stack, f)
             k == Len(stack) + 1
  <2>1. FramesOK(t)
    BY <1>2, <1>5, OkPush
  <2>2. /\ IsStack(t) /\ DOMAIN t = DOMAIN stack \cup {k} /\ t[k] = f
        /\ \A i \in DOMAIN stack : t[i] = stack[i]
        /\ \A op : Calls(t, op) = IF f.op = op THEN Calls(stack, op) \cup {k} ELSE Calls(stack, op)
    BY ONLY <1>2, PushFrame
  <2>3. Len(t) = k
    BY <1>2, AppendLength
  <2> HIDE DEF t, k
  <2>4. stack' = t
    BY <1>4 DEF t, f
  <2> QED
    BY <1>5, <2>1, <2>2, <2>3, <2>4 DEF k
<1>7. SyncIn(stack', alive)
  BY <1>2, <1>4, <1>5, <1>6 DEF Good, SyncIn
<1>8. TInv'
  BY <1>1, <1>6, <1>7 DEF TInv, LiveIn, TopIn, Building, dom
<1>9. \A e \in {"watch", "list", "branch"} : Queued(e) \in Seq(EffectIds)
  BY QueuedOne
<1>10. /\ BaseOK' /\ pending' \in Seq(EffectIds)
       /\ dirty' \subseteq dirty \cup alive
  <2>0. writes' \in 0..MaxWrites
    <3>1. writes \in 0..MaxWrites /\ MaxWrites \in Nat
      BY <1>3, ViewAssumption DEF BaseOK
    <3> QED
      BY <1>1, <3>1
  <2>1. CASE WriteItems
    <3>1. /\ items' \in Lists /\ shown' = shown
          /\ pending' = pending \o Queued("watch") \o Queued("list") /\ dirty' \subseteq dirty \cup alive
      BY <2>1 DEF WriteItems, Write
    <3>2. pending \o Queued("watch") \in Seq(EffectIds)
      BY <1>2, <1>9, Concat
    <3>3. pending' \in Seq(EffectIds)
      BY <1>9, <3>1, <3>2, Concat
    <3> QED
      BY <1>1, <1>3, <2>0, <3>1, <3>3 DEF BaseOK
  <2>2. CASE WriteShown
    <3>1. PICK value \in BranchesOf(prog.builder) :
            /\ items' = items /\ shown' = value
            /\ pending' = pending \o Queued("branch") /\ dirty' \subseteq dirty \cup alive
      BY <2>2 DEF WriteShown, Show
    <3>2. pending' \in Seq(EffectIds)
      BY <1>2, <1>9, <3>1, Concat
    <3>3. value \in Branches
      BY <1>3, BranchSet, ViewAssumption DEF BaseOK
    <3> QED
      BY <1>1, <1>3, <2>0, <3>1, <3>2, <3>3 DEF BaseOK
  <2> QED
    BY <2>1, <2>2
<1>11. LiveOK' /\ QueuesOK'
  BY <1>1, <1>3, <1>10 DEF LiveOK, QueuesOK, dom
<1>12. TypeI'
  BY <1>1, <1>6, <1>10, <1>11 DEF TypeI, FlagsOK, BranchOK, RowsOK, HeardOK, dom
<1> QED
  BY <1>8, <1>12

(* The watcher's effect.                                                   *)
LEMMA WatchStepTypes ==
  ASSUME IInv, TypeI, TInv, RunSync \/ MakeWatch \/ FlushWatch
  PROVE  TypeI' /\ TInv'
<1>1. /\ UNCHANGED <<prog, phase, items, shown, writes, async, dom, panicked>>
      /\ ~panicked /\ stack # <<>>
      /\ alive' = alive \/ ("branch" \in alive' <=> "branch" \in alive)
      /\ alive \cup {"watch"} = alive' /\ pending' \in Seq(EffectIds)
  <2>1. CASE RunSync
    <3>1. /\ stack # <<>> /\ Last(stack).op = "notify" /\ Last(stack).sync
      BY <2>1 DEF RunSync, In, Top
    <3>2. ~panicked
      BY <2>1 DEF RunSync, In
    <3>3. SyncIn(stack, alive) /\ IsStack(stack) /\ pending \in Seq(EffectIds)
      BY <3>2, Known
    <3>4. "watch" \in alive
      BY <3>1, <3>3, OnTop DEF SyncIn
    <3> QED
      BY <2>1, <3>1, <3>2, <3>3, <3>4 DEF RunSync
  <2>2. CASE MakeWatch
    <3>1. ~panicked
      BY <2>2 DEF MakeWatch, Step, In
    <3> QED
      BY <2>2, <3>1, Known DEF MakeWatch, Step, In
  <2>3. CASE FlushWatch
    <3>1. /\ ~panicked /\ stack # <<>> /\ pending # <<>> /\ pending' = Tail(pending)
          /\ "watch" \in dirty /\ alive' = alive
      BY <2>3 DEF FlushWatch, Flushing, In, Due
    <3>2. pending' \in Seq(EffectIds)
      BY <3>1, Known, HeadTailProperties
    <3>3. "watch" \in alive
      <4>1. dirty \subseteq alive \cup DOMAIN row /\ DOMAIN row \subseteq RowIds
        BY DEF TypeI, LiveOK, RowsOK
      <4> QED
        BY <3>1, <4>1, ViewAssumption DEF Effects
    <3> QED
      BY <2>3, <3>1, <3>2, <3>3 DEF FlushWatch
  <2> QED
    BY <2>1, <2>2, <2>3
<1>2. PICK s : Good(s) /\ RunWatch(s) /\ (Building(s) <=> Building(stack))
  <2>1. CASE RunSync
    <3> DEFINE f == NotifyFrame(FALSE)
    <3>1. /\ Last(stack).op = "notify" /\ RunWatch(Append(Front(stack), f))
      BY <2>1 DEF RunSync, In, Top, Resume, Rest
    <3>2. FrameOK(f) /\ ~IsSyncFrame(f) /\ f.op # "branch"
      BY FrameKinds DEF NotifyFrame, IsSyncFrame
    <3> HIDE DEF f
    <3>3. Good(Front(stack)) /\ Calls(Front(stack), "branch") = Calls(stack, "branch")
      BY <1>1, <3>1, Known
    <3>4. /\ Good(Append(Front(stack), f))
          /\ Calls(Append(Front(stack), f), "branch") = Calls(stack, "branch")
      BY <3>2, <3>3, GoodPush
    <3> QED
      BY <3>1, <3>4 DEF Building
  <2>2. CASE MakeWatch
    <3> DEFINE f == BranchFrame("list")
    <3>1. /\ Last(stack).op = "branch" /\ RunWatch(Append(Front(stack), f))
      BY <2>2 DEF MakeWatch, Step, In, Top, Resume, Rest
    <3>2. FrameOK(f) /\ ~IsSyncFrame(f) /\ f.op = "branch"
      BY FrameKinds DEF BranchFrame, IsSyncFrame
    <3> HIDE DEF f
    <3>3. Good(Front(stack)) /\ IsStack(stack)
      BY <1>1, Known
    <3>4. Good(Append(Front(stack), f)) /\ Building(Append(Front(stack), f))
      BY <3>2, <3>3, GoodPush
    <3>5. Building(stack)
      BY <1>1, <3>1, <3>3, OnTop DEF Building, Calls
    <3> QED
      BY <3>1, <3>4, <3>5
  <2>3. CASE FlushWatch
    <3>1. Last(stack).op = "flush" /\ RunWatch(stack)
      BY <2>3 DEF FlushWatch, Flushing, In, Top
    <3>2. Good(stack)
      BY <1>1, <3>1, Known DEF IsSyncFrame
    <3> QED
      BY <3>1, <3>2
  <2> QED
    BY <2>1, <2>2, <2>3
<1>3. Good(stack') /\ (Building(stack') <=> Building(stack))
  <2>1. Good(stack') /\ Calls(stack', "branch") = Calls(s, "branch")
    BY <1>1, <1>2, Known, GoodWatch
  <2> QED
    BY <1>2, <2>1 DEF Building
<1>4. TInv'
  BY <1>1, <1>3, TStays DEF dom
<1>5. /\ {scheduled', flushing'} \subseteq BOOLEAN
      /\ post' \in Seq(Tolds) /\ dirty' \subseteq dirty \cup {"watch"}
      /\ {prev', heard'} \subseteq Lists \cup {None}
  <2>1. IsStack(s) /\ FramesOK(s)
    BY <1>2 DEF Good
  <2> QED
    BY <1>2, <2>1, WatchTypes
<1>6. FramesOK(stack')
  BY <1>3, GoodIs
<1>7. LiveOK'
  BY <1>1, <1>5 DEF TypeI, LiveOK, dom
<1>8. TypeI'
  BY <1>1, <1>5, <1>6, <1>7 DEF TypeI, BaseOK, FlagsOK, QueuesOK, BranchOK, RowsOK, HeardOK, dom
<1> QED
  BY <1>4, <1>8

(* The list's effect begins.                                               *)
LEMMA ListTypes ==
  ASSUME IInv, TypeI, TInv, MakeList \/ FlushList
  PROVE  TypeI' /\ TInv'
<1>1. ~panicked /\ stack # <<>>
  BY DEF MakeList, FlushList, Step, Flushing, In
<1>2. Core(stack, pending, alive, dirty, DOMAIN row, store) /\ NamesLeft(DOMAIN row)
  BY <1>1, Invariant
<1>3. PICK s, q : /\ Good(s) /\ q \in Seq(EffectIds) /\ Reconcile(s, q)
                  /\ (Building(s) <=> Building(stack)) /\ DOMAIN row = Range(store)
                  /\ alive' = alive \cup {"list"}
  <2>1. CASE MakeList
    <3> DEFINE f == BranchFrame("insert")
    <3>1. /\ Last(stack).op = "branch" /\ Last(stack).step = "list"
          /\ alive' = alive \cup {"list"} /\ Reconcile(Append(Front(stack), f), pending)
      BY <2>1 DEF MakeList, Step, In, Top, Resume, Rest
    <3>2. FrameOK(f) /\ ~IsSyncFrame(f) /\ f.op = "branch"
      BY FrameKinds DEF BranchFrame, IsSyncFrame
    <3> HIDE DEF f
    <3>3. Good(Front(stack)) /\ IsStack(stack) /\ pending \in Seq(EffectIds)
      BY <1>1, Known
    <3>4. Good(Append(Front(stack), f)) /\ Building(Append(Front(stack), f))
      BY <3>2, <3>3, GoodPush
    <3>5. Len(stack) \in Calls(stack, "branch") /\ stack[Len(stack)].step # "insert"
      BY <1>1, <3>1, <3>3, OnTop DEF Calls
    <3>6. Building(stack)
      BY <3>5 DEF Building
    <3>7. DOMAIN row = Range(store)
      BY <1>2, <3>5 DEF Core, BuildingIn, RowsIn
    <3> QED
      BY <3>1, <3>3, <3>4, <3>6, <3>7
  <2>2. CASE FlushList
    <3>1. /\ Last(stack).op = "flush" /\ pending # <<>> /\ Head(pending) = "list"
          /\ Reconcile(stack, Tail(pending)) /\ alive' = alive
      BY <2>2 DEF FlushList, Flushing, In, Top, Due
    <3>2. Good(stack) /\ pending \in Seq(EffectIds)
      BY <1>1, <3>1, Known DEF IsSyncFrame
    <3>3. Head(pending) \in Framed
      BY <3>1 DEF Framed
    <3>4. /\ Calls(stack, Head(pending)) = {} /\ Head(pending) \in alive
      BY <1>2, <3>1, <3>3, Dequeue
    <3>5. DOMAIN row = Range(store) /\ "list" \in alive
      BY <1>2, <3>1, <3>4 DEF Core, RowsIn
    <3>6. Tail(pending) \in Seq(EffectIds)
      BY <3>1, <3>2, HeadTailProperties
    <3> QED
      BY <3>1, <3>2, <3>5, <3>6
  <2> QED
    BY <2>1, <2>2
<1>4. /\ UNCHANGED <<prog, phase, items, shown, writes, async, post, choice, mounted, top, prev, heard,
                     panicked>>
  BY <1>3 DEF Reconcile
<1>5. items \in Lists /\ IsStack(s) /\ FramesOK(s)
  BY <1>1, <1>3, Known DEF Good
<1>6. Good(stack') /\ (Building(stack') <=> Building(stack))
  <2>1. Good(stack') /\ Calls(stack', "branch") = Calls(s, "branch")
    BY <1>2, <1>3, <1>5, GoodList
  <2> QED
    BY <1>3, <2>1 DEF Building
<1>7. TInv'
  BY <1>1, <1>3, <1>4, <1>6, TStays
<1>8. /\ FramesOK(stack') /\ {scheduled', flushing'} \subseteq BOOLEAN
      /\ pending' \in Seq(EffectIds)
      /\ dirty' \subseteq (dirty \cap {"branch", "watch", "list"}) \cup {"list"} \cup DOMAIN row'
      /\ RowsOK'
  BY <1>2, <1>3, <1>5, ReconcileTypes
<1>9. LiveOK'
  <2>1. LiveOK /\ DOMAIN row \subseteq RowIds
    BY DEF TypeI, RowsOK
  <2>2. dirty \cap {"branch", "watch", "list"} \subseteq alive
    BY <2>1, ViewAssumption DEF LiveOK, Effects
  <2> QED
    BY <1>3, <1>8, <2>1, <2>2 DEF LiveOK
<1>10. TypeI'
  BY <1>4, <1>8, <1>9 DEF TypeI, BaseOK, FlagsOK, QueuesOK, BranchOK, HeardOK
<1> QED
  BY <1>7, <1>10

(* The list's effect ends, or the branch's.                                *)
LEMMA EndsTypes ==
  ASSUME IInv, TypeI, TInv, Place \/ InsertBranch
  PROVE  TypeI' /\ TInv'
<1>1. /\ UNCHANGED <<prog, phase, items, shown, writes, async, scheduled, flushing, pending, post,
                     alive, choice, mounted, row, prev, heard, panicked>>
      /\ ~panicked /\ stack # <<>> /\ stack' = Front(stack) /\ dirty' \subseteq dirty
  BY DEF Place, InsertBranch, Step, In, Rest
<1>2. /\ Good(stack') /\ FrameOK(Last(stack)) /\ IsStack(stack)
      /\ Last(stack).op # "branch" => Calls(stack', "branch") = Calls(stack, "branch")
      /\ \A op : Calls(stack', op) = Calls(stack, op) \ {Len(stack)}
  BY <1>1, Known
<1>3. CASE Place
  <2>1. Last(stack).op = "list" /\ store' = Last(stack).result /\ top' = top
    BY <1>3 DEF Place, In, Top
  <2>2. Range(store') \subseteq RowIds
    <3>1. Last(stack).order \in Seq(RowIds) /\ Range(Last(stack).result) = Range(Last(stack).order)
      BY <1>2, <2>1, FrameParts
    <3>2. Range(Last(stack).order) \subseteq RowIds
      BY <3>1, RangeOfSeq
    <3> QED
      BY <2>1, <3>1, <3>2
  <2>3. TInv'
    BY <1>1, <1>2, <2>1, TStays DEF Building
  <2>4. FramesOK(stack')
    BY <1>2, GoodIs
  <2>5. RowsOK' /\ LiveOK'
    BY <1>1, <2>2 DEF TypeI, RowsOK, LiveOK
  <2>6. TypeI'
    BY <1>1, <2>4, <2>5 DEF TypeI, BaseOK, FlagsOK, QueuesOK, BranchOK, HeardOK
  <2> QED
    BY <2>3, <2>6
<1>4. CASE InsertBranch
  <2>1. /\ Last(stack).op = "branch" /\ store' = store
        /\ top' = IF mounted = None THEN top ELSE InsertNode(top, mounted)
    BY <1>4 DEF InsertBranch, Step, In, Top
  <2>2. Len(stack) \in Calls(stack, "branch")
    BY <1>1, <1>2, <2>1, OnTop DEF Calls
  <2>3. Single(Calls(stack, "branch"))
    BY <1>1, Invariant DEF Core, OnceIn, Framed
  <2>4. ~Building(stack') /\ Building(stack)
    BY <1>2, <2>2, <2>3 DEF Single, Building
  <2>5. TopIn(FALSE, alive, mounted, choice, top')
    <3>1. MountedIn(mounted) /\ TopIn(TRUE, alive, mounted, choice, top)
      BY <1>1, <2>4 DEF TInv
    <3>2. CASE mounted = None
      BY <2>1, <3>1, <3>2 DEF TopIn
    <3>3. CASE mounted # None
      <4>1. InsertNode(Empty, mounted) = Holding(<<mounted>>)
        BY <3>1, <3>3, BranchComes DEF MountedIn
      <4> QED
        BY <2>1, <3>1, <3>3, <4>1 DEF TopIn
    <3> QED
      BY <3>2, <3>3
  <2>6. TopIn(Building(stack'), alive, mounted, choice, top')
    BY <2>4, <2>5 DEF TopIn
  <2>7. FramesOK(stack') /\ SyncIn(stack', alive)
    BY <1>2, GoodIs
  <2>8. TInv'
    BY <1>1, <2>6, <2>7 DEF TInv
  <2>9. TypeI'
    BY <1>1, <2>1, <2>7
    DEF TypeI, BaseOK, FlagsOK, QueuesOK, LiveOK, BranchOK, RowsOK, HeardOK
  <2> QED
    BY <2>8, <2>9
<1> QED
  BY <1>3, <1>4

(* The flush has nothing to do for an effect, or it is a row's.            *)
LEMMA SkipTypes ==
  ASSUME IInv, TypeI, TInv, FlushSkip \/ FlushRow
  PROVE  TypeI' /\ TInv'
<1>1. /\ UNCHANGED <<prog, phase, items, shown, writes, async, scheduled, flushing, post, alive, stack,
                     choice, mounted, top, store, prev, heard, panicked>>
      /\ ~panicked /\ stack # <<>> /\ pending # <<>> /\ pending' = Tail(pending)
      /\ Last(stack).op = "flush" /\ dirty' \subseteq dirty
  BY DEF FlushSkip, FlushRow, Flushing, In, Top, dom
<1>2. Good(stack) /\ pending \in Seq(EffectIds)
  BY <1>1, Known DEF IsSyncFrame
<1>3. pending' \in Seq(EffectIds)
  BY <1>1, <1>2, HeadTailProperties
<1>4. TInv'
  BY <1>1, <1>2, TStays
<1>5. RowsOK' /\ DOMAIN row' = DOMAIN row
  <2>1. RowsOK
    BY DEF TypeI
  <2>2. CASE row' = row
    BY <1>1, <2>1, <2>2 DEF RowsOK
  <2>3. CASE FlushRow
    <3> DEFINE d == Due
               x == RowText(row[d].item, row[d].index)
    <3>1. row' = [row EXCEPT ![d].text = x]
      BY <2>3 DEF FlushRow
    <3> HIDE DEF d, x
    <3>2. DOMAIN row' = DOMAIN row
      BY <3>1
    <3>3. ASSUME NEW r \in DOMAIN row PROVE RowOK(row'[r])
      <4>1. RowOK(row[r])
        BY <2>1 DEF RowsOK
      <4>2. CASE r # d
        BY <3>1, <4>1, <4>2
      <4>3. CASE r = d
        <5>1. row'[r] = [row[r] EXCEPT !.text = x]
          BY <3>1, <4>3
        <5>2. row[r] = [item |-> row[r].item, index |-> row[r].index, text |-> row[r].text]
          BY <4>1 DEF RowOK
        <5>3. row'[r] = [item |-> row[r].item, index |-> row[r].index, text |-> x]
          BY <5>1, <5>2
        <5> QED
          BY <4>1, <5>3 DEF RowOK
      <4> QED
        BY <4>2, <4>3
    <3> QED
      BY <1>1, <2>1, <3>2, <3>3 DEF RowsOK
  <2> QED
    BY <2>2, <2>3 DEF FlushSkip, dom
<1>6. LiveOK'
  BY <1>1, <1>5 DEF TypeI, LiveOK
<1>7. TypeI'
  BY <1>1, <1>3, <1>5, <1>6 DEF TypeI, BaseOK, FlagsOK, QueuesOK, FramesOK, BranchOK, HeardOK
<1> QED
  BY <1>4, <1>7

(* The branch's effect runs.                                               *)
LEMMA BranchTypes ==
  ASSUME IInv, TypeI, TInv, Create \/ FlushBranch
  PROVE  TypeI' /\ TInv'
<1>0. ~panicked /\ Good(stack) /\ Core(stack, pending, alive, dirty, DOMAIN row, store)
      /\ pending \in Seq(EffectIds)
  <2>1. ~panicked /\ (stack = <<>> \/ Last(stack).op = "flush")
    BY DEF Create, AtRest, FlushBranch, Flushing, In, Top
  <2> QED
    BY <2>1, Known, Invariant DEF IsSyncFrame
<1>1. PICK q \in Seq(EffectIds) :
        RunBranch(stack, q) /\ Calls(stack, "branch") = {} /\ "branch" \in alive
  <2>1. CASE Create
    <3>1. stack = <<>> /\ RunBranch(stack, pending) /\ phase = "new"
      BY <2>1 DEF Create, AtRest
    <3>2. "branch" \in alive
      BY <1>0, <3>1 DEF TInv, LiveIn
    <3>3. Calls(stack, "branch") = {}
      BY <3>1, NoCalls
    <3> QED
      BY <1>0, <3>1, <3>2, <3>3
  <2>2. CASE FlushBranch
    <3>1. /\ pending # <<>> /\ Head(pending) = "branch" /\ RunBranch(stack, Tail(pending))
      BY <2>2 DEF FlushBranch, Flushing, Due
    <3>2. Head(pending) \in Framed
      BY <3>1 DEF Framed
    <3>3. Calls(stack, Head(pending)) = {} /\ Head(pending) \in alive
      BY <1>0, <3>1, <3>2, Dequeue
    <3>4. Tail(pending) \in Seq(EffectIds)
      BY <1>0, <3>1, HeadTailProperties
    <3> QED
      BY <3>1, <3>3, <3>4
  <2> QED
    BY <2>1, <2>2
<1>a. phase' = "live" \/ (phase' = phase /\ phase # "new" /\ phase # "unmounted")
  <2>1. CASE Create
    BY <2>1 DEF Create
  <2>2. CASE FlushBranch
    <3>1. stack # <<>> /\ phase' = phase
      BY <2>2 DEF FlushBranch, Flushing, In
    <3> QED
      BY <1>0, <1>1, <3>1, Invariant DEF TInv, LiveIn
  <2> QED
    BY <2>1, <2>2
<1>2. /\ UNCHANGED <<prog, items, shown, writes, async, scheduled, flushing, heard>>
      /\ panicked' = (shown # choice /\ Calling("list"))
      /\ SameBranch(stack, q) \/ SwapBranch(stack, q)
  BY <1>0, <1>1, <1>a DEF RunBranch
<1>3. ~Building(stack) /\ TopIn(FALSE, alive, mounted, choice, top) /\ MountedIn(mounted)
  BY <1>0, <1>1, <1>a DEF TInv, Building
<1>4. /\ BaseOK' /\ {async', scheduled', flushing', panicked'} \subseteq BOOLEAN
  BY <1>0, <1>1, <1>a, <1>2 DEF TypeI, BaseOK, FlagsOK
<1>5. LiveIn(phase', alive') <=> "branch" \in alive'
  <2>1. LiveIn(phase, alive)
    BY <1>0, <1>1, <1>a DEF TInv
  <2>2. phase' # "new"
    BY <1>0, <1>1, <1>a
  <2> QED
    BY <1>0, <1>1, <1>a, <2>1, <2>2 DEF LiveIn
<1>6. CASE SameBranch(stack, q)
  <2>1. /\ stack' = stack /\ pending' = q /\ dirty' = dirty \ {"branch"}
        /\ UNCHANGED <<choice, mounted, top, kids, row, store, post, alive, prev>>
    BY <1>6 DEF SameBranch
  <2>2. FramesOK(stack') /\ SyncIn(stack', alive')
    BY <1>0, <1>1, <1>a, <2>1, GoodIs
  <2>3. ~Building(stack')
    BY <1>3, <2>1
  <2>4. TInv'
    <3>1. LiveIn(phase', alive')
      BY <1>0, <1>1, <1>a, <1>5, <2>1
    <3>2. TopIn(Building(stack'), alive', mounted', choice', top')
      BY <1>3, <2>1, <2>3 DEF TopIn
    <3> QED
      BY <1>3, <2>1, <2>2, <3>1, <3>2 DEF TInv
  <2>5. TypeI'
    BY <1>0, <1>1, <1>a, <1>2, <1>4, <2>1, <2>2
    DEF TypeI, FlagsOK, QueuesOK, LiveOK, BranchOK, RowsOK, HeardOK
  <2> QED
    BY <2>4, <2>5
<1>7. CASE SwapBranch(stack, q)
  <2>1. /\ choice' = shown /\ top' = IF mounted = None THEN top ELSE RemoveNode(top, mounted)
        /\ DisposeBranch(q, {}) /\ mounted' = IF shown = None THEN None ELSE NewNode
        /\ stack' = Append(stack, BranchFrame(IF shown = 1 THEN "watch" ELSE "insert"))
    BY <1>7 DEF SwapBranch
  <2>2. /\ pending' \in Seq(EffectIds) /\ post' \in Seq(Tolds) /\ LiveOK' /\ RowsOK'
        /\ prev' = None /\ "branch" \in alive'
    BY <1>1, <2>1, DisposeTypes
  <2>3. shown \in {None, 1, 2}
    BY BranchSet DEF TypeI, BaseOK
  <2>4. shown # None => mounted' \in {1, 2} \X {0, 1} /\ mounted' # None
    BY <1>0, <1>1, <1>a, <1>3, <2>1, <2>3, NewNodeType
  <2>5. top' = Empty
    <3>1. CASE mounted = None
      BY <1>0, <1>1, <1>a, <1>3, <2>1, <3>1 DEF TopIn
    <3>2. CASE mounted # None
      <4>1. RemoveNode(Holding(<<mounted>>), mounted) = Empty
        BY <1>3, <3>2, BranchComes DEF MountedIn
      <4> QED
        BY <1>0, <1>1, <1>a, <1>3, <2>1, <3>2, <4>1 DEF TopIn
    <3> QED
      BY <3>1, <3>2
  <2> DEFINE f == BranchFrame(IF shown = 1 THEN "watch" ELSE "insert")
  <2>6. FrameOK(f) /\ ~IsSyncFrame(f) /\ f.op = "branch"
    <3>1. FrameOK(f)
      BY FrameKinds
    <3> QED
      BY <3>1 DEF BranchFrame, IsSyncFrame
  <2>7. stack' = Append(stack, f)
    BY <2>1
  <2> HIDE DEF f
  <2>8. Good(stack') /\ Building(stack')
    BY <1>0, <1>1, <1>a, <2>6, <2>7, GoodPush
  <2>9. FramesOK(stack') /\ SyncIn(stack', alive')
    BY <2>8, GoodIs
  <2>10. mounted' = None <=> choice' \in {None, Unset}
    BY <2>1, <2>3, <2>4, ViewAssumption
  <2>11. TopIn(Building(stack'), alive', mounted', choice', top') /\ MountedIn(mounted')
    BY <2>1, <2>4, <2>5, <2>8, <2>10 DEF TopIn, MountedIn
  <2>12. TInv'
    BY <1>5, <2>2, <2>9, <2>11 DEF TInv
  <2>13. BranchOK'
    BY <2>1, <2>3, <2>4, BranchSet DEF BranchOK
  <2>14. TypeI'
    BY <1>2, <1>4, <2>2, <2>9, <2>13 DEF TypeI, FlagsOK, QueuesOK, HeardOK
  <2> QED
    BY <2>12, <2>14
<1> QED
  BY <1>2, <1>6, <1>7

LEMMA UnmountTypes ==
  ASSUME IInv, TypeI, TInv, Unmount
  PROVE  TypeI' /\ TInv'
<1>1. /\ UNCHANGED <<prog, items, shown, writes, async, scheduled, flushing, stack, choice, top, kids,
                     heard>>
      /\ ~panicked /\ stack # <<>> /\ Last(stack).op = "handler" /\ phase = "live"
      /\ phase' = "unmounted" /\ DisposeBranch(pending, {"branch"}) /\ mounted' = None
      /\ panicked' = Calling("list")
  BY DEF Unmount, In, Top
<1>2. Good(stack) /\ pending \in Seq(EffectIds)
  BY <1>1, Known DEF IsSyncFrame
<1>3. "branch" \in alive
  BY <1>1 DEF TInv, LiveIn
<1>4. /\ pending' \in Seq(EffectIds) /\ post' \in Seq(Tolds) /\ LiveOK' /\ RowsOK'
      /\ prev' = None /\ "branch" \notin alive'
  BY <1>1, <1>2, <1>3, DisposeTypes
<1>5. FramesOK(stack') /\ SyncIn(stack', alive')
  BY <1>1, <1>2, GoodIs
<1>6. TInv'
  BY <1>1, <1>4, <1>5 DEF TInv, LiveIn, TopIn, MountedIn
<1>7. panicked' \in BOOLEAN
  BY <1>1 DEF Calling
<1>8. TypeI'
  BY <1>1, <1>4, <1>5, <1>7 DEF TypeI, BaseOK, FlagsOK, QueuesOK, BranchOK, HeardOK
<1> QED
  BY <1>6, <1>8
-----------------------------------------------------------------------------
LEMMA InitTypes ==
  ASSUME Init
  PROVE  TypeI /\ TInv
<1>1. stack = <<>> /\ \A op : Calls(stack, op) = {}
  BY NoCalls DEF Init
<1>2. DOMAIN stack = {} /\ DOMAIN row = {} /\ DOMAIN store = {}
  BY DEF Init
<1>3. SyncIn(stack, alive) /\ FramesOK(stack) /\ ~Building(stack) /\ Range(store) = {}
  BY <1>1, <1>2 DEF SyncIn, FramesOK, Building, Range
<1>4. prog.builder \in Builders
  BY ViewAssumption DEF Init
<1>5. shown \in Branches /\ choice \in {None, Unset}
  BY <1>4, BranchSet DEF Init, FirstChoice
<1>6. TInv
  BY <1>3, <1>5 DEF Init, TInv, LiveIn, TopIn, MountedIn
<1>7. <<>> \in Seq(EffectIds) /\ <<>> \in Seq(Tolds) /\ MaxWrites \in 0..MaxWrites
  BY ViewAssumption
<1>8. BaseOK /\ QueuesOK
  BY <1>5, <1>7 DEF Init, BaseOK, QueuesOK
<1>9. FlagsOK /\ LiveOK /\ HeardOK
  BY DEF Init, FlagsOK, LiveOK, HeardOK
<1>10. BranchOK /\ RowsOK
  BY <1>2, <1>3, <1>5, BranchSet DEF Init, BranchOK, RowsOK
<1> QED
  BY <1>3, <1>6, <1>8, <1>9, <1>10 DEF TypeI

LEMMA NextTypes ==
  ASSUME IInv, TypeI, TInv, [Next]_vars
  PROVE  TypeI' /\ TInv'
<1>1. CASE Create \/ FlushBranch
  BY <1>1, BranchTypes
<1>2. CASE Mount \/ Event \/ Batch \/ Microtask
  BY <1>2, HostTypes
<1>3. CASE HandlerDone \/ NotifyDone \/ CallbackDone \/ FlushDone
  BY <1>3, ReturnsTypes
<1>4. CASE WriteItems \/ WriteShown
  BY <1>4, WritesTypes
<1>5. CASE MakeList \/ FlushList
  BY <1>5, ListTypes
<1>6. CASE Place \/ InsertBranch
  BY <1>6, EndsTypes
<1>7. CASE FlushSkip \/ FlushRow
  BY <1>7, SkipTypes
<1>8. CASE FlushTake \/ FlushCallback
  BY <1>8, PostTypes
<1>9. CASE Unmount
  BY <1>9, UnmountTypes
<1>10. CASE RunSync \/ MakeWatch \/ FlushWatch
  BY <1>10, WatchStepTypes
<1>11. CASE UNCHANGED vars
  <2>1. TypeI'
    BY <1>11 DEF vars, queues, dom, TypeI, BaseOK, FlagsOK, QueuesOK, LiveOK, FramesOK, BranchOK,
                 RowsOK, HeardOK
  <2>2. TInv'
    BY <1>11 DEF vars, queues, dom, TInv
  <2> QED
    BY <2>1, <2>2
<1> QED
  BY <1>1, <1>2, <1>3, <1>4, <1>5, <1>6, <1>7, <1>8, <1>9, <1>10, <1>11 DEF Next

LEMMA ViewTyped == Spec => [](TypeI /\ TInv)
<1> QED
  BY InitTypes, NextTypes, BookkeepingInvariant, PTL DEF Spec

(* For all lists, programs and habits, panics included: every variable has *)
(* its type, and only effects that exist are stale.                        *)
THEOREM ViewTypes == Spec => []TypeOK
<1> QED
  BY ViewTyped, TypeOfParts, PTL
-----------------------------------------------------------------------------
(* The frames of one kind                                                  *)

FramesOf(s, op) == {s[i] : i \in Calls(s, op)}

LEMMA OfEmpty ==
  ASSUME NEW s, NEW op
  PROVE  FramesOf(s, op) = {} <=> Calls(s, op) = {}
  BY DEF FramesOf

LEMMA OfPush ==
  ASSUME NEW s, IsStack(s), NEW f, NEW op
  PROVE  FramesOf(Append(s, f), op) = IF f.op = op THEN FramesOf(s, op) \cup {f} ELSE FramesOf(s, op)
<1> DEFINE t == Append(s, f)
           k == Len(s) + 1
<1>1. /\ DOMAIN t = DOMAIN s \cup {k} /\ k \notin DOMAIN s
      /\ t[k] = f /\ \A i \in DOMAIN s : t[i] = s[i]
      /\ \A x : Calls(t, x) = IF f.op = x THEN Calls(s, x) \cup {k} ELSE Calls(s, x)
  BY ONLY IsStack(s), PushFrame
<1> HIDE DEF t, k
<1>2. Calls(s, op) \subseteq DOMAIN s
  BY DEF Calls
<1>3. \A i \in Calls(s, op) : t[i] = s[i]
  BY <1>1, <1>2
<1>4. CASE f.op = op
  <2>1. Calls(t, op) = Calls(s, op) \cup {k}
    BY <1>1, <1>4
  <2>2. {t[i] : i \in Calls(s, op)} = FramesOf(s, op)
    BY <1>3 DEF FramesOf
  <2>3. FramesOf(t, op) = {t[i] : i \in Calls(s, op)} \cup {t[k]}
    BY <2>1 DEF FramesOf
  <2> QED
    BY <1>1, <1>4, <2>2, <2>3 DEF t
<1>5. CASE f.op # op
  <2>1. Calls(t, op) = Calls(s, op)
    BY <1>1, <1>5
  <2> QED
    BY <1>3, <1>5, <2>1 DEF FramesOf, t
<1> QED
  BY <1>4, <1>5

LEMMA OfPop ==
  ASSUME NEW s, IsStack(s), s # <<>>, NEW op
  PROVE  /\ IsStack(Front(s))
         /\ FramesOf(Front(s), op) \subseteq FramesOf(s, op)
         /\ Last(s).op # op => FramesOf(Front(s), op) = FramesOf(s, op)
         /\ Last(s).op = op => Last(s) \in FramesOf(s, op)
         /\ Last(s).op = op /\ Single(Calls(s, op)) =>
              /\ FramesOf(s, op) = {Last(s)} /\ FramesOf(Front(s), op) = {}
<1> DEFINE t == Front(s)
           k == Len(s)
<1>1. /\ IsStack(t) /\ DOMAIN s = DOMAIN t \cup {k}
      /\ Last(s) = s[k] /\ \A i \in DOMAIN t : t[i] = s[i]
      /\ \A x : Calls(t, x) = Calls(s, x) \ {k}
  BY ONLY IsStack(s), s # <<>>, PopFrame
<1> HIDE DEF t, k
<1>2. Calls(t, op) \subseteq DOMAIN t
  BY DEF Calls
<1>3. FramesOf(t, op) \subseteq FramesOf(s, op)
  BY <1>1, <1>2 DEF FramesOf
<1>4. Last(s).op # op => FramesOf(t, op) = FramesOf(s, op)
  <2> SUFFICES ASSUME Last(s).op # op PROVE FramesOf(t, op) = FramesOf(s, op)
    OBVIOUS
  <2>1. Calls(t, op) = Calls(s, op)
    BY <1>1 DEF Calls
  <2> QED
    BY <1>1, <1>2, <2>1 DEF FramesOf
<1>5. Last(s).op = op => k \in Calls(s, op)
  BY <1>1 DEF Calls
<1>6. Last(s).op = op => Last(s) \in FramesOf(s, op)
  BY <1>1, <1>5 DEF FramesOf
<1>7. ASSUME Last(s).op = op, Single(Calls(s, op))
      PROVE  FramesOf(s, op) = {Last(s)} /\ FramesOf(t, op) = {}
  <2>1. Calls(s, op) = {k} /\ Calls(t, op) = {}
    BY <1>1, <1>5, <1>7 DEF Single
  <2> QED
    BY <1>1, <2>1 DEF FramesOf
<1> QED
  BY <1>1, <1>3, <1>4, <1>6, <1>7 DEF t

LEMMA OfFlush ==
  ASSUME NEW s, IsStack(s), ScheduleOrFlush(s) \/ MaybeFlush(s), NEW op, op # "flush"
  PROVE  FramesOf(stack', op) = FramesOf(s, op)
<1>1. FlushFrame.op # op
  BY DEF FlushFrame
<1>2. FramesOf(Append(s, FlushFrame), op) = FramesOf(s, op)
  BY <1>1, OfPush
<1>3. stack' = s \/ stack' = Append(s, FlushFrame)
  BY DEF ScheduleOrFlush, MaybeFlush
<1> QED
  BY <1>2, <1>3

LEMMA OfWatch ==
  ASSUME NEW s, IsStack(s), RunWatch(s)
  PROVE  /\ \A op : op \notin {"flush", "callback"} => FramesOf(stack', op) = FramesOf(s, op)
         /\ \A f \in FramesOf(stack', "callback") : f.from = "watch" \/ f \in FramesOf(s, "callback")
<1> DEFINE c == CallbackFrame(Told(items, prev), "watch")
<1>1. c.op = "callback" /\ c.from = "watch"
  BY DEF CallbackFrame
<1>2. stack' = Append(s, c) \/ MaybeFlush(s) \/ stack' = s
  BY DEF RunWatch
<1> HIDE DEF c
<1>3. CASE stack' = Append(s, c)
  BY <1>1, <1>3, OfPush
<1>4. CASE MaybeFlush(s)
  BY <1>4, OfFlush
<1> QED
  BY <1>2, <1>3, <1>4
-----------------------------------------------------------------------------
(* Who may write while a branch is being built                             *)

NoWriter(s, deferred) ==
  deferred /\ Building(s) =>
    FramesOf(s, "handler") = {} /\ \A f \in FramesOf(s, "callback") : f.from # "flush"

LEMMA WriterSame ==
  ASSUME NEW s, NEW t, NEW deferred, NoWriter(s, deferred),
         Building(t) => Building(s),
         FramesOf(t, "handler") \subseteq FramesOf(s, "handler"),
         \A f \in FramesOf(t, "callback") : f.from = "watch" \/ f \in FramesOf(s, "callback")
  PROVE  NoWriter(t, deferred)
  BY DEF NoWriter

LEMMA WriterHost ==
  ASSUME IInv, PInv, NoWriter(stack, async), Mount \/ Event \/ Batch \/ Microtask
  PROVE  NoWriter(stack', async')
<1>1. IsStack(stack)
  BY Shape
<1>2. CASE Mount
  <2>1. stack' = <<>>
    BY <1>2 DEF Mount, AtRest
  <2> QED
    BY <2>1, NoCalls DEF NoWriter, Building
<1>3. CASE Event \/ Microtask
  <2>1. PICK f : f.op # "branch" /\ stack' = <<f>>
    BY <1>3 DEF Event, Microtask, HandlerFrame, FlushFrame
  <2>2. stack' = Append(<<>>, f)
    BY <2>1
  <2>3. Calls(stack', "branch") = {}
    BY <2>1, <2>2, EmptyIsStack, PushCalls, NoCalls
  <2> QED
    BY <2>3 DEF NoWriter, Building
<1>4. CASE Batch
  <2>1. /\ stack # <<>> /\ Last(stack).op = "callback" /\ Last(stack).from = "flush"
        /\ stack' = Append(stack, HandlerFrame) /\ async' = async
    BY <1>4 DEF Batch, In, Top
  <2>2. Last(stack) \in FramesOf(stack, "callback")
    BY <1>1, <2>1, OfPop
  <2>3. ~(async /\ Building(stack))
    BY <2>1, <2>2 DEF NoWriter
  <2>4. Calls(stack', "branch") = Calls(stack, "branch")
    BY <1>1, <2>1, PushCalls DEF HandlerFrame
  <2> QED
    BY <2>1, <2>3, <2>4 DEF NoWriter, Building
<1> QED
  BY <1>2, <1>3, <1>4

LEMMA WriterReturns ==
  ASSUME IInv, PInv, NoWriter(stack, async),
         HandlerDone \/ NotifyDone \/ CallbackDone \/ FlushDone \/ Place \/ InsertBranch
  PROVE  NoWriter(stack', async')
<1>1. IsStack(stack) /\ async' = async /\ stack # <<>>
  BY Shape DEF HandlerDone, NotifyDone, CallbackDone, FlushDone, Place, InsertBranch, Step, In
<1>2. \/ stack' = Front(stack)
      \/ ScheduleOrFlush(Front(stack)) \/ MaybeFlush(Front(stack))
  BY DEF HandlerDone, NotifyDone, CallbackDone, FlushDone, Place, InsertBranch, Rest
<1>3. IsStack(Front(stack)) /\ \A op : FramesOf(Front(stack), op) \subseteq FramesOf(stack, op)
  BY <1>1, OfPop
<1>4. \A op : op # "flush" => FramesOf(stack', op) \subseteq FramesOf(stack, op)
  BY <1>2, <1>3, OfFlush
<1>5. Building(stack') => Building(stack)
  BY <1>4, OfEmpty DEF Building
<1> QED
  BY <1>1, <1>4, <1>5, WriterSame

(* With the scheduler, a flush calls, and is not called.                   *)
LEMMA FlushAlone ==
  ASSUME IInv, PInv, async, stack # <<>>, Last(stack).op = "flush", NEW op, op # "flush"
  PROVE  Calls(stack, op) = {}
<1>1. IsStack(stack) /\ ShapeIn(stack, async)
  BY Shape
<1>2. Len(stack) \in Calls(stack, "flush")
  BY <1>1, OnTop DEF Calls
<1>3. Len(stack) = 1
  BY <1>1, <1>2 DEF ShapeIn
<1> QED
  BY <1>1, <1>3, Bottom

LEMMA WriterPost ==
  ASSUME IInv, PInv, NoWriter(stack, async), FlushTake \/ FlushCallback
  PROVE  NoWriter(stack', async')
<1>1. /\ IsStack(stack) /\ async' = async /\ stack # <<>> /\ Last(stack).op = "flush"
      /\ async \in BOOLEAN /\ ShapeIn(stack, async)
  BY Shape DEF FlushTake, FlushCallback, In, Top
<1>2. ASSUME async
      PROVE  ~Building(stack')
  <2>1. Calls(stack, "branch") = {}
    BY <1>1, <1>2, FlushAlone
  <2>2. IsStack(Front(stack)) /\ Calls(Front(stack), "branch") = {}
    <3>1. IsStack(stack) /\ stack # <<>>
      BY <1>1
    <3>2. IsStack(Front(stack)) /\ \A op : Calls(Front(stack), op) = Calls(stack, op) \ {Len(stack)}
      BY ONLY <3>1, PopFrame
    <3> QED
      BY <2>1, <3>2
  <2>3. CASE FlushTake
    <3> DEFINE f == [FlushFrame EXCEPT !.cbs = post]
    <3>1. stack' = Append(Front(stack), f) /\ f.op # "branch"
      BY <2>3 DEF FlushTake, Resume, Rest, FlushFrame
    <3> HIDE DEF f
    <3> QED
      BY <2>2, <3>1, PushCalls DEF Building
  <2>4. CASE FlushCallback
    <3> DEFINE f == [FlushFrame EXCEPT !.cbs = Tail(Last(stack).cbs)]
               g == CallbackFrame(Head(Last(stack).cbs), "flush")
               t == Append(Front(stack), f)
    <3>1. stack' = Append(t, g) /\ f.op # "branch" /\ g.op # "branch"
      BY <2>4 DEF FlushCallback, Resume, Rest, Top, FlushFrame, CallbackFrame
    <3> HIDE DEF f, g
    <3>2. IsStack(t) /\ Calls(t, "branch") = {}
      <4>1. IsStack(t)
        BY ONLY <2>2, PushFrame
      <4> QED
        BY <2>2, <3>1, <4>1, PushCalls
    <3> HIDE DEF t
    <3> QED
      BY <3>1, <3>2, PushCalls DEF Building
  <2> QED
    BY <2>3, <2>4
<1> QED
  BY <1>1, <1>2 DEF NoWriter

LEMMA WriterWrites ==
  ASSUME IInv, PInv, NoWriter(stack, async), WriteItems \/ WriteShown
  PROVE  NoWriter(stack', async')
<1>1. IsStack(stack) /\ async' = async
  BY Shape DEF WriteItems, WriteShown, Write, Show
<1>2. PICK f : stack' = Append(stack, f) /\ f.op = "notify"
  BY DEF WriteItems, WriteShown, Write, Show, NotifyFrame
<1>3. \A op : op # "notify" => FramesOf(stack', op) = FramesOf(stack, op)
  BY <1>1, <1>2, OfPush
<1>4. Building(stack') => Building(stack)
  BY <1>3, OfEmpty DEF Building
<1> QED
  BY <1>1, <1>3, <1>4, WriterSame

LEMMA WriterWatch ==
  ASSUME IInv, PInv, NoWriter(stack, async), RunSync \/ MakeWatch \/ FlushWatch
  PROVE  NoWriter(stack', async')
<1>1. IsStack(stack) /\ async' = async /\ stack # <<>>
  BY Shape DEF RunSync, MakeWatch, FlushWatch, Step, Flushing, In
<1>2. PICK s : /\ IsStack(s) /\ RunWatch(s) /\ (Building(s) => Building(stack))
               /\ \A op \in {"handler", "callback"} : FramesOf(s, op) = FramesOf(stack, op)
  <2>1. CASE RunSync \/ MakeWatch
    <3>1. PICK f : /\ f.op = Last(stack).op /\ f.op \notin {"handler", "callback"}
                   /\ RunWatch(Append(Front(stack), f))
      BY <2>1 DEF RunSync, MakeWatch, Step, In, Top, Resume, Rest, BranchFrame, NotifyFrame
    <3> DEFINE t == Append(Front(stack), f)
    <3>2. IsStack(t) /\ Calls(t, "branch") = Calls(stack, "branch")
      BY ONLY <1>1, <3>1, ReplaceFrame
    <3>3. \A op \in {"handler", "callback"} : FramesOf(t, op) = FramesOf(stack, op)
      <4> TAKE op \in {"handler", "callback"}
      <4>1. IsStack(Front(stack)) /\ FramesOf(Front(stack), op) = FramesOf(stack, op)
        BY <1>1, <3>1, OfPop
      <4> QED
        BY <3>1, <4>1, OfPush
    <3> HIDE DEF t
    <3> QED
      BY <3>1, <3>2, <3>3 DEF Building, t
  <2>2. CASE FlushWatch
    BY <1>1, <2>2 DEF FlushWatch
  <2> QED
    BY <2>1, <2>2
<1>3. /\ \A op : op \notin {"flush", "callback"} => FramesOf(stack', op) = FramesOf(s, op)
      /\ \A f \in FramesOf(stack', "callback") : f.from = "watch" \/ f \in FramesOf(s, "callback")
  BY <1>2, OfWatch
<1>4. Building(stack') => Building(stack)
  BY <1>2, <1>3, OfEmpty DEF Building
<1> QED
  BY <1>1, <1>2, <1>3, <1>4, WriterSame

MadeFrame == ListFrame(MadeOrder, MadeResult)

LEMMA OfList ==
  ASSUME NEW s, IsStack(s), NEW q, Reconcile(s, q)
  PROVE  /\ MadeFrame.op = "list" /\ MadeFrame.order = MadeOrder /\ MadeFrame.result = MadeResult
         /\ \A op : op \notin {"flush", "list"} => FramesOf(stack', op) = FramesOf(s, op)
         /\ FramesOf(stack', "list") = FramesOf(s, "list") \cup {MadeFrame}
<1> DEFINE t == Append(s, MadeFrame)
<1>1. MadeFrame.op = "list" /\ MadeFrame.order = MadeOrder /\ MadeFrame.result = MadeResult
  BY DEF MadeFrame, ListFrame
<1>2. ScheduleOrFlush(t)
  BY ReconcileIs DEF MadeFrame
<1>3. \A op : FramesOf(t, op) = IF MadeFrame.op = op THEN FramesOf(s, op) \cup {MadeFrame}
                                ELSE FramesOf(s, op)
  BY ONLY IsStack(s), OfPush
<1>4. IsStack(t)
  BY ONLY IsStack(s), PushFrame
<1> HIDE DEF t
<1>5. \A op : op # "flush" => FramesOf(stack', op) = FramesOf(t, op)
  BY <1>2, <1>4, OfFlush
<1> QED
  BY <1>1, <1>3, <1>5

LEMMA WriterList ==
  ASSUME IInv, PInv, NoWriter(stack, async), MakeList \/ FlushList
  PROVE  NoWriter(stack', async')
<1>1. IsStack(stack) /\ stack # <<>>
  BY Shape DEF MakeList, FlushList, Step, Flushing, In
<1>2. PICK s, q : /\ IsStack(s) /\ Reconcile(s, q) /\ (Building(s) => Building(stack))
                  /\ \A op \in {"handler", "callback"} : FramesOf(s, op) = FramesOf(stack, op)
  <2>1. CASE MakeList
    <3> DEFINE f == BranchFrame("insert")
               t == Append(Front(stack), f)
    <3>1. /\ Last(stack).op = "branch" /\ f.op = "branch" /\ Reconcile(t, pending)
      BY <2>1 DEF MakeList, Step, In, Top, Resume, Rest, BranchFrame
    <3> HIDE DEF f
    <3>2. IsStack(t) /\ Calls(t, "branch") = Calls(stack, "branch")
      BY ONLY <1>1, <3>1, ReplaceFrame
    <3>3. \A op \in {"handler", "callback"} : FramesOf(t, op) = FramesOf(stack, op)
      <4> TAKE op \in {"handler", "callback"}
      <4>1. IsStack(Front(stack)) /\ FramesOf(Front(stack), op) = FramesOf(stack, op)
        BY <1>1, <3>1, OfPop
      <4> QED
        BY <3>1, <4>1, OfPush
    <3> HIDE DEF t
    <3> QED
      BY <3>1, <3>2, <3>3 DEF Building
  <2>2. CASE FlushList
    BY <1>1, <2>2 DEF FlushList
  <2> QED
    BY <2>1, <2>2
<1>3. \A op : op \notin {"flush", "list"} => FramesOf(stack', op) = FramesOf(s, op)
  BY <1>2, OfList
<1>4. Building(stack') => Building(stack)
  BY <1>2, <1>3, OfEmpty DEF Building
<1>5. async' = async
  BY <1>2 DEF Reconcile
<1> QED
  BY <1>2, <1>3, <1>4, <1>5, WriterSame

LEMMA WriterBranch ==
  ASSUME IInv, PInv, NoWriter(stack, async), Create \/ FlushBranch
  PROVE  NoWriter(stack', async')
<1>1. IsStack(stack)
  BY Shape
<1>2. ASSUME async
      PROVE  Calls(stack, "handler") = {} /\ Calls(stack, "callback") = {}
  <2>1. stack = <<>> \/ (stack # <<>> /\ Last(stack).op = "flush")
    BY DEF Create, AtRest, FlushBranch, Flushing, In, Top
  <2> QED
    BY <1>2, <2>1, NoCalls, FlushAlone
<1>3. PICK q : RunBranch(stack, q)
  BY DEF Create, AtRest, FlushBranch
<1>4. async' = async
  BY <1>3 DEF RunBranch
<1>5. CASE stack' = stack
  BY <1>4, <1>5
<1>6. CASE \E step : stack' = Append(stack, BranchFrame(step))
  <2>1. PICK f : stack' = Append(stack, f) /\ f.op = "branch"
    BY <1>6 DEF BranchFrame
  <2>2. /\ FramesOf(stack', "handler") = FramesOf(stack, "handler")
        /\ FramesOf(stack', "callback") = FramesOf(stack, "callback")
    BY <1>1, <2>1, OfPush
  <2> QED
    BY <1>2, <1>4, <2>2, OfEmpty DEF NoWriter
<1> QED
  BY <1>3, <1>5, <1>6 DEF RunBranch, SameBranch, SwapBranch

LEMMA NextWriter ==
  ASSUME IInv, PInv, NoWriter(stack, async), [Next]_vars
  PROVE  NoWriter(stack', async')
<1>1. CASE Create \/ FlushBranch
  BY <1>1, WriterBranch
<1>2. CASE Mount \/ Event \/ Batch \/ Microtask
  BY <1>2, WriterHost
<1>3. CASE HandlerDone \/ NotifyDone \/ CallbackDone \/ FlushDone \/ Place \/ InsertBranch
  BY <1>3, WriterReturns
<1>4. CASE WriteItems \/ WriteShown
  BY <1>4, WriterWrites
<1>5. CASE MakeList \/ FlushList
  BY <1>5, WriterList
<1>6. CASE FlushTake \/ FlushCallback
  BY <1>6, WriterPost
<1>7. CASE RunSync \/ MakeWatch \/ FlushWatch
  BY <1>7, WriterWatch
<1>8. CASE Unmount \/ FlushSkip \/ FlushRow \/ UNCHANGED vars
  <2>1. stack' = stack /\ async' = async
    BY <1>8 DEF Unmount, FlushSkip, FlushRow, vars
  <2> QED
    BY <2>1
<1> QED
  BY <1>1, <1>2, <1>3, <1>4, <1>5, <1>6, <1>7, <1>8 DEF Next

(* Nothing writes the condition while a branch is being built, and nothing *)
(* writes the items while the list's effect runs.                          *)
LEMMA WritesApart ==
  ASSUME IInv, PInv, Habits = {}, NoWriter(stack, async)
  PROVE  /\ WriteShown => Calls(stack, "branch") = {}
         /\ WriteItems => Calls(stack, "list") = {}
<1>1. IsStack(stack) /\ ShapeIn(stack, async) /\ async \in BOOLEAN
  BY Shape
<1>2. ASSUME WriteItems
      PROVE  Calls(stack, "list") = {}
  BY <1>1, <1>2, WriterClear DEF ClearIn, WriteItems
<1>3. ASSUME WriteShown
      PROVE  Calls(stack, "branch") = {}
  <2>1. \/ stack # <<>> /\ Last(stack).op = "handler"
        \/ ~Calling("branch")
    BY <1>3 DEF WriteShown, WritesShown, In, Top
  <2>2. CASE ~Calling("branch")
    BY <2>2 DEF Calling, Calls
  <2>3. CASE stack # <<>> /\ Last(stack).op = "handler"
    <3>1. CASE async
      <4>1. FramesOf(stack, "handler") # {}
        BY <1>1, <2>3, OfPop
      <4> QED
        BY <3>1, <4>1 DEF NoWriter, Building
    <3>2. CASE ~async
      <4>1. Len(stack) \in Calls(stack, "handler")
        BY <1>1, <2>3, OnTop DEF Calls
      <4>2. Len(stack) = 1
        BY <1>1, <3>2, <4>1 DEF ShapeIn
      <4> QED
        BY <1>1, <2>3, <4>2, Bottom
    <3> QED
      BY <1>1, <3>1, <3>2
  <2> QED
    BY <2>1, <2>2, <2>3
<1> QED
  BY <1>2, <1>3
-----------------------------------------------------------------------------
(* The frames of the branch and of the list, step by step                  *)

Plain == \/ Mount \/ Event \/ Batch \/ Microtask
         \/ HandlerDone \/ NotifyDone \/ CallbackDone \/ FlushDone
         \/ FlushTake \/ FlushCallback \/ WriteItems \/ WriteShown \/ RunSync \/ FlushWatch
         \/ FlushSkip \/ FlushRow \/ Unmount

LEMMA PlainFrames ==
  ASSUME IInv, PInv, Plain, NEW op \in Framed
  PROVE  FramesOf(stack', op) = FramesOf(stack, op)
<1>1. IsStack(stack) /\ op \notin {"flush", "handler", "notify", "callback"}
  BY Shape DEF Framed
<1>2. CASE Mount \/ FlushSkip \/ FlushRow \/ Unmount
  BY <1>2 DEF Mount, FlushSkip, FlushRow, Unmount
<1>3. CASE Event \/ Microtask
  <2>1. PICK f : f.op # op /\ stack' = <<f>> /\ stack = <<>>
    BY <1>1, <1>3 DEF Event, Microtask, AtRest, HandlerFrame, FlushFrame
  <2>2. stack' = Append(stack, f) /\ f.op # op
    BY <2>1
  <2> QED
    BY <1>1, <2>2, OfPush
<1>4. CASE Batch \/ WriteItems \/ WriteShown
  <2>1. PICK f : f.op # op /\ stack' = Append(stack, f)
    BY <1>1, <1>4 DEF Batch, WriteItems, WriteShown, Write, Show, HandlerFrame, NotifyFrame
  <2> QED
    BY <1>1, <2>1, OfPush
<1>5. CASE HandlerDone \/ NotifyDone \/ CallbackDone \/ FlushDone
  <2>1. /\ stack # <<>> /\ Last(stack).op # op
        /\ \/ stack' = Front(stack)
           \/ ScheduleOrFlush(Front(stack)) \/ MaybeFlush(Front(stack))
    BY <1>1, <1>5 DEF HandlerDone, NotifyDone, CallbackDone, FlushDone, In, Top, Rest
  <2>2. IsStack(Front(stack)) /\ FramesOf(Front(stack), op) = FramesOf(stack, op)
    BY <1>1, <2>1, OfPop
  <2> QED
    BY <1>1, <2>1, <2>2, OfFlush
<1>6. CASE FlushTake
  <2> DEFINE f == [FlushFrame EXCEPT !.cbs = post]
  <2>1. stack # <<>> /\ Last(stack).op # op /\ stack' = Append(Front(stack), f) /\ f.op # op
    BY <1>1, <1>6 DEF FlushTake, In, Top, Resume, Rest, FlushFrame
  <2> HIDE DEF f
  <2>2. IsStack(Front(stack)) /\ FramesOf(Front(stack), op) = FramesOf(stack, op)
    BY <1>1, <2>1, OfPop
  <2> QED
    BY <2>1, <2>2, OfPush
<1>7. CASE FlushCallback
  <2> DEFINE f == [FlushFrame EXCEPT !.cbs = Tail(Last(stack).cbs)]
             g == CallbackFrame(Head(Last(stack).cbs), "flush")
             t == Append(Front(stack), f)
  <2>1. /\ stack # <<>> /\ Last(stack).op # op /\ stack' = Append(t, g)
        /\ f.op # op /\ g.op # op
    BY <1>1, <1>7 DEF FlushCallback, In, Top, Resume, Rest, FlushFrame, CallbackFrame
  <2> HIDE DEF f, g
  <2>2. IsStack(Front(stack)) /\ FramesOf(Front(stack), op) = FramesOf(stack, op)
    BY <1>1, <2>1, OfPop
  <2>3. IsStack(t)
    BY ONLY <2>2, PushFrame
  <2>4. FramesOf(t, op) = FramesOf(stack, op)
    BY <2>1, <2>2, OfPush
  <2> HIDE DEF t
  <2> QED
    BY <2>1, <2>3, <2>4, OfPush
<1>8. CASE RunSync
  <2> DEFINE f == NotifyFrame(FALSE)
             t == Append(Front(stack), f)
  <2>1. stack # <<>> /\ Last(stack).op # op /\ RunWatch(t) /\ f.op # op
    BY <1>1, <1>8 DEF RunSync, In, Top, Resume, Rest, NotifyFrame
  <2> HIDE DEF f
  <2>2. IsStack(Front(stack)) /\ FramesOf(Front(stack), op) = FramesOf(stack, op)
    BY <1>1, <2>1, OfPop
  <2>3. IsStack(t)
    BY ONLY <2>2, PushFrame
  <2>4. FramesOf(t, op) = FramesOf(stack, op)
    BY <2>1, <2>2, OfPush
  <2> HIDE DEF t
  <2> QED
    BY <1>1, <2>1, <2>3, <2>4, OfWatch
<1>9. CASE FlushWatch
  BY <1>1, <1>9, OfWatch DEF FlushWatch
<1> QED
  BY <1>2, <1>3, <1>4, <1>5, <1>6, <1>7, <1>8, <1>9 DEF Plain

LEMMA WatchFramesMade ==
  ASSUME IInv, PInv, MakeWatch
  PROVE  /\ FramesOf(stack', "list") = FramesOf(stack, "list")
         /\ \E f \in FramesOf(stack', "branch") : f.step # "insert"
<1> DEFINE f == BranchFrame("list")
           t == Append(Front(stack), f)
<1>1. /\ IsStack(stack) /\ stack # <<>> /\ Last(stack).op = "branch" /\ RunWatch(t)
      /\ f.op = "branch" /\ f.step = "list"
  BY Shape DEF MakeWatch, Step, In, Top, Resume, Rest, BranchFrame
<1> HIDE DEF f
<1>2. IsStack(Front(stack)) /\ FramesOf(Front(stack), "list") = FramesOf(stack, "list")
  BY <1>1, OfPop
<1>3. IsStack(t)
  BY ONLY <1>2, PushFrame
<1>4. FramesOf(t, "list") = FramesOf(stack, "list") /\ f \in FramesOf(t, "branch")
  BY <1>1, <1>2, OfPush
<1> HIDE DEF t
<1>5. FramesOf(stack', "list") = FramesOf(t, "list") /\ FramesOf(stack', "branch") = FramesOf(t, "branch")
  BY <1>1, <1>3, OfWatch
<1> QED
  BY <1>1, <1>4, <1>5

LEMMA ListFrames ==
  ASSUME IInv, PInv, MakeList \/ FlushList
  PROVE  /\ FramesOf(stack', "list") = FramesOf(stack, "list") \cup {MadeFrame}
         /\ FramesOf(stack', "branch") = {} <=> FramesOf(stack, "branch") = {}
         /\ FlushList => FramesOf(stack', "branch") = FramesOf(stack, "branch")
<1>1. IsStack(stack) /\ stack # <<>>
  BY Shape DEF MakeList, FlushList, Step, Flushing, In
<1>2. CASE MakeList
  <2> DEFINE f == BranchFrame("insert")
             t == Append(Front(stack), f)
  <2>1. Last(stack).op = "branch" /\ f.op = "branch" /\ Reconcile(t, pending)
    BY <1>2 DEF MakeList, Step, In, Top, Resume, Rest, BranchFrame
  <2>2. ~FlushList
    BY <2>1 DEF FlushList, Flushing, In, Top
  <2> HIDE DEF f
  <2>3. IsStack(Front(stack)) /\ FramesOf(Front(stack), "list") = FramesOf(stack, "list")
        /\ Last(stack) \in FramesOf(stack, "branch")
    BY <1>1, <2>1, OfPop
  <2>4. IsStack(t)
    BY ONLY <2>3, PushFrame
  <2>5. FramesOf(t, "list") = FramesOf(stack, "list") /\ f \in FramesOf(t, "branch")
    BY <2>1, <2>3, OfPush
  <2> HIDE DEF t
  <2>6. FramesOf(stack', "list") = FramesOf(t, "list") \cup {MadeFrame}
        /\ FramesOf(stack', "branch") = FramesOf(t, "branch")
    BY <2>1, <2>4, OfList
  <2> QED
    BY <2>2, <2>3, <2>5, <2>6
<1>3. CASE FlushList
  BY <1>1, <1>3, OfList DEF FlushList
<1> QED
  BY <1>2, <1>3

LEMMA EndFrames ==
  ASSUME IInv, PInv, Place \/ InsertBranch
  PROVE  /\ Place => /\ FramesOf(stack, "list") = {Last(stack)} /\ FramesOf(stack', "list") = {}
                     /\ FramesOf(stack', "branch") = FramesOf(stack, "branch")
         /\ InsertBranch => /\ FramesOf(stack, "branch") = {Last(stack)} /\ FramesOf(stack', "branch") = {}
                            /\ FramesOf(stack', "list") = FramesOf(stack, "list")
<1>1. /\ IsStack(stack) /\ stack # <<>> /\ stack' = Front(stack)
      /\ Single(Calls(stack, "list")) /\ Single(Calls(stack, "branch"))
  BY Shape, Invariant DEF Core, OnceIn, Framed, PInv, Place, InsertBranch, Step, In, Rest
<1>2. ASSUME Place
      PROVE  /\ FramesOf(stack, "list") = {Last(stack)} /\ FramesOf(stack', "list") = {}
             /\ FramesOf(stack', "branch") = FramesOf(stack, "branch")
  <2>1. Last(stack).op = "list"
    BY <1>2 DEF Place, In, Top
  <2> QED
    BY <1>1, <2>1, OfPop
<1>3. ASSUME InsertBranch
      PROVE  /\ FramesOf(stack, "branch") = {Last(stack)} /\ FramesOf(stack', "branch") = {}
             /\ FramesOf(stack', "list") = FramesOf(stack, "list")
  <2>1. Last(stack).op = "branch"
    BY <1>3 DEF InsertBranch, Step, In, Top
  <2> QED
    BY <1>1, <2>1, OfPop
<1> QED
  BY <1>2, <1>3

LEMMA BranchFrames ==
  ASSUME IInv, PInv, Create \/ FlushBranch
  PROVE  /\ SameBranch(stack, pending') => stack' = stack
         /\ FramesOf(stack', "list") = FramesOf(stack, "list")
         /\ shown # choice =>
              FramesOf(stack', "branch") = FramesOf(stack, "branch") \cup
                                            {BranchFrame(IF shown = 1 THEN "watch" ELSE "insert")}
<1>1. IsStack(stack)
  BY Shape
<1>2. PICK q : RunBranch(stack, q)
  BY DEF Create, AtRest, FlushBranch
<1>3. CASE SameBranch(stack, q)
  BY <1>3 DEF SameBranch
<1>4. CASE SwapBranch(stack, q)
  <2>1. PICK f : /\ f = BranchFrame(IF shown = 1 THEN "watch" ELSE "insert")
                 /\ stack' = Append(stack, f)
    BY <1>4 DEF SwapBranch
  <2>2. f.op = "branch"
    BY <2>1 DEF BranchFrame
  <2> QED
    BY <1>1, <1>4, <2>1, <2>2, OfPush DEF SameBranch, SwapBranch
<1> QED
  BY <1>2, <1>3, <1>4 DEF RunBranch

(* The list's effect runs once at a time.                                  *)
LEMMA ListIdle ==
  ASSUME IInv, PInv, MakeList \/ FlushList
  PROVE  /\ FramesOf(stack, "list") = {} /\ DOMAIN row = Range(store) /\ "list" \in alive'
         /\ MakeList => "list" \notin alive
<1>1. /\ IsStack(stack) /\ stack # <<>> /\ Core(stack, pending, alive, dirty, DOMAIN row, store)
  BY Shape DEF MakeList, FlushList, Step, Flushing, In
<1>2. CASE MakeList
  <2>1. Last(stack).op = "branch" /\ Last(stack).step = "list" /\ "list" \in alive'
    BY <1>2 DEF MakeList, Step, In, Top
  <2>2. ~FlushList
    BY <2>1 DEF FlushList, Flushing, In, Top
  <2>3. Len(stack) \in Calls(stack, "branch") /\ stack[Len(stack)].step # "insert"
    BY <1>1, <2>1, OnTop DEF Calls
  <2>4. "list" \notin alive /\ Calls(stack, "list") = {} /\ DOMAIN row = Range(store)
    BY <1>1, <2>3 DEF Core, BuildingIn, RowsIn
  <2> QED
    BY <2>1, <2>4, OfEmpty
<1>3. CASE FlushList
  <2>1. /\ Last(stack).op = "flush" /\ pending # <<>> /\ Head(pending) = "list" /\ alive' = alive
    BY <1>3 DEF FlushList, Flushing, In, Top, Due
  <2>2. ~MakeList
    BY <2>1 DEF MakeList, Step, In, Top
  <2>3. Head(pending) \in Framed
    BY <2>1 DEF Framed
  <2>4. Calls(stack, Head(pending)) = {} /\ Head(pending) \in alive
    BY <1>1, <2>1, <2>3, Dequeue
  <2>5. Calls(stack, "list") = {} /\ DOMAIN row = Range(store) /\ "list" \in alive
    BY <1>1, <2>1, <2>4 DEF Core, RowsIn
  <2> QED
    BY <2>1, <2>2, <2>5, OfEmpty
<1> QED
  BY <1>2, <1>3
-----------------------------------------------------------------------------
(* What is marked, the watcher apart, is queued or runs                    *)

MarkIn(s, q, marked) ==
  \A e \in marked \ {"watch"} : Places(q, e) # {} \/ (e \in Framed /\ FramesOf(s, e) # {})

LEMMA ForgetKeeps ==
  ASSUME NEW q, NEW gone, NEW e, e \notin gone, Places(q, e) # {}
  PROVE  Places(Forget(q, gone), e) # {}
<1>1. PICK i \in DOMAIN q : q[i] = e
  BY DEF Places
<1>2. DOMAIN Forget(q, gone) = DOMAIN q /\ Forget(q, gone)[i] = e
  BY <1>1 DEF Forget
<1> QED
  BY <1>2 DEF Places

LEMMA ConcatPlaces ==
  ASSUME NEW q \in Seq(EffectIds), NEW w \in Seq(EffectIds), NEW e,
         Places(q, e) # {} \/ Places(w, e) # {}
  PROVE  Places(q \o w, e) # {}
<1> DEFINE p == q \o w
<1>1. /\ Len(q) \in Nat /\ Len(w) \in Nat /\ DOMAIN q = 1 .. Len(q) /\ DOMAIN w = 1 .. Len(w)
      /\ DOMAIN p = 1 .. Len(q) + Len(w)
      /\ \A i \in 1 .. Len(q) + Len(w) : p[i] = IF i <= Len(q) THEN q[i] ELSE w[i - Len(q)]
  <2>1. /\ p \in Seq(EffectIds) /\ Len(p) = Len(q) + Len(w)
        /\ \A i \in 1 .. Len(q) + Len(w) : p[i] = IF i <= Len(q) THEN q[i] ELSE w[i - Len(q)]
    BY ConcatProperties
  <2> HIDE DEF p
  <2> QED
    BY <2>1, LenProperties
<1> HIDE DEF p
<1>2. CASE Places(q, e) # {}
  <2>1. PICK i \in DOMAIN q : q[i] = e
    BY <1>2 DEF Places
  <2>2. i \in DOMAIN p /\ p[i] = e
    BY <1>1, <2>1
  <2> QED
    BY <2>2 DEF Places, p
<1>3. CASE Places(w, e) # {}
  <2>1. PICK i \in DOMAIN w : w[i] = e
    BY <1>3 DEF Places
  <2>2. Len(q) + i \in DOMAIN p /\ p[Len(q) + i] = w[i]
    BY <1>1, <2>1
  <2> QED
    BY <2>1, <2>2 DEF Places, p
<1> QED
  BY <1>2, <1>3

LEMMA MarkKeeps ==
  ASSUME NEW s, NEW q, NEW marked, MarkIn(s, q, marked), NEW t, NEW p, NEW marked2,
         \A e \in marked2 \ {"watch"} :
           \/ Places(p, e) # {}
           \/ e \in Framed /\ FramesOf(t, e) # {}
           \/ e \in marked /\ (Places(q, e) # {} => Places(p, e) # {})
                           /\ (e \in Framed /\ FramesOf(s, e) # {} => FramesOf(t, e) # {})
  PROVE  MarkIn(t, p, marked2)
  BY DEF MarkIn

LEMMA MarkStill ==
  ASSUME MarkIn(stack, pending, dirty),
         \A op \in Framed : FramesOf(stack', op) = FramesOf(stack, op),
         \A e \in dirty' \ {"watch"} :
           Places(pending', e) # {}
             \/ (e \in dirty /\ (Places(pending, e) # {} => Places(pending', e) # {}))
  PROVE  MarkIn(stack', pending', dirty')
  BY DEF MarkIn

LEMMA PlainMarks ==
  ASSUME IInv, PInv, TypeI, MarkIn(stack, pending, dirty), Plain
  PROVE  MarkIn(stack', pending', dirty')
<1>0. MarkIn(stack, pending, dirty)
  OBVIOUS
<1>1. /\ \A op \in Framed : FramesOf(stack', op) = FramesOf(stack, op)
      /\ pending \in Seq(EffectIds)
  BY PlainFrames DEF TypeI, QueuesOK
<1>2. CASE \/ Mount \/ Event \/ Batch \/ Microtask \/ HandlerDone \/ NotifyDone
           \/ CallbackDone \/ FlushDone \/ FlushTake \/ FlushCallback \/ RunSync
  <2>1. pending' = pending /\ dirty' \ {"watch"} \subseteq dirty
    BY <1>2 DEF Mount, Event, Batch, Microtask, HandlerDone, NotifyDone, CallbackDone, FlushDone,
                FlushTake, FlushCallback, RunSync, RunWatch, queues
  <2>2. \A e \in dirty' \ {"watch"} : e \in dirty /\ (Places(pending, e) # {} => Places(pending', e) # {})
    BY <2>1
  <2> QED
    BY ONLY <1>0, <1>1, <2>2, MarkStill
<1>3. CASE FlushSkip \/ FlushRow \/ FlushWatch
  <2>1. /\ pending # <<>> /\ pending' = Tail(pending)
        /\ \A e \in dirty' \ {"watch"} : e \in dirty /\ Head(pending) # e
    BY <1>3 DEF FlushSkip, FlushRow, FlushWatch, Flushing, Due, RunWatch
  <2>2. \A e \in dirty' \ {"watch"} : Places(pending, e) # {} => Places(pending', e) # {}
    BY <1>1, <2>1, TailKeeps
  <2> QED
    BY ONLY <1>0, <1>1, <2>1, <2>2, MarkStill
<1>4. CASE Unmount
  <2>1. PICK gone : pending' = Forget(pending, gone) /\ dirty' = (dirty \cup {"branch"}) \ gone /\ "branch" \in gone
    BY <1>4 DEF Unmount, DisposeBranch
  <2>2. \A e \in dirty' : e \in dirty /\ (Places(pending, e) # {} => Places(pending', e) # {})
    BY <2>1, ForgetKeeps
  <2> QED
    BY ONLY <1>0, <1>1, <2>2, MarkStill
<1>5. CASE WriteItems
  <2>1. /\ pending' = pending \o Queued("watch") \o Queued("list")
        /\ dirty' = dirty \cup (alive \cap {"watch", "list"})
    BY <1>5 DEF WriteItems, Write
  <2>2. /\ Queued("watch") \in Seq(EffectIds) /\ Queued("list") \in Seq(EffectIds)
        /\ "list" \in alive \ dirty => Queued("list") = <<"list">>
    BY QueuedOne DEF IsSync
  <2>3. PICK q : q = pending \o Queued("watch") /\ pending' = q \o Queued("list")
    BY <2>1
  <2>4. q \in Seq(EffectIds) /\ \A e : Places(pending, e) # {} => Places(q, e) # {}
    BY <1>1, <2>2, <2>3, QueuedStays, ConcatProperties
  <2>5. \A e : Places(pending, e) # {} => Places(pending', e) # {}
    BY <2>2, <2>3, <2>4, QueuedStays
  <2>6. "list" \in alive \ dirty => Places(pending', "list") # {}
    BY <2>2, <2>3, <2>4, QueuedStays
  <2>7. \A e \in dirty' \ {"watch"} : Places(pending', e) # {} \/ e \in dirty
    BY <2>1, <2>6
  <2> QED
    BY ONLY <1>0, <1>1, <2>5, <2>7, MarkStill
<1>6. CASE WriteShown
  <2>1. /\ pending' = pending \o Queued("branch")
        /\ dirty' = dirty \cup (alive \cap {"branch"})
    BY <1>6 DEF WriteShown, Show
  <2>2. /\ Queued("branch") \in Seq(EffectIds)
        /\ "branch" \in alive \ dirty => Queued("branch") = <<"branch">>
    BY QueuedOne DEF IsSync
  <2>3. \A e : Places(pending, e) # {} => Places(pending', e) # {}
    BY <1>1, <2>1, <2>2, QueuedStays
  <2>4. "branch" \in alive \ dirty => Places(pending', "branch") # {}
    BY <1>1, <2>1, <2>2, QueuedStays
  <2>5. \A e \in dirty' \ {"watch"} : Places(pending', e) # {} \/ e \in dirty
    BY <2>1, <2>4
  <2> QED
    BY ONLY <1>0, <1>1, <2>3, <2>5, MarkStill
<1> QED
  BY <1>2, <1>3, <1>4, <1>5, <1>6 DEF Plain

LEMMA RestMarks ==
  ASSUME IInv, PInv, TypeI, MarkIn(stack, pending, dirty), MakeWatch \/ Place \/ InsertBranch
  PROVE  MarkIn(stack', pending', dirty')
<1>1. CASE MakeWatch
  <2>1. pending' = pending /\ dirty' \ {"watch"} \subseteq dirty
    BY <1>1 DEF MakeWatch, RunWatch
  <2>2. FramesOf(stack', "list") = FramesOf(stack, "list") /\ FramesOf(stack', "branch") # {}
    BY <1>1, WatchFramesMade
  <2> QED
    BY <2>1, <2>2, MarkKeeps DEF Framed
<1>2. CASE Place
  <2>1. pending' = pending /\ dirty' = dirty \ {"list"}
    BY <1>2 DEF Place
  <2>2. FramesOf(stack', "branch") = FramesOf(stack, "branch")
    BY <1>2, EndFrames
  <2> QED
    BY <2>1, <2>2, MarkKeeps DEF Framed
<1>3. CASE InsertBranch
  <2>1. pending' = pending /\ dirty' = dirty \ {"branch"}
    BY <1>3 DEF InsertBranch
  <2>2. FramesOf(stack', "list") = FramesOf(stack, "list")
    BY <1>3, EndFrames
  <2> QED
    BY <2>1, <2>2, MarkKeeps DEF Framed
<1> QED
  BY <1>1, <1>2, <1>3

LEMMA BranchMarks ==
  ASSUME IInv, PInv, TypeI, MarkIn(stack, pending, dirty), Create \/ FlushBranch
  PROVE  MarkIn(stack', pending', dirty')
<1>1. PICK q : /\ RunBranch(stack, q)
               /\ \A e \in dirty \ {"branch"} : Places(pending, e) # {} => Places(q, e) # {}
  <2>1. CASE Create
    BY <2>1 DEF Create, AtRest
  <2>2. CASE FlushBranch
    <3>1. pending # <<>> /\ Head(pending) = "branch" /\ pending \in Seq(EffectIds)
      BY <2>2 DEF FlushBranch, Flushing, Due, TypeI, QueuesOK
    <3>2. \A e : e # "branch" /\ Places(pending, e) # {} => Places(Tail(pending), e) # {}
      BY <3>1, TailKeeps
    <3> QED
      BY <2>2, <3>2 DEF FlushBranch
  <2> QED
    BY <2>1, <2>2
<1>2. FramesOf(stack', "list") = FramesOf(stack, "list")
  BY BranchFrames
<1>3. CASE SameBranch(stack, q)
  <2>1. pending' = q /\ dirty' = dirty \ {"branch"}
    BY <1>3 DEF SameBranch
  <2> QED
    BY <1>1, <1>2, <2>1, MarkKeeps DEF Framed
<1>4. CASE SwapBranch(stack, q)
  <2>1. PICK gone : pending' = Forget(q, gone) /\ dirty' = (dirty \cup {"branch"}) \ gone
    BY <1>4 DEF SwapBranch, DisposeBranch
  <2>2. FramesOf(stack', "branch") # {}
    BY <1>4, BranchFrames DEF SwapBranch
  <2>3. \A e \in dirty' \ {"branch"} : e \in dirty /\ (Places(pending, e) # {} => Places(pending', e) # {})
    BY <1>1, <2>1, ForgetKeeps
  <2> QED
    BY <1>2, <2>2, <2>3, MarkKeeps DEF Framed
<1> QED
  BY <1>1, <1>3, <1>4 DEF RunBranch

LEMMA ListMarks ==
  ASSUME IInv, PInv, TypeI, MarkIn(stack, pending, dirty), MakeList \/ FlushList
  PROVE  MarkIn(stack', pending', dirty')
<1>1. PICK s, q : /\ Reconcile(s, q) /\ q \in Seq(EffectIds)
                  /\ \A e \in dirty \ {"list"} : Places(pending, e) # {} => Places(q, e) # {}
  <2>1. CASE MakeList
    BY <2>1 DEF MakeList, TypeI, QueuesOK
  <2>2. CASE FlushList
    <3>1. pending # <<>> /\ Head(pending) = "list" /\ pending \in Seq(EffectIds)
      BY <2>2 DEF FlushList, Flushing, Due, TypeI, QueuesOK
    <3>2. \A e : e # "list" /\ Places(pending, e) # {} => Places(Tail(pending), e) # {}
      BY <3>1, TailKeeps
    <3>3. Tail(pending) \in Seq(EffectIds)
      BY <3>1, HeadTailProperties
    <3> QED
      BY <2>2, <3>2, <3>3 DEF FlushList
  <2> QED
    BY <2>1, <2>2
<1>2. /\ pending' = Forget(q, GoneRows) \o SetToSeq(StaleRows \ dirty)
      /\ dirty' = (dirty \ GoneRows) \cup StaleRows \cup {"list"}
  BY <1>1, ReconcileIs
<1>3. /\ FramesOf(stack', "list") # {}
      /\ FramesOf(stack', "branch") = {} <=> FramesOf(stack, "branch") = {}
  BY ListFrames
<1>4. Forget(q, GoneRows) \in Seq(EffectIds)
  BY <1>1, Forgotten
<1>5. SetToSeq(StaleRows \ dirty) \in Seq(EffectIds) /\ ToSet(SetToSeq(StaleRows \ dirty)) = StaleRows \ dirty
  <2>1. StaleRows \ dirty \subseteq RowIds
    BY DEF StaleRows, TypeI, RowsOK
  <2>2. IsFiniteSet(StaleRows \ dirty)
    BY <2>1, FS_Subset, ViewAssumption
  <2>3. SetToSeq(StaleRows \ dirty) \in Seq(StaleRows \ dirty) /\ ToSet(SetToSeq(StaleRows \ dirty)) = StaleRows \ dirty
    BY <2>2, SetInOrder
  <2> QED
    BY <2>1, <2>3, SeqMonotonic DEF EffectIds
<1>6. \A e \in StaleRows \ dirty : Places(SetToSeq(StaleRows \ dirty), e) # {}
  BY <1>5 DEF ToSet, Places
<1>7. \A e \in StaleRows \ dirty : Places(pending', e) # {}
  BY <1>2, <1>4, <1>5, <1>6, ConcatPlaces
<1>8. \A e \in (dirty \ GoneRows) \ {"list"} : Places(pending, e) # {} => Places(pending', e) # {}
  <2> TAKE e \in (dirty \ GoneRows) \ {"list"}
  <2> HAVE Places(pending, e) # {}
  <2>1. Places(Forget(q, GoneRows), e) # {}
    BY <1>1, ForgetKeeps
  <2> QED
    BY <1>2, <1>4, <1>5, <2>1, ConcatPlaces
<1>9. \A e \in dirty' : \/ e = "list" \/ e \in StaleRows \ dirty \/ e \in (dirty \ GoneRows) \ {"list"}
                        \/ e \in dirty /\ e \in StaleRows
  BY <1>2
<1>10. StaleRows \cap GoneRows = {} /\ "list" \notin StaleRows
  <2>1. StaleRows \subseteq Range(RowOf(items)) /\ StaleRows \subseteq RowIds
    BY DEF StaleRows, TypeI, RowsOK
  <2>2. items \in Lists /\ NamesLeft(DOMAIN row) /\ DOMAIN row = Range(store)
    BY Shape, ListIdle
  <2>3. Range(MadeResult) = Range(RowOf(items))
    BY <2>2, MadeFacts
  <2> QED
    BY <2>1, <2>3, ViewAssumption DEF GoneRows, Effects
<1> QED
  BY <1>3, <1>7, <1>8, <1>9, <1>10, MarkKeeps DEF Framed

LEMMA NextMarks ==
  ASSUME IInv, PInv, TypeI, MarkIn(stack, pending, dirty), [Next]_vars
  PROVE  MarkIn(stack', pending', dirty')
<1>1. CASE UNCHANGED vars
  <2>1. stack' = stack /\ pending' = pending /\ dirty' = dirty
    BY <1>1 DEF vars, queues
  <2> QED
    BY <2>1
<1> QED
  BY <1>1, PlainMarks, RestMarks, BranchMarks, ListMarks DEF Next, Plain
-----------------------------------------------------------------------------
(* A row shows its item and its index, or is marked                        *)

TextsIn(rows, marked) ==
  \A r \in DOMAIN rows : rows[r].text = RowText(rows[r].item, rows[r].index) \/ r \in marked

LEMMA TextsStay ==
  ASSUME TextsIn(row, dirty), DOMAIN row' \subseteq DOMAIN row, \A r \in DOMAIN row' : row'[r] = row[r],
         dirty \cap DOMAIN row' \subseteq dirty'
  PROVE  TextsIn(row', dirty')
  BY DEF TextsIn

LEMMA EditedText ==
  ASSUME NEW r, RowOK(r), NEW x
  PROVE  LET e == [r EXCEPT !.text = x] IN e.text = x /\ e.item = r.item /\ e.index = r.index
<1>1. PICK a, b, c : r = [item |-> a, index |-> b, text |-> c]
  BY DEF RowOK
<1> QED
  BY <1>1

LEMMA DisposedTexts ==
  ASSUME TextsIn(row, dirty), RowsOK, NEW q, NEW effects \in {{}, {"branch"}}, DisposeBranch(q, effects)
  PROVE  TextsIn(row', dirty')
<1>1. /\ dirty' = (dirty \cup {"branch"}) \ ({"watch", "list"} \cup effects \cup RowsLeft)
      /\ row' = [r \in DOMAIN row \ RowsLeft |-> row[r]]
  BY DEF DisposeBranch
<1>2. \A r \in DOMAIN row : r \notin {"watch", "list", "branch"}
  BY ViewAssumption DEF RowsOK, Effects
<1>3. DOMAIN row' = DOMAIN row \ RowsLeft /\ \A r \in DOMAIN row' : row'[r] = row[r]
  BY <1>1
<1>4. dirty \cap DOMAIN row' \subseteq dirty'
  BY <1>1, <1>2, <1>3
<1> QED
  BY <1>3, <1>4, TextsStay

LEMMA RowShown ==
  ASSUME TypeI, TextsIn(row, dirty), FlushRow
  PROVE  TextsIn(row', dirty')
<1>1. PICK d : /\ d \in dirty \cap RowIds /\ dirty' = dirty \ {d}
               /\ row' = [row EXCEPT ![d].text = RowText(row[d].item, row[d].index)]
  BY DEF FlushRow
<1>2. d \in DOMAIN row /\ \A r \in DOMAIN row : RowOK(row[r])
  BY <1>1, ViewAssumption DEF TypeI, LiveOK, RowsOK, Effects
<1>3. /\ DOMAIN row' = DOMAIN row /\ \A r \in DOMAIN row \ {d} : row'[r] = row[r]
      /\ row'[d] = [row[d] EXCEPT !.text = RowText(row[d].item, row[d].index)]
  BY <1>1, <1>2
<1>4. row'[d].text = RowText(row'[d].item, row'[d].index)
  BY <1>2, <1>3, EditedText
<1>5. \A r \in DOMAIN row' \ {d} : row'[r].text = RowText(row'[r].item, row'[r].index) \/ r \in dirty'
  BY <1>1, <1>3 DEF TextsIn
<1> QED
  BY <1>4, <1>5 DEF TextsIn

LEMMA MadeTexts ==
  ASSUME NEW s, NEW q, Reconcile(s, q), TextsIn(row, dirty), RowsOK,
         items \in Lists, NamesLeft(DOMAIN row), DOMAIN row = Range(store)
  PROVE  TextsIn(row', dirty')
<1>1. /\ row' = [r \in (DOMAIN row \ GoneRows) \cup Range(RowOf(items)) |->
                      IF r \notin Range(RowOf(items)) THEN row[r]
                      ELSE IF r \in Range(store) THEN KeptRow(r) ELSE NewRow(r)]
      /\ dirty' = (dirty \ GoneRows) \cup StaleRows \cup {"list"}
  BY ReconcileIs
<1>2. Range(MadeResult) = Range(RowOf(items))
  BY MadeFacts
<1> SUFFICES ASSUME NEW r \in DOMAIN row'
             PROVE  row'[r].text = RowText(row'[r].item, row'[r].index) \/ r \in dirty'
  BY DEF TextsIn
<1>3. CASE r \notin Range(RowOf(items))
  <2>1. row'[r] = row[r] /\ r \in DOMAIN row \ GoneRows
    BY <1>1, <1>3
  <2> QED
    BY <1>1, <2>1 DEF TextsIn
<1>4. CASE r \in Range(RowOf(items)) /\ r \in Range(store)
  <2>1. row'[r] = KeptRow(r) /\ r \notin GoneRows
    BY <1>1, <1>2, <1>4 DEF GoneRows
  <2>2. CASE row[r] # KeptRow(r)
    BY <1>1, <1>4, <2>2 DEF StaleRows
  <2>3. CASE row[r] = KeptRow(r)
    BY <1>1, <1>4, <2>1, <2>3 DEF TextsIn
  <2> QED
    BY <2>2, <2>3
<1>5. CASE r \in Range(RowOf(items)) /\ r \notin Range(store)
  <2>1. row'[r] = NewRow(r)
    BY <1>1, <1>5
  <2> QED
    BY <2>1 DEF NewRow
<1> QED
  BY <1>3, <1>4, <1>5

LEMMA NextTexts ==
  ASSUME IInv, PInv, TypeI, TextsIn(row, dirty), [Next]_vars
  PROVE  TextsIn(row', dirty')
<1>1. /\ items \in Lists /\ NamesLeft(DOMAIN row) /\ RowsOK
      /\ \A r \in DOMAIN row : r \notin {"watch", "list", "branch"}
  BY Shape, ViewAssumption DEF TypeI, RowsOK, Effects
<1>2. CASE FlushRow
  BY <1>2, RowShown
<1>3. CASE MakeList \/ FlushList
  <2>1. PICK s, q : Reconcile(s, q)
    BY <1>3 DEF MakeList, FlushList
  <2>2. DOMAIN row = Range(store)
    BY <1>3, ListIdle
  <2> QED
    BY <1>1, <2>1, <2>2, MadeTexts
<1>4. CASE \E q : SwapBranch(stack, q)
  BY <1>1, <1>4, DisposedTexts DEF SwapBranch
<1>5. CASE Unmount
  BY <1>1, <1>5, DisposedTexts DEF Unmount
<1>6. CASE \/ Mount \/ Event \/ Batch \/ Microtask \/ HandlerDone \/ NotifyDone
           \/ CallbackDone \/ FlushDone \/ FlushTake \/ FlushCallback \/ RunSync
           \/ WriteItems \/ WriteShown \/ FlushWatch \/ FlushSkip \/ MakeWatch \/ Place \/ InsertBranch
           \/ UNCHANGED vars \/ \E q : SameBranch(stack, q)
  <2>1. row' = row /\ dirty \ {"watch", "list", "branch"} \subseteq dirty'
    BY <1>6 DEF Mount, Event, Batch, Microtask, HandlerDone, NotifyDone, CallbackDone, FlushDone,
                FlushTake, FlushCallback, RunSync, RunWatch, queues, dom, WriteItems, WriteShown,
                Write, Show, FlushWatch, FlushSkip, MakeWatch, Place, InsertBranch, vars, SameBranch
  <2> QED
    BY <1>1, <2>1, TextsStay
<1>7. Create \/ FlushBranch => \E q : SameBranch(stack, q) \/ SwapBranch(stack, q)
  BY DEF Create, AtRest, FlushBranch, RunBranch
<1> QED
  BY <1>2, <1>3, <1>4, <1>5, <1>6, <1>7 DEF Next
-----------------------------------------------------------------------------
(* The branch chosen last, or its effect is queued                         *)

ChoiceIn(ph, c, value, q) == ph = "live" => c = value \/ Places(q, "branch") # {}

LEMMA NextChoice ==
  ASSUME IInv, PInv, TypeI, TInv, Habits = {}, NoWriter(stack, async),
         MarkIn(stack, pending, dirty), ChoiceIn(phase, choice, shown, pending), [Next]_vars
  PROVE  ChoiceIn(phase', choice', shown', pending')
<1>1. /\ ~panicked /\ pending \in Seq(EffectIds) /\ items \in Lists /\ NamesLeft(DOMAIN row)
      /\ Core(stack, pending, alive, dirty, DOMAIN row, store)
  BY Shape
<1>2. CASE \/ Mount \/ Event \/ Batch \/ Microtask \/ HandlerDone \/ NotifyDone
           \/ CallbackDone \/ FlushDone \/ FlushTake \/ FlushCallback \/ RunSync
           \/ MakeWatch \/ Place \/ InsertBranch \/ UNCHANGED vars
  <2>1. phase' = phase /\ choice' = choice /\ shown' = shown /\ pending' = pending
    BY <1>2 DEF Mount, Event, Batch, Microtask, HandlerDone, NotifyDone, CallbackDone, FlushDone,
                FlushTake, FlushCallback, RunSync, queues, dom, MakeWatch, Place, InsertBranch, vars
  <2> QED
    BY <2>1
<1>3. CASE FlushSkip \/ FlushRow \/ FlushWatch
  <2>1. /\ phase' = phase /\ choice' = choice /\ shown' = shown
        /\ pending # <<>> /\ pending' = Tail(pending)
        /\ Head(pending) \notin dirty \/ Head(pending) \in RowIds \/ Head(pending) = "watch"
    BY <1>3 DEF FlushSkip, FlushRow, FlushWatch, Flushing, Due, dom
  <2>2. Places(pending, "branch") # {} => Head(pending) # "branch"
    BY <1>1, <2>1, ViewAssumption DEF Core, OnceIn, Framed, Effects
  <2>3. Places(pending, "branch") # {} => Places(pending', "branch") # {}
    BY <1>1, <2>1, <2>2, TailKeeps
  <2> QED
    BY <2>1, <2>3 DEF ChoiceIn
<1>4. CASE WriteItems
  <2>1. /\ phase' = phase /\ choice' = choice /\ shown' = shown
        /\ pending' = pending \o Queued("watch") \o Queued("list")
    BY <1>4 DEF WriteItems, Write, dom
  <2>2. Queued("watch") \in Seq(EffectIds) /\ Queued("list") \in Seq(EffectIds)
    BY QueuedOne
  <2>3. Places(pending, "branch") # {} => Places(pending \o Queued("watch"), "branch") # {}
    BY <1>1, <2>2, QueuedStays
  <2>4. pending \o Queued("watch") \in Seq(EffectIds)
    BY <1>1, <2>2, ConcatProperties
  <2>5. Places(pending, "branch") # {} => Places(pending', "branch") # {}
    BY <2>1, <2>2, <2>3, <2>4, QueuedStays
  <2> QED
    BY <2>1, <2>5 DEF ChoiceIn
<1>5. CASE WriteShown
  <2>1. /\ phase' = phase /\ pending' = pending \o Queued("branch")
    BY <1>5 DEF WriteShown, Show
  <2>2. /\ Queued("branch") \in Seq(EffectIds)
        /\ "branch" \in alive \ dirty => Queued("branch") = <<"branch">>
    BY QueuedOne DEF IsSync
  <2>3. FramesOf(stack, "branch") = {}
    BY <1>5, WritesApart, OfEmpty
  <2>4. Places(pending, "branch") # {} \/ "branch" \notin dirty
    BY <2>3 DEF MarkIn
  <2>5. phase = "live" => "branch" \in alive
    BY <1>1 DEF TInv, LiveIn
  <2>6. phase = "live" => Places(pending', "branch") # {}
    BY <1>1, <2>1, <2>2, <2>4, <2>5, QueuedStays
  <2> QED
    BY <2>1, <2>6 DEF ChoiceIn
<1>6. CASE MakeList \/ FlushList
  <2>1. PICK s, q : /\ Reconcile(s, q) /\ q \in Seq(EffectIds)
                    /\ Places(pending, "branch") # {} => Places(q, "branch") # {}
    <3>1. CASE MakeList
      BY <1>1, <3>1 DEF MakeList
    <3>2. CASE FlushList
      <4>1. pending # <<>> /\ Head(pending) = "list" /\ Reconcile(stack, Tail(pending))
        BY <3>2 DEF FlushList, Flushing, Due
      <4>2. Tail(pending) \in Seq(EffectIds)
        BY <1>1, <4>1, HeadTailProperties
      <4>3. Places(pending, "branch") # {} => Places(Tail(pending), "branch") # {}
        BY <1>1, <4>1, TailKeeps
      <4> QED
        BY <4>1, <4>2, <4>3
    <3> QED
      BY <1>6, <3>1, <3>2
  <2>2. phase' = phase /\ choice' = choice /\ shown' = shown
    BY <2>1 DEF Reconcile
  <2>3. DOMAIN row = Range(store)
    BY <1>6, ListIdle
  <2>4. \A e \in Named : Places(pending', e) = Places(q, e)
    BY <1>1, <2>1, <2>3, ReconcileRows
  <2> QED
    BY <2>1, <2>2, <2>4 DEF ChoiceIn, Named, Framed
<1>7. CASE Create \/ FlushBranch
  <2>1. PICK q : RunBranch(stack, q)
    BY <1>7 DEF Create, AtRest, FlushBranch
  <2>2. choice' = shown /\ shown' = shown
    BY <2>1 DEF RunBranch, SameBranch, SwapBranch
  <2> QED
    BY <2>2 DEF ChoiceIn
<1>8. CASE Unmount
  BY <1>8 DEF Unmount, ChoiceIn
<1> QED
  BY <1>2, <1>3, <1>4, <1>5, <1>6, <1>7, <1>8 DEF Next
-----------------------------------------------------------------------------
(* The first branch has its list, or is being built                        *)

Unlisted(s) == \E f \in FramesOf(s, "branch") : f.step # "insert"

ListedIn(s, live, c) == "branch" \in live /\ c = 1 => "list" \in live \/ Unlisted(s)

LEMMA NextListed ==
  ASSUME IInv, PInv, ListedIn(stack, alive, choice), [Next]_vars
  PROVE  ListedIn(stack', alive', choice')
<1>1. CASE Plain
  <2>1. FramesOf(stack', "branch") = FramesOf(stack, "branch")
    BY <1>1, PlainFrames DEF Framed
  <2>2. CASE Unmount
    BY <2>2 DEF Unmount, DisposeBranch, ListedIn
  <2>3. CASE ~Unmount
    <3>1. alive' = alive /\ choice' = choice
      BY <1>1, <2>3 DEF Plain, Mount, Event, Batch, Microtask, HandlerDone, NotifyDone, CallbackDone,
                FlushDone, FlushTake, FlushCallback, RunSync, dom, WriteItems, WriteShown, Write, Show,
                FlushSkip, FlushRow, FlushWatch
    <3> QED
      BY <2>1, <3>1 DEF ListedIn, Unlisted
  <2> QED
    BY <2>2, <2>3
<1>2. CASE MakeWatch
  BY <1>2, WatchFramesMade DEF ListedIn, Unlisted
<1>3. CASE MakeList \/ FlushList
  BY <1>3, ListIdle DEF ListedIn
<1>4. CASE Place
  <2>1. FramesOf(stack', "branch") = FramesOf(stack, "branch") /\ alive' = alive /\ choice' = choice
    BY <1>4, EndFrames DEF Place
  <2> QED
    BY <2>1 DEF ListedIn, Unlisted
<1>5. CASE InsertBranch
  <2>1. FramesOf(stack, "branch") = {Last(stack)} /\ Last(stack).step = "insert" /\ alive' = alive /\ choice' = choice
    BY <1>5, EndFrames DEF InsertBranch, Step, In, Top
  <2> QED
    BY <2>1 DEF ListedIn, Unlisted
<1>6. CASE Create \/ FlushBranch
  <2>1. PICK q : RunBranch(stack, q)
    BY <1>6 DEF Create, AtRest, FlushBranch
  <2>2. CASE SameBranch(stack, q)
    <3>1. stack' = stack /\ alive' = alive /\ choice' = choice
      BY <2>2 DEF SameBranch
    <3> QED
      BY <3>1
  <2>3. CASE SwapBranch(stack, q)
    <3>1. choice' = shown /\ shown # choice
      BY <2>3 DEF SwapBranch
    <3>2. shown = 1 => BranchFrame("watch") \in FramesOf(stack', "branch")
      BY <1>6, <3>1, BranchFrames
    <3>3. BranchFrame("watch").step # "insert"
      BY DEF BranchFrame
    <3> QED
      BY <3>1, <3>2, <3>3 DEF ListedIn, Unlisted
  <2> QED
    BY <2>1, <2>2, <2>3 DEF RunBranch
<1>7. CASE UNCHANGED vars
  <2>1. stack' = stack /\ alive' = alive /\ choice' = choice
    BY <1>7 DEF vars, dom
  <2> QED
    BY <2>1
<1> QED
  BY <1>1, <1>2, <1>3, <1>4, <1>5, <1>6, <1>7 DEF Next, Plain
-----------------------------------------------------------------------------
(* The children of the list                                                *)

(* The list's effect is about to insert the rows of the items g.           *)
Running(f, g, rows, kd) ==
  /\ Rows(g, f.result, rows) /\ f.order = OrderOf(g, f.result) /\ IsInjective(f.order)
  /\ \E l \in Seq(RowIds) : kd = Both(l) /\ Range(l) \subseteq Range(f.order)

(* The list shows the items g: the items now, if it is not queued.         *)
Lists0 == Lists \cup {<<>>}

Holds(g, frames, listed, rows, st, kd, now, queued) ==
  /\ g \in Lists0 /\ (~listed => g = <<>>) /\ (listed => g = now \/ queued)
  /\ frames = {} => Rows(g, st, rows) /\ kd = Both(OrderOf(g, st))
  /\ \A f \in frames : g = now /\ Running(f, g, rows, kd)

KidsIn(frames, live, rows, st, kd, now, queued) ==
  "branch" \in live => \E g \in Lists0 : Holds(g, frames, "list" \in live, rows, st, kd, now, queued)

ListQueued(q) == Places(q, "list") # {}

KidsNow == KidsIn(FramesOf(stack, "list"), alive, row, store, kids, items, ListQueued(pending))

LEMMA NoItems ==
  /\ Both(<<>>) = Empty
  /\ \A st : OrderOf(<<>>, st) = <<>>
  /\ \A rows : Rows(<<>>, <<>>, rows)
<1>1. Both(<<>>) = Empty
  <2>1. Append(<<>>, Anchor) = <<Anchor>>
    OBVIOUS
  <2> QED
    BY <2>1, NodesEmpty DEF Both, Holding, Empty
<1>2. PICK g : g = <<>>
  OBVIOUS
<1>3. g \in Seq({}) /\ DOMAIN g = {}
  BY <1>2
<1>4. Firsts(g) \in Seq(DOMAIN g) /\ Range(Firsts(g)) = {}
  <2>1. Range(Firsts(g)) = {i \in DOMAIN g : FirstOfKey(g, i)}
    BY <1>3, FirstsFacts
  <2> QED
    BY <1>3, <2>1, FirstsFacts
<1>5. Firsts(g) = <<>>
  BY <1>4, NoneLeft
<1>6. \A st : OrderOf(g, st) = <<>>
  <2>1. DOMAIN Firsts(g) = {}
    BY <1>5
  <2> QED
    BY <2>1 DEF OrderOf
<1>7. \A rows : Rows(g, <<>>, rows)
  <2>1. DOMAIN <<>> = {} /\ Keys(g) = {} /\ FirstPlaces(g) = {}
    BY <1>3 DEF Keys, FirstPlaces
  <2> QED
    BY <2>1 DEF Rows, OneToOne
<1> QED
  BY <1>1, <1>2, <1>6, <1>7

LEMMA RowsSame ==
  ASSUME NEW g, NEW st, NEW rows, Rows(g, st, rows), Range(st) \subseteq DOMAIN rows, NEW rows2,
         \A r \in DOMAIN rows : rows2[r].item = rows[r].item /\ rows2[r].index = rows[r].index
  PROVE  Rows(g, st, rows2)
<1>1. \A i \in FirstPlaces(g) : st[g[i].key] \in DOMAIN rows
  BY DEF Rows, FirstPlaces, Keys, Range
<1> QED
  BY <1>1 DEF Rows

LEMMA KidsStay ==
  ASSUME KidsNow, FramesOf(stack', "list") = FramesOf(stack, "list"),
         "branch" \in alive' <=> "branch" \in alive, "list" \in alive' <=> "list" \in alive,
         row' = row, store' = store, kids' = kids, items' = items,
         "list" \in alive /\ ListQueued(pending) => ListQueued(pending')
  PROVE  KidsNow'
<1> SUFFICES ASSUME "branch" \in alive'
             PROVE  \E g \in Lists0 : Holds(g, FramesOf(stack', "list"), "list" \in alive', row', store',
                                            kids', items', ListQueued(pending'))
  BY DEF KidsNow, KidsIn
<1>1. PICK g \in Lists0 : Holds(g, FramesOf(stack, "list"), "list" \in alive, row, store, kids, items,
                                ListQueued(pending))
  BY DEF KidsNow, KidsIn
<1>2. Holds(g, FramesOf(stack', "list"), "list" \in alive', row', store', kids', items', ListQueued(pending'))
  BY <1>1 DEF Holds
<1> QED
  BY <1>2

LEMMA KidsRow ==
  ASSUME IInv, PInv, TypeI, KidsNow, FlushRow
  PROVE  KidsNow'
<1>1. /\ pending # <<>> /\ pending' = Tail(pending) /\ pending \in Seq(EffectIds)
      /\ Head(pending) \in dirty \cap RowIds
      /\ row' = [row EXCEPT ![Head(pending)].text = RowText(row[Head(pending)].item, row[Head(pending)].index)]
      /\ alive' = alive /\ store' = store /\ kids' = kids /\ items' = items
  BY Shape DEF FlushRow, Flushing, Due
<1>2. FramesOf(stack', "list") = FramesOf(stack, "list")
  BY PlainFrames DEF Plain, Framed
<1>3. Head(pending) # "list" /\ Head(pending) \in DOMAIN row /\ \A r \in DOMAIN row : RowOK(row[r])
  BY <1>1, ViewAssumption DEF TypeI, LiveOK, RowsOK, Effects
<1>4. ListQueued(pending) => ListQueued(pending')
  BY <1>1, <1>3, TailKeeps DEF ListQueued
<1>5. \A r \in DOMAIN row : row'[r].item = row[r].item /\ row'[r].index = row[r].index
  <2>1. \A r \in DOMAIN row \ {Head(pending)} : row'[r] = row[r]
    BY <1>1, <1>3
  <2>2. row'[Head(pending)] = [row[Head(pending)] EXCEPT !.text = RowText(row[Head(pending)].item, row[Head(pending)].index)]
    BY <1>1, <1>3
  <2>3. row'[Head(pending)].item = row[Head(pending)].item /\ row'[Head(pending)].index = row[Head(pending)].index
    BY <1>3, <2>2, EditedText
  <2> QED
    BY <2>1, <2>3
<1>6. RowsIn(stack, alive, DOMAIN row, store)
  BY Shape DEF Core
<1>7. ASSUME NEW g, FramesOf(stack, "list") = {}, Rows(g, store, row)
      PROVE  Rows(g, store, row')
  <2>1. DOMAIN row = Range(store)
    BY <1>6, <1>7, OfEmpty DEF RowsIn
  <2> QED
    BY <1>5, <1>7, <2>1, RowsSame
<1>8. ASSUME NEW g, NEW f \in FramesOf(stack, "list"), Running(f, g, row, kids)
      PROVE  Running(f, g, row', kids)
  <2>1. DOMAIN row = Range(f.result)
    BY <1>6 DEF RowsIn, FramesOf
  <2>2. Rows(g, f.result, row)
    BY <1>8 DEF Running
  <2>3. Rows(g, f.result, row')
    BY <1>5, <2>1, <2>2, RowsSame
  <2> QED
    BY <1>8, <2>3 DEF Running
<1> SUFFICES ASSUME "branch" \in alive'
             PROVE  \E g \in Lists0 : Holds(g, FramesOf(stack', "list"), "list" \in alive', row', store',
                                            kids', items', ListQueued(pending'))
  BY DEF KidsNow, KidsIn
<1>9. PICK g \in Lists0 : Holds(g, FramesOf(stack, "list"), "list" \in alive, row, store, kids, items,
                                ListQueued(pending))
  BY <1>1 DEF KidsNow, KidsIn
<1>10. Holds(g, FramesOf(stack', "list"), "list" \in alive', row', store', kids', items', ListQueued(pending'))
  BY <1>1, <1>2, <1>4, <1>7, <1>8, <1>9 DEF Holds
<1> QED
  BY <1>10

LEMMA KidsWrite ==
  ASSUME IInv, PInv, Habits = {}, NoWriter(stack, async), MarkIn(stack, pending, dirty), KidsNow, WriteItems
  PROVE  KidsNow'
<1>1. /\ pending' = pending \o Queued("watch") \o Queued("list") /\ pending \in Seq(EffectIds)
      /\ alive' = alive /\ row' = row /\ store' = store /\ kids' = kids
  BY Shape DEF WriteItems, Write, dom
<1>2. FramesOf(stack', "list") = FramesOf(stack, "list") /\ FramesOf(stack, "list") = {}
  BY PlainFrames, WritesApart, OfEmpty DEF Plain, Framed
<1>3. ASSUME "list" \in alive PROVE ListQueued(pending')
  <2>1. Places(pending, "list") # {} \/ Queued("list") = <<"list">>
    <3>1. CASE "list" \in dirty
      BY <1>2, <3>1 DEF MarkIn
    <3>2. CASE "list" \notin dirty
      BY <1>3, <3>2 DEF Queued, IsSync
    <3> QED
      BY <3>1, <3>2
  <2>2. Queued("watch") \in Seq(EffectIds) /\ Queued("list") \in Seq(EffectIds)
    BY QueuedOne
  <2>3. /\ pending \o Queued("watch") \in Seq(EffectIds)
        /\ Places(pending, "list") # {} => Places(pending \o Queued("watch"), "list") # {}
    BY <1>1, <2>2, QueuedStays, ConcatProperties
  <2>4. PICK q \in Seq(EffectIds) : /\ pending' = q \o Queued("list")
                                    /\ Places(q, "list") # {} \/ Queued("list") = <<"list">>
    BY <1>1, <2>1, <2>3
  <2> QED
    BY <2>2, <2>4, QueuedStays DEF ListQueued
<1> SUFFICES ASSUME "branch" \in alive'
             PROVE  \E g \in Lists0 : Holds(g, FramesOf(stack', "list"), "list" \in alive', row', store',
                                            kids', items', ListQueued(pending'))
  BY DEF KidsNow, KidsIn
<1>4. PICK g \in Lists0 : Holds(g, FramesOf(stack, "list"), "list" \in alive, row, store, kids, items,
                                ListQueued(pending))
  BY <1>1 DEF KidsNow, KidsIn
<1>5. Holds(g, FramesOf(stack', "list"), "list" \in alive', row', store', kids', items', ListQueued(pending'))
  BY <1>1, <1>2, <1>3, <1>4 DEF Holds
<1> QED
  BY <1>5

LEMMA KidsMade ==
  ASSUME IInv, PInv, KidsNow, MakeList \/ FlushList
  PROVE  KidsNow'
<1>1. /\ FramesOf(stack, "list") = {} /\ FramesOf(stack', "list") = {MadeFrame}
      /\ DOMAIN row = Range(store) /\ "list" \in alive'
      /\ items \in Lists /\ NamesLeft(DOMAIN row)
  BY Shape, ListIdle, ListFrames
<1>2. PICK s, q : Reconcile(s, q)
  BY DEF MakeList, FlushList
<1>3. items' = items /\ ("branch" \in alive' <=> "branch" \in alive)
  BY <1>2 DEF Reconcile, MakeList, FlushList
<1> SUFFICES ASSUME "branch" \in alive'
             PROVE  \E g \in Lists0 : Holds(g, FramesOf(stack', "list"), "list" \in alive', row', store',
                                            kids', items', ListQueued(pending'))
  BY DEF KidsNow, KidsIn
<1>4. PICK g \in Lists0 : Rows(g, store, row) /\ kids = Both(OrderOf(g, store))
  BY <1>1, <1>3 DEF KidsNow, KidsIn, Holds
<1>5. g \in Seq(Range(g))
  <2>1. CASE g \in Lists
    BY <2>1, ViewAssumption
  <2>2. CASE g = <<>>
    BY <2>2
  <2> QED
    BY <2>1, <2>2 DEF Lists0
<1>6. /\ Rows(items, MadeResult, row') /\ IsInjective(MadeOrder)
      /\ \E l \in Seq(RowIds) : kids' = Both(l) /\ Range(l) \subseteq Range(MadeOrder)
  BY <1>1, <1>2, <1>4, <1>5, ListMade
<1>7. MadeOrder = OrderOf(items, MadeResult)
  BY <1>1, MadeFacts
<1>8. MadeFrame.order = MadeOrder /\ MadeFrame.result = MadeResult
  BY DEF MadeFrame, ListFrame
<1>9. Running(MadeFrame, items, row', kids')
  BY <1>6, <1>7, <1>8 DEF Running
<1>10. Holds(items, FramesOf(stack', "list"), "list" \in alive', row', store', kids', items', ListQueued(pending'))
  BY <1>1, <1>3, <1>9 DEF Holds, Lists0
<1> QED
  BY <1>1, <1>10 DEF Lists0

LEMMA KidsPlaced ==
  ASSUME IInv, PInv, TypeI, KidsNow, Place
  PROVE  KidsNow'
<1>1. FramesOf(stack, "list") = {Last(stack)} /\ FramesOf(stack', "list") = {}
  BY EndFrames
<1>2. /\ kids' = Inserted(kids, Last(stack).order) /\ store' = Last(stack).result
      /\ row' = row /\ items' = items /\ alive' = alive /\ pending' = pending
      /\ stack # <<>> /\ Last(stack).op = "list"
  BY DEF Place, In, Top, Inserted
<1>3. Last(stack).order \in Seq(RowIds)
  <2>1. FrameOK(Last(stack))
    BY <1>2, Shape, OkPop DEF TypeI
  <2> QED
    BY <1>2, <2>1, FrameParts
<1> SUFFICES ASSUME "branch" \in alive'
             PROVE  \E g \in Lists0 : Holds(g, FramesOf(stack', "list"), "list" \in alive', row', store',
                                            kids', items', ListQueued(pending'))
  BY DEF KidsNow, KidsIn
<1>4. PICK g \in Lists0 : Holds(g, FramesOf(stack, "list"), "list" \in alive, row, store, kids, items,
                                ListQueued(pending))
  BY <1>2 DEF KidsNow, KidsIn
<1>5. g = items /\ Running(Last(stack), g, row, kids)
  BY <1>1, <1>4 DEF Holds
<1>6. PICK l \in Seq(RowIds) : kids = Both(l) /\ Range(l) \subseteq Range(Last(stack).order)
  BY <1>5 DEF Running
<1>7. kids' = Both(Last(stack).order)
  <2>1. IsInjective(Last(stack).order)
    BY <1>5 DEF Running
  <2> QED
    BY <1>2, <1>3, <1>6, <2>1, RowsPlaced
<1>8. Rows(g, store', row') /\ kids' = Both(OrderOf(g, store'))
  BY <1>2, <1>5, <1>7 DEF Running
<1>9. Holds(g, FramesOf(stack', "list"), "list" \in alive', row', store', kids', items', ListQueued(pending'))
  BY <1>1, <1>2, <1>4, <1>5, <1>8 DEF Holds
<1> QED
  BY <1>9

LEMMA KidsBranch ==
  ASSUME IInv, PInv, PInv', KidsNow, Create \/ FlushBranch
  PROVE  KidsNow'
<1>1. PICK q : /\ RunBranch(stack, q)
               /\ ListQueued(pending) => ListQueued(q)
  <2>1. CASE Create
    BY <2>1 DEF Create, AtRest
  <2>2. CASE FlushBranch
    <3>1. pending # <<>> /\ Head(pending) = "branch" /\ pending \in Seq(EffectIds)
      BY <2>2, Shape DEF FlushBranch, Flushing, Due
    <3>2. Places(pending, "list") # {} => Places(Tail(pending), "list") # {}
      BY <3>1, TailKeeps
    <3> QED
      BY <2>2, <3>2 DEF FlushBranch, ListQueued
  <2> QED
    BY <2>1, <2>2
<1>2. FramesOf(stack', "list") = FramesOf(stack, "list")
  BY BranchFrames
<1>3. CASE SameBranch(stack, q)
  <2>1. /\ alive' = alive /\ row' = row /\ store' = store /\ kids' = kids /\ items' = items /\ pending' = q
    BY <1>1, <1>3 DEF RunBranch, SameBranch
  <2> QED
    BY <1>1, <1>2, <2>1, KidsStay
<1>4. CASE SwapBranch(stack, q)
  <2>1. "list" \notin alive' /\ store' = <<>> /\ kids' = Empty
    BY <1>4 DEF SwapBranch, DisposeBranch
  <2>2. FramesOf(stack', "list") = {}
    <3>1. ~Calling("list")
      BY <1>1, <1>4 DEF RunBranch, SwapBranch, PInv
    <3>2. Calls(stack, "list") = {}
      BY <3>1 DEF Calling, Calls
    <3> QED
      BY <1>2, <3>2, OfEmpty
  <2>3. Rows(<<>>, store', row') /\ kids' = Both(OrderOf(<<>>, store'))
    BY <2>1, NoItems
  <2>4. PICK g : g = <<>>
    OBVIOUS
  <2>5. g \in Lists0 /\ Rows(g, store', row') /\ kids' = Both(OrderOf(g, store'))
    BY <2>3, <2>4 DEF Lists0
  <2>6. Holds(g, FramesOf(stack', "list"), "list" \in alive', row', store', kids', items', ListQueued(pending'))
    BY <2>1, <2>2, <2>4, <2>5 DEF Holds
  <2> QED
    BY <2>5, <2>6 DEF KidsNow, KidsIn
<1> QED
  BY <1>1, <1>3, <1>4 DEF RunBranch

LEMMA KidsOthers ==
  ASSUME IInv, PInv, KidsNow, Plain \/ MakeWatch \/ InsertBranch, ~WriteItems, ~FlushRow
  PROVE  KidsNow'
<1>1. pending \in Seq(EffectIds) /\ Core(stack, pending, alive, dirty, DOMAIN row, store)
  BY Shape
<1>2. FramesOf(stack', "list") = FramesOf(stack, "list")
  BY PlainFrames, WatchFramesMade, EndFrames DEF Framed
<1>3. CASE Unmount
  <2>1. "branch" \notin alive'
    BY <1>3 DEF Unmount, DisposeBranch
  <2> QED
    BY <2>1 DEF KidsNow, KidsIn
<1>4. CASE ~Unmount
  <2>1. /\ row' = row /\ store' = store /\ kids' = kids /\ items' = items
        /\ "branch" \in alive' <=> "branch" \in alive
        /\ "list" \in alive' <=> "list" \in alive
    BY <1>4 DEF Plain, Mount, Event, Batch, Microtask, HandlerDone, NotifyDone, CallbackDone,
                FlushDone, FlushTake, FlushCallback, RunSync, queues, dom, WriteShown, Show,
                FlushSkip, FlushWatch, MakeWatch, InsertBranch
  <2>2. ListQueued(pending) => ListQueued(pending')
    <3>1. CASE FlushSkip \/ FlushWatch
      <4>1. /\ pending # <<>> /\ pending' = Tail(pending)
            /\ Head(pending) \notin dirty \/ Head(pending) = "watch"
        BY <3>1 DEF FlushSkip, FlushWatch, Flushing, Due
      <4>2. Places(pending, "list") # {} => Head(pending) # "list"
        BY <1>1, <4>1 DEF Core, OnceIn, Framed
      <4> QED
        BY <1>1, <4>1, <4>2, TailKeeps DEF ListQueued
    <3>2. CASE WriteShown
      <4>1. pending' = pending \o Queued("branch") /\ Queued("branch") \in Seq(EffectIds)
        BY <3>2, QueuedOne DEF WriteShown, Show
      <4> QED
        BY <1>1, <4>1, QueuedStays DEF ListQueued
    <3>3. CASE ~(FlushSkip \/ FlushWatch \/ WriteShown)
      <4>1. pending' = pending
        BY <1>4, <3>3 DEF Plain, Mount, Event, Batch, Microtask, HandlerDone, NotifyDone, CallbackDone,
                FlushDone, FlushTake, FlushCallback, RunSync, queues, MakeWatch, InsertBranch
      <4> QED
        BY <4>1
    <3> QED
      BY <3>1, <3>2, <3>3
  <2> QED
    BY <1>2, <2>1, <2>2, KidsStay
<1> QED
  BY <1>3, <1>4

LEMMA NextKids ==
  ASSUME IInv, PInv, PInv', TypeI, Habits = {}, NoWriter(stack, async), MarkIn(stack, pending, dirty),
         KidsNow, [Next]_vars
  PROVE  KidsNow'
<1>1. CASE UNCHANGED vars
  <2>1. /\ stack' = stack /\ row' = row /\ store' = store /\ kids' = kids /\ items' = items
        /\ alive' = alive /\ pending' = pending
    BY <1>1 DEF vars, dom, queues
  <2> QED
    BY <2>1, KidsStay
<1> QED
  BY <1>1, KidsWrite, KidsMade, KidsPlaced, KidsBranch, KidsRow, KidsOthers DEF Next, Plain
-----------------------------------------------------------------------------
(* The view and its state                                                  *)

DInv ==
  /\ NoWriter(stack, async) /\ MarkIn(stack, pending, dirty)
  /\ TextsIn(row, dirty) /\ ChoiceIn(phase, choice, shown, pending)
  /\ ListedIn(stack, alive, choice) /\ KidsNow

LEMMA InitView ==
  ASSUME Init
  PROVE  DInv
<1>1. \A op : Calls(stack, op) = {} /\ FramesOf(stack, op) = {}
  BY NoCalls, OfEmpty DEF Init
<1>2. NoWriter(stack, async)
  BY <1>1 DEF NoWriter, Building
<1>3. MarkIn(stack, pending, dirty) /\ TextsIn(row, dirty)
  BY DEF Init, MarkIn, TextsIn
<1>4. ChoiceIn(phase, choice, shown, pending)
  BY DEF Init, ChoiceIn
<1>5. ListedIn(stack, alive, choice)
  BY ViewAssumption DEF Init, ListedIn, FirstChoice
<1>6. KidsNow
  <2>1. "list" \notin alive /\ store = <<>> /\ kids = Empty
    BY DEF Init
  <2>2. Rows(<<>>, store, row) /\ kids = Both(OrderOf(<<>>, store))
    BY <2>1, NoItems
  <2>3. PICK g : g = <<>>
    OBVIOUS
  <2>4. g \in Lists0 /\ Rows(g, store, row) /\ kids = Both(OrderOf(g, store))
    BY <2>2, <2>3 DEF Lists0
  <2>5. Holds(g, FramesOf(stack, "list"), "list" \in alive, row, store, kids, items, ListQueued(pending))
    BY <1>1, <2>1, <2>3, <2>4 DEF Holds
  <2> QED
    BY <2>4, <2>5 DEF KidsNow, KidsIn
<1> QED
  BY <1>2, <1>3, <1>4, <1>5, <1>6 DEF DInv

LEMMA NextView ==
  ASSUME Habits = {}, IInv, PInv, TypeI, TInv, DInv, [Next]_vars
  PROVE  DInv'
<1>1. PInv'
  BY NextShape
<1>2. NoWriter(stack', async')
  BY NextWriter DEF DInv
<1>3. MarkIn(stack', pending', dirty')
  BY NextMarks DEF DInv
<1>4. TextsIn(row', dirty')
  BY NextTexts DEF DInv
<1>5. ChoiceIn(phase', choice', shown', pending')
  BY NextChoice DEF DInv
<1>6. ListedIn(stack', alive', choice')
  BY NextListed DEF DInv
<1>7. KidsNow'
  BY <1>1, NextKids DEF DInv
<1> QED
  BY <1>2, <1>3, <1>4, <1>5, <1>6, <1>7 DEF DInv
-----------------------------------------------------------------------------
(* The DOM shows the state                                                 *)

(* The effects are done, and neither the branch nor the list is under way. *)
Settled == /\ pending = <<>> /\ phase = "live" /\ ~panicked
           /\ FramesOf(stack, "list") = {} /\ FramesOf(stack, "branch") = {}

LEMMA SettledClean ==
  ASSUME Settled, DInv
  PROVE  dirty \subseteq {"watch"} /\ choice = shown /\ ~ListQueued(pending)
<1>1. \A e : Places(pending, e) = {}
  BY DEF Settled, Places
<1>2. dirty \subseteq {"watch"}
  <2>1. MarkIn(stack, pending, dirty)
    BY DEF DInv
  <2>2. \A e \in Framed : FramesOf(stack, e) = {}
    BY DEF Framed, Settled
  <2> QED
    BY <1>1, <2>1, <2>2 DEF MarkIn
<1>3. choice = shown
  BY <1>1 DEF Settled, DInv, ChoiceIn
<1> QED
  BY <1>1, <1>2, <1>3 DEF ListQueued

LEMMA BranchIsShown ==
  ASSUME Settled, TypeI, TInv, DInv
  PROVE  BranchShown
<1>1. choice = shown /\ "branch" \in alive
  BY SettledClean DEF Settled, TInv, LiveIn
<1>2. shown \in {None, 1, 2}
  BY BranchSet DEF TypeI, BaseOK
<1>3. mounted = None <=> shown = None
  BY <1>1, <1>2, ViewAssumption DEF Settled, TInv, TopIn
<1>4. top = IF mounted = None THEN Empty ELSE Holding(<<mounted>>)
  <2>1. ~Building(stack)
    BY OfEmpty DEF Settled, Building
  <2> QED
    BY <1>1, <2>1 DEF Settled, TInv, TopIn
<1>5. CASE shown = None
  BY <1>3, <1>4, <1>5 DEF BranchShown, Empty
<1>6. CASE shown # None
  <2>1. Append(<<mounted>>, Anchor) = <<mounted, Anchor>>
    BY PairAppend
  <2> QED
    BY <1>3, <1>4, <1>6, <2>1 DEF BranchShown, Holding
<1> QED
  BY <1>5, <1>6

LEMMA KidsExpected ==
  ASSUME items \in Lists, DOMAIN store = Keys(items), OneToOne(store), Range(store) \subseteq RowIds
  PROVE  \A m \in Modes : Both(OrderOf(items, store))[m] = Expected
<1> DEFINE F == Firsts(items)
           keys == [p \in DOMAIN F |-> items[F[p]].key]
           nodes == [p \in DOMAIN keys |-> RealNodes(store[keys[p]])]
           o == OrderOf(items, store)
<1>1. items \in Seq(Range(items))
  BY ViewAssumption
<1>2. o \in Seq(RowIds)
  BY <1>1, OrderFacts
<1>3. o = [p \in DOMAIN F |-> store[items[F[p]].key]]
  BY DEF OrderOf
<1> HIDE DEF F, o
<1>4. [p \in DOMAIN o |-> RealNodes(o[p])] = nodes
  <2>1. DOMAIN o = DOMAIN F /\ \A p \in DOMAIN F : o[p] = store[items[F[p]].key]
    BY <1>3
  <2>2. DOMAIN keys = DOMAIN F /\ \A p \in DOMAIN F : keys[p] = items[F[p]].key
    OBVIOUS
  <2> HIDE DEF keys
  <2> QED
    BY <2>1, <2>2
<1>5. NodesOf(o) = FlattenSeq(nodes)
  BY <1>4 DEF NodesOf
<1>6. Expected = FlattenSeq(nodes) \o <<Anchor>>
  BY DEF Expected, F
<1> HIDE DEF nodes, keys
<1>7. NodesOf(o) \in Seq(Children) /\ Anchor \in Children
  BY <1>2, NodesRange, NodeFacts, SeqMonotonic
<1>8. Append(NodesOf(o), Anchor) = NodesOf(o) \o <<Anchor>>
  BY <1>7, AppendIsConcat
<1>9. \A m \in Modes : Both(o)[m] = Append(NodesOf(o), Anchor)
  BY DEF Both, Holding
<1> QED
  BY <1>5, <1>6, <1>8, <1>9 DEF o

LEMMA ListIsShown ==
  ASSUME Settled, IInv, PInv, TypeI, TInv, DInv
  PROVE  ListShown
<1> SUFFICES ASSUME shown = 1
             PROVE  /\ DOMAIN store = {items[i].key : i \in DOMAIN items}
                    /\ \A m \in Modes : kids[m] = Expected
                    /\ \A i \in ToSet(Firsts(items)) :
                         row[store[items[i].key]].text = RowText(items[i], i - 1)
  BY DEF ListShown
<1>1. dirty \subseteq {"watch"} /\ choice = 1 /\ ~ListQueued(pending)
  BY SettledClean
<1>2. "branch" \in alive
  BY DEF Settled, TInv, LiveIn
<1>3. "list" \in alive
  BY <1>1, <1>2 DEF Settled, DInv, ListedIn, Unlisted
<1>4. PICK g \in Lists0 : Holds(g, FramesOf(stack, "list"), "list" \in alive, row, store, kids, items,
                                ListQueued(pending))
  BY <1>2 DEF DInv, KidsNow, KidsIn
<1>5. Rows(items, store, row) /\ kids = Both(OrderOf(items, store))
  BY <1>1, <1>3, <1>4 DEF Holds, Settled
<1>6. items \in Lists /\ Range(store) \subseteq RowIds
  BY Shape DEF TypeI, RowsOK
<1>7. DOMAIN store = Keys(items) /\ OneToOne(store)
  BY <1>5 DEF Rows
<1>8. \A m \in Modes : kids[m] = Expected
  BY <1>5, <1>6, <1>7, KidsExpected
<1>9. ASSUME NEW i \in ToSet(Firsts(items))
      PROVE  row[store[items[i].key]].text = RowText(items[i], i - 1)
  <2> DEFINE r == store[items[i].key]
  <2>1. i \in FirstPlaces(items)
    <3>1. items \in Seq(Range(items))
      BY <1>6, ViewAssumption
    <3>2. Range(Firsts(items)) = FirstPlaces(items)
      BY <3>1, FirstsFacts DEF FirstPlaces
    <3> QED
      BY <3>2, RangeIsToSet
  <2>2. r \in Range(store)
    BY <1>7, <2>1 DEF FirstPlaces, Keys, Range
  <2>3. DOMAIN row = Range(store)
    <3>1. Calls(stack, "list") = {}
      BY OfEmpty DEF Settled
    <3> QED
      BY <3>1, Shape DEF Core, RowsIn
  <2>4. r \notin dirty /\ r \in DOMAIN row
    BY <1>1, <1>6, <2>2, <2>3, ViewAssumption DEF Effects
  <2>5. row[r].text = RowText(row[r].item, row[r].index)
    BY <2>4 DEF DInv, TextsIn
  <2>6. row[r].item = items[i] /\ row[r].index = i - 1
    BY <1>5, <2>1 DEF Rows
  <2> QED
    BY <2>5, <2>6
<1> QED
  BY <1>7, <1>8, <1>9 DEF Keys

LEMMA QuietShows ==
  ASSUME IInv, PInv, ChainInv, TypeI, TInv, DInv
  PROVE  DomShowsItems
<1> SUFFICES ASSUME Quiet PROVE Shows
  BY DEF DomShowsItems
<1>1. stack = <<>> /\ ~scheduled /\ ~panicked /\ phase = "live"
  BY DEF Quiet
<1>2. \A op : Calls(stack, op) = {} /\ FramesOf(stack, op) = {}
  BY <1>1, NoCalls, OfEmpty
<1>3. pending = <<>>
  BY <1>1, <1>2 DEF ChainInv, OwedIn, Obliged
<1>4. Settled
  BY <1>1, <1>2, <1>3 DEF Settled
<1> QED
  BY <1>4, BranchIsShown, ListIsShown DEF Shows

LEMMA OnlyTake ==
  ASSUME TypeI, [Next]_vars, TakesCallbacks
  PROVE  FlushTake
<1>1. post \in Seq(Tolds) /\ post # <<>> /\ post' = <<>>
  BY DEF TypeI, QueuesOK, TakesCallbacks
<1>2. post' # post
  BY <1>1
<1>3. \A s : ~RunWatch(s)
  <2> SUFFICES ASSUME NEW s, RunWatch(s) PROVE FALSE
    OBVIOUS
  <2>1. post' = post \/ post' = Append(post, Told(items, prev))
    BY DEF RunWatch
  <2>2. Told(items, prev) \in Tolds
    BY ToldType DEF TypeI, BaseOK, HeardOK
  <2>3. Append(post, Told(items, prev)) # <<>>
    BY <1>1, <2>2
  <2> QED
    BY <1>1, <1>2, <2>1, <2>3
<1>4. \A q, effects : ~DisposeBranch(q, effects)
  <2> SUFFICES ASSUME NEW q, NEW effects, DisposeBranch(q, effects) PROVE FALSE
    OBVIOUS
  <2>1. post' = Orphan(post)
    BY DEF DisposeBranch
  <2>2. DOMAIN Orphan(post) = DOMAIN post
    BY DEF Orphan
  <2>3. DOMAIN post = 1..Len(post) /\ Len(post) \in Nat \ {0}
    BY <1>1, LenProperties, EmptySeq
  <2>4. 1 \in DOMAIN post
    BY <2>3
  <2>5. 1 \in DOMAIN post'
    BY <2>1, <2>2, <2>4
  <2> QED
    BY <1>1, <2>5
<1>5. \A s, q : ~Reconcile(s, q)
  BY <1>2 DEF Reconcile
<1>6. ~Create /\ ~FlushBranch
  <2>1. \A q : ~SameBranch(stack, q) /\ ~SwapBranch(stack, q)
    BY <1>2, <1>4 DEF SameBranch, SwapBranch
  <2> QED
    BY <2>1 DEF Create, AtRest, FlushBranch, RunBranch
<1>7. ~Unmount /\ ~RunSync /\ ~MakeWatch /\ ~FlushWatch /\ ~MakeList /\ ~FlushList
  BY <1>3, <1>4, <1>5 DEF Unmount, RunSync, MakeWatch, FlushWatch, MakeList, FlushList
<1>8. ~(\/ Mount \/ Event \/ Batch \/ Microtask \/ HandlerDone \/ NotifyDone \/ CallbackDone
        \/ FlushDone \/ FlushCallback \/ WriteItems \/ WriteShown \/ FlushSkip \/ FlushRow
        \/ Place \/ InsertBranch \/ UNCHANGED vars)
  BY <1>2 DEF Mount, Event, Batch, Microtask, HandlerDone, NotifyDone, CallbackDone, FlushDone,
              FlushCallback, WriteItems, WriteShown, Write, Show, FlushSkip, FlushRow, Place,
              InsertBranch, vars, queues
<1> QED
  BY <1>6, <1>7, <1>8 DEF Next

LEMMA TakeShows ==
  ASSUME IInv, PInv, TypeI, TInv, DInv, [Next]_vars
  PROVE  async => SeesDom
<1> SUFFICES ASSUME async, TakesCallbacks, phase = "live" PROVE Shows
  BY DEF SeesDom
<1>1. pending = <<>> /\ stack # <<>> /\ Last(stack).op = "flush" /\ ~panicked
  BY OnlyTake DEF FlushTake, EffectsDone, In, Top
<1>2. FramesOf(stack, "list") = {} /\ FramesOf(stack, "branch") = {}
  BY <1>1, FlushAlone, OfEmpty
<1>3. Settled
  BY <1>1, <1>2 DEF Settled
<1> QED
  BY <1>3, BranchIsShown, ListIsShown DEF Shows

LEMMA ViewDisplayed ==
  ASSUME Habits = {}
  PROVE  Spec => [](PInv /\ ChainInv /\ DInv)
<1>1. Init => PInv /\ ChainInv /\ DInv
  BY InitShape, InitChain, InitView
<1>2. IInv /\ TypeI /\ TInv /\ PInv /\ ChainInv /\ DInv /\ [Next]_vars => PInv' /\ ChainInv' /\ DInv'
  BY NextShape, NextChain, NextView
<1> QED
  BY <1>1, <1>2, BookkeepingInvariant, ViewTyped, PTL DEF Spec

(* For all lists, all programs and any number of writes, without the three *)
(* habits: when nothing is left to do, both backends show the branch of    *)
(* the condition before the anchor, a row for each key in the order of the *)
(* items, and in each row its item and its index.                          *)
THEOREM DomAlwaysShowsItems ==
  ASSUME Habits = {}
  PROVE  Spec => []DomShowsItems
<1> QED
  BY ViewDisplayed, BookkeepingInvariant, ViewTyped, QuietShows, PTL

(* Without the three habits, and once the microtask scheduler is           *)
(* installed, a flush turns to the watch callbacks only when the DOM shows *)
(* the state.                                                              *)
THEOREM CallbacksAfterDom ==
  ASSUME Habits = {}
  PROVE  Spec => CallbacksSeeDom
<1>1. IInv /\ TypeI /\ TInv /\ PInv /\ DInv /\ [Next]_vars => (async => SeesDom)
  BY TakeShows
<1> QED
  BY <1>1, ViewDisplayed, BookkeepingInvariant, ViewTyped, PTL DEF Spec, CallbacksSeeDom
=============================================================================
