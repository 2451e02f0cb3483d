----------------------------- MODULE View_proofs -----------------------------
(***************************************************************************)
(* A keyed list never runs inside itself, and its bookkeeping knows the    *)
(* rows that are alive: for all lists, programs, habits and bounds.  The   *)
(* calls of a view without the habits of HabitNames: no row map and no     *)
(* watch callback is borrowed twice, and the values a watch callback is    *)
(* told form a chain.                                                      *)
(***************************************************************************)
EXTENDS ViewProperties, FiniteSetTheorems, FunctionTheorems, SequenceTheorems, TLAPS

Calls(s, op) == {i \in DOMAIN s : s[i].op = op}
Places(q, e) == {i \in DOMAIN q : q[i] = e}
Single(S) == \A i, j \in S : i = j

(* The two effects that have a frame on the stack while they run.          *)
Framed == {"list", "branch"}
Named  == Framed \cup {"watch"}

IsStack(s) == s \in Seq(Range(s))

(* An effect is queued or runs, once; while it runs it is marked, so that  *)
(* no write queues it again.                                               *)
OnceIn(s, q, live, marked) ==
  \A e \in Framed :
    /\ Single(Places(q, e)) /\ Single(Calls(s, e))
    /\ Places(q, e) # {} => e \in live /\ e \in marked /\ Calls(s, e) = {}
    /\ Calls(s, e) # {} /\ e \in live => e \in marked

(* A branch that is being built has its list last.                         *)
BuildingIn(s, live) ==
  \A i \in Calls(s, "branch") : s[i].step # "insert" => "list" \notin live

(* The rows alive are those the list's effect is about to store while it   *)
(* runs, and those it has stored otherwise; it keeps the rows of old keys. *)
Agree(f, g) == \A k \in DOMAIN f \cap DOMAIN g : f[k] = g[k]

RowsIn(s, live, rows, stored) ==
  /\ "list" \notin live => Calls(s, "list") = {} /\ rows = {}
  /\ Calls(s, "list") = {} => rows = Range(stored)
  /\ \A i \in Calls(s, "list") : rows = Range(s[i].result) /\ Agree(s[i].result, stored)

Core(s, q, live, marked, rows, stored) ==
  /\ IsStack(s) /\ q \in Seq(EffectIds)
  /\ OnceIn(s, q, live, marked)
  /\ BuildingIn(s, live)
  /\ RowsIn(s, live, rows, stored)

(* There are names left for the rows of any list.                          *)
NamesLeft(rows) == rows \subseteq RowIds /\ 2 * Cardinality(rows) <= Cardinality(RowIds)

IInv ==
  ~panicked =>
    /\ items \in Lists
    /\ Core(stack, pending, alive, dirty, DOMAIN row, store)
    /\ NamesLeft(DOMAIN row)
    /\ phase = "new" => stack = <<>> /\ pending = <<>> /\ ~scheduled
-----------------------------------------------------------------------------
(* What calls and returns do to the frames                                 *)

LEMMA PushFrame ==
  ASSUME NEW s, IsStack(s), NEW f
  PROVE  LET t == Append(s, f)
             k == Len(s) + 1
         IN /\ IsStack(t)
            /\ DOMAIN t = DOMAIN s \cup {k} /\ k \notin DOMAIN s
            /\ t[k] = f /\ \A i \in DOMAIN s : t[i] = s[i]
            /\ \A op : Calls(t, op) = IF f.op = op THEN Calls(s, op) \cup {k} ELSE Calls(s, op)
<1> DEFINE S == Range(s) \cup {f}
           t == Append(s, f)
           k == Len(s) + 1
<1>1. s \in Seq(S) /\ f \in S
  BY SeqMonotonic DEF IsStack
<1>2. t \in Seq(S) /\ Len(t) = k /\ t[k] = f /\ \A i \in 1 .. Len(s) : t[i] = s[i]
  BY <1>1, AppendProperties
<1>3. Len(s) \in Nat /\ DOMAIN s = 1 .. Len(s) /\ DOMAIN t = 1 .. Len(t)
  BY <1>1, <1>2, LenProperties
<1> HIDE DEF t, S
<1>4. IsStack(t)
  BY <1>2, SeqOfRange DEF IsStack
<1>5. DOMAIN t = DOMAIN s \cup {k} /\ k \notin DOMAIN s
  BY <1>2, <1>3 DEF k
<1>6. \A i \in DOMAIN s : t[i] = s[i]
  BY <1>2, <1>3
<1>7. t[k] = f
  BY <1>2
<1> HIDE DEF k
<1>8. \A op : Calls(t, op) = IF f.op = op THEN Calls(s, op) \cup {k} ELSE Calls(s, op)
  BY <1>5, <1>6, <1>7 DEF Calls
<1> QED
  BY <1>4, <1>5, <1>6, <1>7, <1>8 DEF t, k

LEMMA PopFrame ==
  ASSUME NEW s, IsStack(s), s # <<>>
  PROVE  LET t == Front(s)
             k == Len(s)
         IN /\ IsStack(t) /\ Len(t) + 1 = k
            /\ DOMAIN s = DOMAIN t \cup {k} /\ k \notin DOMAIN t
            /\ Last(s) = s[k] /\ \A i \in DOMAIN t : t[i] = s[i]
            /\ \A op : Calls(t, op) = Calls(s, op) \ {k}
<1> DEFINE S == Range(s)
           t == Front(s)
           k == Len(s)
<1>1. s \in Seq(S) /\ k \in Nat \ {0} /\ DOMAIN s = 1 .. k
  BY LenProperties, EmptySeq DEF IsStack
<1>2. \A i \in 1 .. k - 1 : s[i] \in S
  BY <1>1, ElementOfSeq
<1>3. t \in Seq(S) /\ Len(t) = k - 1 /\ \A i \in 1 .. k - 1 : t[i] = s[i]
  <2>1. t = SubSeq(s, 1, k - 1)
    BY DEF Front
  <2> HIDE DEF t, k, S
  <2>2. /\ SubSeq(s, 1, k - 1) \in Seq(S)
        /\ Len(SubSeq(s, 1, k - 1)) = IF 1 <= k - 1 THEN (k - 1) - 1 + 1 ELSE 0
        /\ \A i \in 1 .. (k - 1) - 1 + 1 : SubSeq(s, 1, k - 1)[i] = s[1 + i - 1]
    BY <1>1, <1>2, SubSeqProperties
  <2>3. \A i \in 1 .. k - 1 : i \in 1 .. (k - 1) - 1 + 1 /\ 1 + i - 1 = i
    BY <1>1
  <2> QED
    BY <1>1, <2>1, <2>2, <2>3
<1>4. DOMAIN t = 1 .. k - 1
  BY <1>3, LenProperties
<1>5. Last(s) = s[k]
  BY DEF Last
<1> HIDE DEF t, k, S
<1>6. IsStack(t)
  BY <1>3, SeqOfRange DEF IsStack
<1>7. DOMAIN s = DOMAIN t \cup {k} /\ k \notin DOMAIN t
  BY <1>1, <1>4
<1>8. \A op : Calls(t, op) = Calls(s, op) \ {k}
  BY <1>3, <1>4, <1>7 DEF Calls
<1>9. Len(t) + 1 = k
  BY <1>1, <1>3
<1> QED
  BY <1>3, <1>5, <1>6, <1>7, <1>8, <1>9 DEF t, k

LEMMA ReplaceFrame ==
  ASSUME NEW s, IsStack(s), s # <<>>, NEW f, f.op = Last(s).op
  PROVE  LET t == Append(Front(s), f)
             k == Len(s)
         IN /\ IsStack(t) /\ DOMAIN t = DOMAIN s
            /\ k \in DOMAIN s /\ Last(s) = s[k] /\ t[k] = f
            /\ \A i \in DOMAIN s \ {k} : t[i] = s[i]
            /\ \A op : Calls(t, op) = Calls(s, op)
<1> DEFINE u == Front(s)
           t == Append(u, f)
           k == Len(s)
<1>1. /\ IsStack(u) /\ Len(u) + 1 = k
      /\ DOMAIN s = DOMAIN u \cup {k} /\ k \notin DOMAIN u
      /\ Last(s) = s[k] /\ \A i \in DOMAIN u : u[i] = s[i]
  BY PopFrame
<1> HIDE DEF u, k
<1>2. /\ IsStack(t)
      /\ DOMAIN t = DOMAIN u \cup {k}
      /\ t[k] = f /\ \A i \in DOMAIN u : t[i] = u[i]
  <2>1. /\ IsStack(t)
        /\ DOMAIN t = DOMAIN u \cup {Len(u) + 1}
        /\ t[Len(u) + 1] = f /\ \A i \in DOMAIN u : t[i] = u[i]
    <3>1. IsStack(u)
      BY <1>1
    <3> QED
      BY <3>1, PushFrame
  <2> HIDE DEF t
  <2> QED
    BY <1>1, <2>1
<1> HIDE DEF t
<1>3. \A op : Calls(t, op) = Calls(s, op)
  <2>1. DOMAIN t = DOMAIN s /\ \A i \in DOMAIN s : t[i].op = s[i].op
    BY <1>1, <1>2
  <2> QED
    BY <2>1 DEF Calls
<1>4. \A i \in DOMAIN s \ {k} : t[i] = s[i]
  BY <1>1, <1>2
<1> QED
  BY <1>1, <1>2, <1>3, <1>4 DEF t, u, k

(* Frames of other calls come and go.                                      *)
LEMMA PushOther ==
  ASSUME NEW s, NEW q, NEW live, NEW marked, NEW rows, NEW stored,
         Core(s, q, live, marked, rows, stored), NEW f, f.op \notin Framed
  PROVE  Core(Append(s, f), q, live, marked, rows, stored)
<1> DEFINE t == Append(s, f)
<1>1. IsStack(s)
  BY DEF Core
<1>2. /\ IsStack(t) /\ \A i \in DOMAIN s : t[i] = s[i]
      /\ \A op : Calls(t, op) = IF f.op = op THEN Calls(s, op) \cup {Len(s) + 1} ELSE Calls(s, op)
  BY <1>1, PushFrame
<1>3. Calls(t, "list") = Calls(s, "list") /\ Calls(t, "branch") = Calls(s, "branch")
  BY <1>2 DEF Framed
<1>4. \A op, i : i \in Calls(s, op) => i \in DOMAIN s
  BY DEF Calls
<1> HIDE DEF t
<1>5. OnceIn(t, q, live, marked)
  BY <1>3 DEF Core, OnceIn, Framed
<1>6. BuildingIn(t, live)
  BY <1>2, <1>3, <1>4 DEF Core, BuildingIn
<1>7. RowsIn(t, live, rows, stored)
  BY <1>2, <1>3, <1>4 DEF Core, RowsIn
<1> QED
  BY <1>2, <1>5, <1>6, <1>7 DEF Core, t

LEMMA PopOther ==
  ASSUME NEW s, NEW q, NEW live, NEW marked, NEW rows, NEW stored,
         Core(s, q, live, marked, rows, stored), s # <<>>, Last(s).op \notin Framed
  PROVE  Core(Front(s), q, live, marked, rows, stored)
<1> DEFINE t == Front(s)
<1>1. IsStack(s)
  BY DEF Core
<1>2. /\ IsStack(t) /\ \A i \in DOMAIN t : t[i] = s[i]
      /\ Last(s) = s[Len(s)] /\ \A op : Calls(t, op) = Calls(s, op) \ {Len(s)}
  BY <1>1, PopFrame
<1>3. \A op, i : i \in Calls(t, op) => i \in DOMAIN t
  BY DEF Calls
<1>4. Calls(t, "list") = Calls(s, "list") /\ Calls(t, "branch") = Calls(s, "branch")
  BY <1>2 DEF Calls, Framed
<1> HIDE DEF t
<1>5. OnceIn(t, q, live, marked)
  BY <1>4 DEF Core, OnceIn, Framed
<1>6. BuildingIn(t, live)
  BY <1>2, <1>3, <1>4 DEF Core, BuildingIn
<1>7. RowsIn(t, live, rows, stored)
  BY <1>2, <1>3, <1>4 DEF Core, RowsIn
<1> QED
  BY <1>2, <1>5, <1>6, <1>7 DEF Core, t

(* Only what happens to the two effects matters.                           *)
LEMMA OtherEffects ==
  ASSUME NEW s, NEW q, NEW live, NEW marked, NEW rows, NEW stored,
         Core(s, q, live, marked, rows, stored),
         NEW live2, NEW marked2,
         \A e \in Framed : (e \in live <=> e \in live2) /\ (e \in marked => e \in marked2)
  PROVE  Core(s, q, live2, marked2, rows, stored)
<1>1. OnceIn(s, q, live2, marked2)
  BY DEF Core, OnceIn
<1>2. BuildingIn(s, live2)
  BY DEF Core, BuildingIn, Framed
<1>3. RowsIn(s, live2, rows, stored)
  BY DEF Core, RowsIn, Framed
<1> QED
  BY <1>1, <1>2, <1>3 DEF Core
-----------------------------------------------------------------------------
(* What marking, running and disposing effects does to the queue           *)

LEMMA SameQueue ==
  ASSUME NEW s, NEW q, NEW live, NEW marked, NEW rows, NEW stored,
         Core(s, q, live, marked, rows, stored), NEW p \in Seq(EffectIds),
         \A e \in Framed : Places(p, e) # {} => Places(q, e) # {} /\ Single(Places(p, e))
  PROVE  Core(s, p, live, marked, rows, stored)
<1>1. \A e \in Framed : Single(Places(p, e))
  BY DEF Single
<1>2. OnceIn(s, p, live, marked)
  BY <1>1 DEF Core, OnceIn
<1> QED
  BY <1>2 DEF Core

LEMMA Concat ==
  ASSUME NEW q \in Seq(EffectIds), NEW w \in Seq(EffectIds), NEW e
  PROVE  /\ q \o w \in Seq(EffectIds)
         /\ Places(w, e) = {} => Places(q \o w, e) = Places(q, e)
         /\ Places(q, e) = {} /\ w = <<e>> => Places(q \o w, e) = {Len(q) + 1}
<1> DEFINE p == q \o w
<1>1. /\ p \in Seq(EffectIds) /\ Len(p) = Len(q) + Len(w)
      /\ \A i \in 1 .. Len(q) + Len(w) : p[i] = IF i <= Len(q) THEN q[i] ELSE w[i - Len(q)]
  BY ConcatProperties
<1>2. /\ Len(q) \in Nat /\ Len(w) \in Nat
      /\ DOMAIN q = 1 .. Len(q) /\ DOMAIN w = 1 .. Len(w) /\ DOMAIN p = 1 .. Len(q) + Len(w)
  BY <1>1, LenProperties
<1> HIDE DEF p
<1>3. ASSUME Places(w, e) = {}
      PROVE  Places(p, e) = Places(q, e)
  <2>1. \A i \in DOMAIN p : i \notin DOMAIN q => i - Len(q) \in DOMAIN w /\ p[i] = w[i - Len(q)]
    BY <1>1, <1>2
  <2>2. \A i \in DOMAIN q : i \in DOMAIN p /\ p[i] = q[i]
    BY <1>1, <1>2
  <2>3. \A j \in DOMAIN w : w[j] # e
    BY <1>3 DEF Places
  <2> QED
    BY <2>1, <2>2, <2>3 DEF Places
<1>4. ASSUME Places(q, e) = {}, w = <<e>>
      PROVE  Places(p, e) = {Len(q) + 1}
  <2>1. Len(w) = 1 /\ w[1] = e
    BY <1>4
  <2>2. \A i \in DOMAIN q : p[i] = q[i] /\ q[i] # e
    BY <1>1, <1>2, <1>4 DEF Places
  <2>3. DOMAIN p = DOMAIN q \cup {Len(q) + 1} /\ p[Len(q) + 1] = e
    BY <1>1, <1>2, <2>1
  <2> QED
    BY <2>2, <2>3 DEF Places
<1> QED
  BY <1>1, <1>3, <1>4 DEF p

(* An effect that was Clean is queued and marked.                          *)
LEMMA Enqueue ==
  ASSUME NEW s, NEW q, NEW live, NEW marked, NEW rows, NEW stored,
         Core(s, q, live, marked, rows, stored),
         NEW e \in Effects, NEW w \in {<<>>, <<e>>}, w = <<e>> => e \in live \ marked
  PROVE  Core(s, q \o w, live, marked \cup (live \cap {e}), rows, stored)
<1> DEFINE p == q \o w
           marked2 == marked \cup (live \cap {e})
<1>1. q \in Seq(EffectIds) /\ w \in Seq(EffectIds)
  <2>1. e \in EffectIds
    BY DEF EffectIds
  <2>2. <<e>> \in Seq(EffectIds) /\ <<>> \in Seq(EffectIds)
    BY <2>1
  <2>3. w = <<>> \/ w = <<e>>
    OBVIOUS
  <2> QED
    BY <2>2, <2>3 DEF Core
<1>2. /\ p \in Seq(EffectIds)
      /\ \A x : Places(w, x) = {} => Places(p, x) = Places(q, x)
      /\ Places(q, e) = {} /\ w = <<e>> => Places(p, e) = {Len(q) + 1}
  BY <1>1, Concat
<1>3. Core(s, q, live, marked2, rows, stored)
  BY OtherEffects
<1> HIDE DEF p, marked2
<1>4. \A x : x # e \/ w = <<>> => Places(w, x) = {}
  BY DEF Places
<1>5. CASE w = <<>> \/ e \notin Framed
  <2>1. \A x \in Framed : Places(p, x) = Places(q, x)
    BY <1>2, <1>4, <1>5
  <2>2. \A x \in Framed : Single(Places(q, x))
    BY DEF Core, OnceIn
  <2> QED
    BY <1>2, <1>3, <2>1, <2>2, SameQueue DEF p, marked2
<1>6. CASE w = <<e>> /\ e \in Framed
  <2>1. e \in live /\ e \notin marked
    BY <1>6
  <2>2. Places(q, e) = {} /\ Calls(s, e) = {} /\ e \in marked2
    BY <1>6, <2>1 DEF Core, OnceIn, marked2
  <2>3. Single(Places(p, e))
    BY <1>2, <1>6, <2>2 DEF Single
  <2>4. \A x \in Framed \ {e} : Places(p, x) = Places(q, x)
    BY <1>2, <1>4
  <2>5. OnceIn(s, p, live, marked2)
    BY <1>3, <2>1, <2>2, <2>3, <2>4 DEF Core, OnceIn
  <2> QED
    BY <1>2, <1>3, <2>5 DEF Core, p, marked2
<1> QED
  BY <1>5, <1>6

LEMMA Dequeue ==
  ASSUME NEW s, NEW q, NEW live, NEW marked, NEW rows, NEW stored,
         Core(s, q, live, marked, rows, stored), q # <<>>
  PROVE  /\ Core(s, Tail(q), live, marked, rows, stored)
         /\ Head(q) \in Framed =>
              /\ Places(Tail(q), Head(q)) = {} /\ Calls(s, Head(q)) = {}
              /\ Head(q) \in live /\ Head(q) \in marked
<1> DEFINE p == Tail(q)
<1>1. q \in Seq(EffectIds) /\ Head(q) = q[1]
  BY DEF Core
<1>2. /\ p \in Seq(EffectIds) /\ Len(p) = Len(q) - 1
      /\ \A i \in 1 .. Len(p) : p[i] = q[i + 1]
  BY <1>1, HeadTailProperties
<1>3. Len(q) \in Nat \ {0} /\ DOMAIN q = 1 .. Len(q) /\ DOMAIN p = 1 .. Len(q) - 1
  BY <1>1, <1>2, LenProperties, EmptySeq
<1> HIDE DEF p
<1>4. \A e : \A i \in Places(p, e) : i \in Nat \ {0} /\ i + 1 \in Places(q, e)
  BY <1>2, <1>3 DEF Places
<1>5. \A e \in Framed : Single(Places(q, e))
  BY DEF Core, OnceIn
<1>6. \A e \in Framed : Single(Places(p, e))
  <2> SUFFICES ASSUME NEW e \in Framed, NEW i \in Places(p, e), NEW j \in Places(p, e)
               PROVE  i = j
    BY DEF Single
  <2>1. i + 1 = j + 1
    BY <1>4, <1>5 DEF Single
  <2> QED
    BY <1>4, <2>1
<1>7. Core(s, p, live, marked, rows, stored)
  BY <1>2, <1>4, <1>6, SameQueue
<1>8. ASSUME Head(q) \in Framed
      PROVE  /\ Places(p, Head(q)) = {} /\ Calls(s, Head(q)) = {}
             /\ Head(q) \in live /\ Head(q) \in marked
  <2>1. 1 \in Places(q, Head(q))
    BY <1>1, <1>3 DEF Places
  <2>2. Places(p, Head(q)) = {}
    <3> SUFFICES ASSUME NEW i \in Places(p, Head(q)) PROVE FALSE
      OBVIOUS
    <3>1. i + 1 = 1
      BY <1>4, <1>5, <1>8, <2>1 DEF Single
    <3> QED
      BY <1>4, <3>1
  <2> QED
    BY <1>8, <2>1, <2>2 DEF Core, OnceIn
<1> QED
  BY <1>7, <1>8 DEF p

LEMMA Forgotten ==
  ASSUME NEW q \in Seq(EffectIds), NEW gone
  PROVE  /\ Forget(q, gone) \in Seq(EffectIds)
         /\ \A e \in Named : Places(Forget(q, gone), e) = IF e \in gone THEN {} ELSE Places(q, e)
<1> DEFINE p == Forget(q, gone)
<1>1. p = [i \in DOMAIN q |-> IF q[i] \in gone THEN "dead" ELSE q[i]]
  BY DEF Forget
<1>2. Len(q) \in Nat /\ DOMAIN q = 1 .. Len(q) /\ "dead" \in EffectIds
  BY LenProperties DEF EffectIds, Effects
<1>3. \A i \in 1 .. Len(q) : q[i] \in EffectIds
  BY <1>2, ElementOfSeq
<1>4. p \in [1 .. Len(q) -> EffectIds]
  BY <1>1, <1>2, <1>3
<1>5. p \in Seq(EffectIds)
  BY <1>2, <1>4, SeqDef
<1> HIDE DEF p
<1>6. ASSUME NEW e \in Named
      PROVE  Places(p, e) = IF e \in gone THEN {} ELSE Places(q, e)
  <2>1. e # "dead"
    BY DEF Named, Framed
  <2>2. DOMAIN p = DOMAIN q /\ \A i \in DOMAIN q : p[i] = e <=> q[i] = e /\ e \notin gone
    BY <1>1, <2>1
  <2> QED
    BY <2>2 DEF Places
<1> QED
  BY <1>5, <1>6 DEF p
-----------------------------------------------------------------------------
(* The rows of a list                                                      *)

LEMMA InjectionExists ==
  ASSUME NEW S, NEW T, IsFiniteSet(S), IsFiniteSet(T), Cardinality(S) <= Cardinality(T)
  PROVE  \E f \in [S -> T] : IsInjective(f)
<1>1. /\ Cardinality(S) \in Nat /\ ExistsBijection(1 .. Cardinality(S), S)
      /\ Cardinality(T) \in Nat /\ ExistsBijection(1 .. Cardinality(T), T)
  BY FS_CardinalityType
<1>2. ExistsBijection(S, 1 .. Cardinality(S))
  BY <1>1, Fun_ExistsBijSymmetric
<1>3. ExistsInjection(S, 1 .. Cardinality(S)) /\ ExistsInjection(1 .. Cardinality(T), T)
  BY <1>1, <1>2 DEF ExistsBijection, ExistsInjection, Bijection
<1>4. ExistsInjection(1 .. Cardinality(S), 1 .. Cardinality(T))
  BY <1>1, Fun_NatInjLeq
<1>5. ExistsInjection(S, T)
  BY <1>3, <1>4, Fun_ExistsInjTransitive
<1> QED
  BY <1>5 DEF ExistsInjection, Injection

LEMMA SetToSeqType ==
  ASSUME NEW S, IsFiniteSet(S)
  PROVE  SetToSeq(S) \in Seq(S)
<1> DEFINE n == Cardinality(S)
<1>1. n \in Nat /\ ExistsBijection(1 .. n, S)
  BY FS_CardinalityType
<1>2. \E f \in [1 .. n -> S] : IsInjective(f)
  BY <1>1 DEF ExistsBijection, Bijection, Injection
<1>3. SetToSeq(S) \in [1 .. n -> S]
  BY <1>2 DEF SetToSeq
<1> HIDE DEF n
<1> QED
  BY <1>1, <1>3, SeqDef

LEMMA CountTo ==
  ASSUME NEW n \in Nat
  PROVE  IsFiniteSet(1 .. n) /\ Cardinality(1 .. n) = n
<1>1. /\ IsFiniteSet(1 .. n)
      /\ Cardinality(1 .. n) = IF 1 > n THEN 0 ELSE n - 1 + 1
  BY FS_Interval
<1> QED
  BY <1>1

LEMMA ItemsLength ==
  ASSUME items \in Lists
  PROVE  /\ Len(items) \in Nat /\ DOMAIN items = 1 .. Len(items)
         /\ 2 * Len(items) <= Cardinality(RowIds)
<1>1. items \in Seq(Range(items)) /\ 2 * Len(items) <= Cardinality(RowIds)
  BY ViewAssumption
<1>2. Len(items) \in Nat /\ DOMAIN items = 1 .. Len(items)
  BY <1>1, LenProperties
<1> QED
  BY <1>1, <1>2

(* There are names for new rows while the old ones are alive.              *)
LEMMA FreshNames ==
  ASSUME items \in Lists, NamesLeft(DOMAIN row), NEW news \in SUBSET DOMAIN items
  PROVE  \E f \in [news -> RowIds \ DOMAIN row] : IsInjective(f)
<1> DEFINE n == Len(items)
           free == RowIds \ DOMAIN row
<1>1. n \in Nat /\ DOMAIN items = 1 .. n /\ 2 * n <= Cardinality(RowIds)
  BY ItemsLength
<1>2. IsFiniteSet(DOMAIN items) /\ Cardinality(DOMAIN items) = n
  BY <1>1, CountTo
<1>3. IsFiniteSet(news) /\ Cardinality(news) <= n
  BY <1>2, FS_Subset
<1>4. IsFiniteSet(RowIds) /\ DOMAIN row \subseteq RowIds /\ RowIds \cap DOMAIN row = DOMAIN row
  BY ViewAssumption DEF NamesLeft
<1>5. IsFiniteSet(free) /\ Cardinality(free) = Cardinality(RowIds) - Cardinality(DOMAIN row)
  BY <1>4, FS_Difference
<1>6. IsFiniteSet(DOMAIN row)
  BY <1>4, FS_Subset
<1>7. /\ Cardinality(RowIds) \in Nat /\ Cardinality(DOMAIN row) \in Nat
      /\ Cardinality(news) \in Nat
  BY <1>3, <1>4, <1>6, FS_CardinalityType
<1>8. Cardinality(news) <= Cardinality(free)
  <2>1. 2 * Cardinality(DOMAIN row) <= Cardinality(RowIds)
    BY DEF NamesLeft
  <2> HIDE DEF n, free
  <2> QED
    BY <1>1, <1>3, <1>5, <1>7, <2>1
<1> QED
  BY <1>3, <1>5, <1>8, InjectionExists

LEMMA RowOfNames ==
  ASSUME items \in Lists, NamesLeft(DOMAIN row), DOMAIN row = Range(store)
  PROVE  LET rowOf == RowOf(items)
         IN /\ DOMAIN rowOf = {j \in DOMAIN items : FirstOfKey(items, j)}
            /\ \A i \in DOMAIN rowOf : Reused(items, i) => rowOf[i] = store[items[i].key]
            /\ rowOf \in [DOMAIN rowOf -> RowIds]
            /\ NamesLeft(Range(rowOf))
<1> DEFINE rowOf == RowOf(items)
           D == {j \in DOMAIN items : FirstOfKey(items, j)}
           news == {i \in DOMAIN items : ~Reused(items, i)}
           fresh == CHOOSE f \in [news -> RowIds \ DOMAIN row] : IsInjective(f)
<1>1. fresh \in [news -> RowIds \ DOMAIN row]
  BY FreshNames
<1>2. rowOf = [i \in D |-> IF Reused(items, i) THEN store[items[i].key] ELSE fresh[i]]
  BY DEF RowOf
<1> HIDE DEF rowOf, fresh
<1>3. \A i \in D : Reused(items, i) => store[items[i].key] \in RowIds
  BY DEF Reused, Range, NamesLeft
<1>4. \A i \in D : ~Reused(items, i) => fresh[i] \in RowIds
  BY <1>1
<1>5. rowOf \in [D -> RowIds]
  BY <1>2, <1>3, <1>4
<1>6. Range(rowOf) \subseteq RowIds /\ rowOf \in Surjection(D, Range(rowOf))
  BY <1>5, Fun_RangeProperties
<1>7. 2 * Cardinality(Range(rowOf)) <= Cardinality(RowIds)
  <2> DEFINE n == Len(items)
             m == Cardinality(D)
             r == Cardinality(Range(rowOf))
             c == Cardinality(RowIds)
  <2>1. n \in Nat /\ DOMAIN items = 1 .. n /\ 2 * n <= c
    BY ItemsLength
  <2>2. IsFiniteSet(1 .. n) /\ Cardinality(1 .. n) = n
    BY <2>1, CountTo
  <2>3. IsFiniteSet(D) /\ m <= n
    BY <2>1, <2>2, FS_Subset
  <2>4. IsFiniteSet(Range(rowOf)) /\ r <= m
    BY <1>6, <2>3, FS_Surjection
  <2>5. m \in Nat /\ r \in Nat /\ c \in Nat
    BY <2>3, <2>4, FS_CardinalityType, ViewAssumption
  <2> HIDE DEF n, m, r, c
  <2>6. 2 * r <= c
    BY <2>1, <2>3, <2>4, <2>5
  <2> QED
    BY <2>6 DEF r, c
<1> QED
  BY <1>2, <1>5, <1>6, <1>7 DEF NamesLeft, rowOf
(* What the list's effect does before its flush.                           *)
ListFrameOf(f) == /\ f.op = "list" /\ DOMAIN row' = Range(f.result) /\ Agree(f.result, store)

ListStarted(s) ==
  \E f : ListFrameOf(f) /\ (stack' = Append(s, f) \/ stack' = Append(Append(s, f), FlushFrame))

LEMMA ReconcileRows ==
  ASSUME NEW s, NEW q \in Seq(EffectIds), Reconcile(s, q),
         items \in Lists, NamesLeft(DOMAIN row), DOMAIN row = Range(store)
  PROVE  /\ NamesLeft(DOMAIN row') /\ store' = store
         /\ pending' \in Seq(EffectIds)
         /\ \A e \in Named : Places(pending', e) = Places(q, e)
         /\ \A e \in Named : e \in dirty' <=> e \in dirty \/ e = "list"
         /\ ListStarted(s)
<1> DEFINE rowOf  == RowOf(items)
           given  == Range(rowOf)
           D      == DOMAIN rowOf
           order  == [p \in DOMAIN Firsts(items) |-> rowOf[Firsts(items)[p]]]
           result == [k \in {items[i].key : i \in D} |->
                        rowOf[CHOOSE i \in D : items[i].key = k]]
           gone   == Range(store) \ Range(result)
           At(r)  == CHOOSE i \in D : rowOf[i] = r
           New(r) == [item |-> items[At(r)], index |-> At(r) - 1,
                      text |-> RowText(items[At(r)], At(r) - 1)]
           Kept(r) == [New(r) EXCEPT !.text = row[r].text]
           stale  == {r \in Range(store) \cap given : row[r] # Kept(r)}
           f == ListFrame(order, result)
<1>1. /\ row' = [r \in (DOMAIN row \ gone) \cup given |->
                  IF r \notin given THEN row[r] ELSE IF r \in Range(store) THEN Kept(r) ELSE New(r)]
      /\ pending' = Forget(q, gone) \o SetToSeq(stale \ dirty)
      /\ dirty' = (dirty \ gone) \cup stale \cup {"list"}
      /\ ScheduleOrFlush(Append(s, f)) /\ store' = store
  BY DEF Reconcile
<1>2. /\ D = {j \in DOMAIN items : FirstOfKey(items, j)}
      /\ \A i \in D : Reused(items, i) => rowOf[i] = store[items[i].key]
      /\ rowOf \in [D -> RowIds] /\ NamesLeft(given)
  BY RowOfNames
<1> HIDE DEF rowOf
<1>3. DOMAIN items = 1 .. Len(items) /\ Len(items) \in Nat
  BY ItemsLength
<1>4. \A i, j \in D : items[i].key = items[j].key => i = j
  BY <1>2, <1>3 DEF FirstOfKey
<1>5. \A i \in D : result[items[i].key] = rowOf[i]
  <2> TAKE i \in D
  <2>1. (CHOOSE j \in D : items[j].key = items[i].key) = i
    BY <1>4
  <2> QED
    BY <2>1
<1>6. DOMAIN result = {items[i].key : i \in D}
  OBVIOUS
<1> HIDE DEF result, D
<1>7. Range(result) = given
  <2>1. \A x \in Range(result) : x \in given
    BY <1>5, <1>6 DEF Range, D
  <2>2. \A x \in given : x \in Range(result)
    BY <1>5, <1>6 DEF Range, D
  <2> QED
    BY <2>1, <2>2
<1>8. Agree(result, store)
  BY <1>2, <1>5, <1>6 DEF Agree, Reused
<1>9. DOMAIN row' = given
  BY <1>1, <1>7
<1>10. given \subseteq RowIds /\ Range(store) \subseteq RowIds /\ stale \subseteq RowIds
  BY <1>2 DEF NamesLeft
<1>11. \A e \in Named : e \notin RowIds
  BY ViewAssumption DEF Named, Framed, Effects
<1> HIDE DEF given, stale
<1>12. SetToSeq(stale \ dirty) \in Seq(RowIds)
  <2>1. IsFiniteSet(RowIds) /\ stale \ dirty \subseteq RowIds
    BY <1>10, ViewAssumption
  <2>2. IsFiniteSet(stale \ dirty)
    BY <2>1, FS_Subset
  <2> QED
    BY <2>1, <2>2, SetToSeqType, SeqMonotonic
<1> DEFINE w == SetToSeq(stale \ dirty)
           p == Forget(q, gone)
<1> HIDE DEF w
<1>13. \A e \in Named : Places(w, e) = {}
  <2>1. \A i \in DOMAIN w : w[i] \in RowIds
    BY <1>12, LenProperties, ElementOfSeq DEF w
  <2> QED
    BY <1>11, <2>1 DEF Places
<1>14. p \in Seq(EffectIds) /\ \A e \in Named : Places(p, e) = Places(q, e)
  BY <1>10, <1>11, Forgotten
<1> HIDE DEF p, gone
<1>15. w \in Seq(EffectIds)
  BY <1>12, SeqMonotonic DEF w, EffectIds
<1>16. pending' \in Seq(EffectIds) /\ \A e \in Named : Places(pending', e) = Places(q, e)
  <2>1. pending' = p \o w
    BY <1>1 DEF p, w
  <2> QED
    BY <1>13, <1>14, <1>15, <2>1, Concat
<1>17. \A e \in Named : e \in dirty' <=> e \in dirty \/ e = "list"
  BY <1>1, <1>10, <1>11 DEF gone
<1>18. ListFrameOf(f)
  BY <1>7, <1>8, <1>9 DEF ListFrameOf, ListFrame
<1> HIDE DEF f
<1>19. stack' = Append(s, f) \/ stack' = Append(Append(s, f), FlushFrame)
  BY <1>1 DEF ScheduleOrFlush
<1>20. ListStarted(s)
  BY <1>18, <1>19 DEF ListStarted
<1> QED
  BY <1>1, <1>2, <1>9, <1>16, <1>17, <1>20
-----------------------------------------------------------------------------
(* The calls that start and end                                            *)

LEMMA Invariant ==
  ASSUME IInv, ~panicked
  PROVE  /\ items \in Lists
         /\ Core(stack, pending, alive, dirty, DOMAIN row, store)
         /\ IsStack(stack) /\ pending \in Seq(EffectIds)
         /\ NamesLeft(DOMAIN row)
         /\ stack # <<>> => phase # "new"
  BY DEF IInv, Core

LEMMA MaybeFlushStack ==
  ASSUME NEW s
  PROVE  /\ ScheduleOrFlush(s) => stack' = s \/ stack' = Append(s, FlushFrame)
         /\ MaybeFlush(s) => stack' = s \/ stack' = Append(s, FlushFrame)
  BY DEF ScheduleOrFlush, MaybeFlush

LEMMA FlushStarts ==
  ASSUME NEW s, NEW q, NEW live, NEW marked, NEW rows, NEW stored,
         Core(s, q, live, marked, rows, stored),
         stack' = s \/ stack' = Append(s, FlushFrame)
  PROVE  Core(stack', q, live, marked, rows, stored)
<1>1. FlushFrame.op \notin Framed
  BY DEF FlushFrame, Framed
<1>2. Core(Append(s, FlushFrame), q, live, marked, rows, stored)
  BY <1>1, PushOther
<1> QED
  BY <1>2

LEMMA WatchRuns ==
  ASSUME NEW s, NEW q, NEW live, NEW rows, NEW stored,
         Core(s, q, live, dirty, rows, stored), RunWatch(s)
  PROVE  Core(stack', q, live, dirty', rows, stored)
<1>1. \A e \in Framed : e \in dirty => e \in dirty'
  BY DEF RunWatch, Framed
<1>2. Core(s, q, live, dirty', rows, stored)
  BY <1>1, OtherEffects
<1>3. CASE \E told, from : stack' = Append(s, CallbackFrame(told, from))
  <2> PICK told, from : stack' = Append(s, CallbackFrame(told, from))
    BY <1>3
  <2>1. CallbackFrame(told, from).op \notin Framed
    BY DEF CallbackFrame, Framed
  <2> QED
    BY <1>2, <2>1, PushOther
<1>4. CASE stack' = s \/ stack' = Append(s, FlushFrame)
  BY <1>2, <1>4, FlushStarts
<1>5. \/ \E told, from : stack' = Append(s, CallbackFrame(told, from))
      \/ MaybeFlush(s) \/ stack' = s
  BY DEF RunWatch
<1>6. MaybeFlush(s) => stack' = s \/ stack' = Append(s, FlushFrame)
  BY MaybeFlushStack
<1> QED
  BY <1>3, <1>4, <1>5, <1>6

(* The list's effect begins.                                               *)
LEMMA ListStarts ==
  ASSUME NEW s, NEW q \in Seq(EffectIds), NEW live,
         IsStack(s), OnceIn(s, q, live, dirty), BuildingIn(s, live),
         "list" \in live, Calls(s, "list") = {}, Places(q, "list") = {},
         items \in Lists, NamesLeft(DOMAIN row), DOMAIN row = Range(store), Reconcile(s, q)
  PROVE  /\ Core(stack', pending', live, dirty', DOMAIN row', store')
         /\ NamesLeft(DOMAIN row')
<1>1. /\ NamesLeft(DOMAIN row') /\ store' = store
      /\ pending' \in Seq(EffectIds)
      /\ \A e \in Framed : Places(pending', e) = Places(q, e)
      /\ \A e \in Framed : e \in dirty' <=> e \in dirty \/ e = "list"
  BY ReconcileRows DEF Named
<1>2. PICK f : ListFrameOf(f) /\ (stack' = Append(s, f) \/ stack' = Append(Append(s, f), FlushFrame))
  BY ReconcileRows DEF ListStarted
<1> DEFINE t == Append(s, f)
           k == Len(s) + 1
<1>3. /\ IsStack(t) /\ t[k] = f /\ \A i \in DOMAIN s : t[i] = s[i]
      /\ \A op : Calls(t, op) = IF f.op = op THEN Calls(s, op) \cup {k} ELSE Calls(s, op)
  <2>1. IsStack(s)
    OBVIOUS
  <2> QED
    BY ONLY <2>1, PushFrame DEF t, k
<1> HIDE DEF t, k
<1>4. Calls(t, "list") = {k} /\ Calls(t, "branch") = Calls(s, "branch")
  BY <1>2, <1>3 DEF ListFrameOf
<1>5. OnceIn(t, pending', live, dirty')
  <2> SUFFICES ASSUME NEW e \in Framed
               PROVE  /\ Single(Places(pending', e)) /\ Single(Calls(t, e))
                      /\ Places(pending', e) # {} => e \in live /\ e \in dirty' /\ Calls(t, e) = {}
                      /\ Calls(t, e) # {} /\ e \in live => e \in dirty'
    BY DEF OnceIn
  <2>1. CASE e = "list"
    BY <1>1, <1>4, <2>1 DEF Single
  <2>2. CASE e = "branch"
    BY <1>1, <1>4, <2>2 DEF OnceIn
  <2> QED
    BY <2>1, <2>2 DEF Framed
<1>6. BuildingIn(t, live)
  BY <1>3, <1>4 DEF BuildingIn, Calls
<1>7. RowsIn(t, live, DOMAIN row', store')
  BY <1>1, <1>2, <1>3, <1>4 DEF RowsIn, ListFrameOf
<1>8. Core(t, pending', live, dirty', DOMAIN row', store')
  BY <1>1, <1>3, <1>5, <1>6, <1>7 DEF Core
<1>9. stack' = t \/ stack' = Append(t, FlushFrame)
  BY <1>2 DEF t
<1> QED
  BY <1>1, <1>8, <1>9, FlushStarts
(* The branch is disposed: the list and all its rows go.                   *)
LEMMA Disposed ==
  ASSUME NEW q \in Seq(EffectIds), NEW effects \in SUBSET {"branch"}, DisposeBranch(q, effects),
         NamesLeft(DOMAIN row), DOMAIN row = Range(store)
  PROVE  /\ "list" \notin alive' /\ pending' \in Seq(EffectIds)
         /\ "branch" \in alive' <=> "branch" \in alive /\ "branch" \notin effects
         /\ "branch" \in dirty' <=> "branch" \notin effects
         /\ Places(pending', "list") = {}
         /\ Places(pending', "branch") = IF "branch" \in effects THEN {} ELSE Places(q, "branch")
         /\ DOMAIN row' = {} /\ NamesLeft(DOMAIN row') /\ Range(store') = {}
<1> DEFINE gone == {"watch", "list"} \cup effects \cup RowsLeft
<1>1. /\ alive' = alive \ gone /\ pending' = Forget(q, gone)
      /\ dirty' = (dirty \cup {"branch"}) \ gone
      /\ row' = [r \in DOMAIN row \ RowsLeft |-> row[r]] /\ store' = <<>>
  BY DEF DisposeBranch
<1>2. RowsLeft = DOMAIN row
  BY DEF RowsLeft
<1>3. "branch" \in gone <=> "branch" \in effects
  BY <1>2, ViewAssumption DEF NamesLeft, Effects
<1>4. "list" \in gone
  OBVIOUS
<1> HIDE DEF gone
<1>5. DOMAIN row' = {} /\ Range(store') = {}
  BY <1>1, <1>2 DEF Range
<1>6. NamesLeft({})
  <2>1. Cardinality({}) = 0 /\ Cardinality(RowIds) \in Nat
    BY FS_EmptySet, FS_CardinalityType, ViewAssumption
  <2> QED
    BY <2>1 DEF NamesLeft
<1>7. pending' \in Seq(EffectIds)
  BY <1>1, Forgotten
<1>8. \A e \in Framed : Places(pending', e) = IF e \in gone THEN {} ELSE Places(q, e)
  BY <1>1, Forgotten DEF Named
<1> QED
  BY <1>1, <1>3, <1>4, <1>5, <1>6, <1>7, <1>8 DEF Framed

(* The branch's effect runs.                                               *)
LEMMA BranchRuns ==
  ASSUME NEW q, Core(stack, q, alive, dirty, DOMAIN row, store), NamesLeft(DOMAIN row),
         Places(q, "branch") = {}, Calls(stack, "branch") = {},
         RunBranch(stack, q), ~panicked'
  PROVE  /\ Core(stack', pending', alive', dirty', DOMAIN row', store')
         /\ NamesLeft(DOMAIN row')
<1> DEFINE s == stack
<1>1. CASE SameBranch(s, q)
  <2>1. /\ stack' = s /\ pending' = q /\ dirty' = dirty \ {"branch"}
        /\ row' = row /\ store' = store /\ alive' = alive
    BY <1>1 DEF SameBranch
  <2>2. OnceIn(s, q, alive, dirty \ {"branch"})
    BY DEF Core, OnceIn, Framed
  <2> QED
    BY <2>1, <2>2 DEF Core
<1>2. CASE SwapBranch(s, q)
  <2>1. Calls(s, "list") = {}
    BY <1>2 DEF RunBranch, SwapBranch, Calling, Calls
  <2>2. DOMAIN row = Range(store) /\ IsStack(s) /\ q \in Seq(EffectIds)
    BY <2>1 DEF Core, RowsIn
  <2>3. PICK step : stack' = Append(s, BranchFrame(step))
    BY <1>2 DEF SwapBranch
  <2>4. DisposeBranch(q, {})
    BY <1>2 DEF SwapBranch
  <2>5. /\ "list" \notin alive' /\ pending' \in Seq(EffectIds) /\ "branch" \in dirty'
        /\ Places(pending', "list") = {} /\ Places(pending', "branch") = {}
        /\ DOMAIN row' = {} /\ NamesLeft(DOMAIN row') /\ Range(store') = {}
    BY <2>2, <2>4, Disposed
  <2> DEFINE f == BranchFrame(step)
             t == Append(s, f)
             k == Len(s) + 1
  <2>6. f.op = "branch"
    BY DEF BranchFrame
  <2> HIDE DEF f
  <2>7. /\ IsStack(t)
        /\ \A op : Calls(t, op) = IF f.op = op THEN Calls(s, op) \cup {k} ELSE Calls(s, op)
    BY <2>2, PushFrame
  <2> HIDE DEF t, k
  <2>8. Calls(t, "list") = {} /\ Calls(t, "branch") = {k}
    BY <2>1, <2>6, <2>7
  <2>9. OnceIn(t, pending', alive', dirty')
    BY <2>5, <2>8 DEF OnceIn, Framed, Single
  <2>10. BuildingIn(t, alive') /\ RowsIn(t, alive', DOMAIN row', store')
    BY <2>5, <2>8 DEF BuildingIn, RowsIn
  <2>11. Core(t, pending', alive', dirty', DOMAIN row', store')
    BY <2>5, <2>7, <2>9, <2>10 DEF Core
  <2> QED
    BY <2>3, <2>5, <2>11 DEF t, f
<1> QED
  BY <1>1, <1>2 DEF RunBranch

-----------------------------------------------------------------------------
(* Every step preserves the invariant                                      *)

LEMMA WritesPreserve ==
  ASSUME IInv, ~panicked, stack # <<>>,
         (\E new \in Lists : Write(new)) \/ (\E value \in BranchesOf(prog.builder) : Show(value))
  PROVE  IInv'
<1>1. /\ items \in Lists /\ NamesLeft(DOMAIN row) /\ phase # "new"
      /\ Core(stack, pending, alive, dirty, DOMAIN row, store)
  BY Invariant
<1>2. \A e \in Effects : Queued(e) \in {<<>>, <<e>>} /\ (Queued(e) = <<e>> => e \in alive \ dirty)
  <2> TAKE e \in Effects
  <2>1. <<>> # <<e>>
    OBVIOUS
  <2> QED
    BY <2>1 DEF Queued
<1>3. CASE \E new \in Lists : Write(new)
  <2> PICK new \in Lists : Write(new)
    BY <1>3
  <2> DEFINE b == "watch" \in alive \ dirty /\ IsSync("watch")
             q == pending \o Queued("watch")
             d == dirty \cup (alive \cap {"watch"})
  <2>1. /\ items' = new /\ pending' = q \o Queued("list")
        /\ dirty' = d \cup (alive \cap {"list"})
        /\ stack' = Append(stack, NotifyFrame(b))
        /\ UNCHANGED <<phase, alive, row, store, panicked>>
    BY DEF Write, dom
  <2>2. Core(stack, q, alive, d, DOMAIN row, store)
    BY <1>1, <1>2, Enqueue DEF Effects
  <2>3. Queued("list") = <<"list">> => "list" \in alive \ d
    BY <1>2 DEF Effects
  <2> HIDE DEF q, d, b
  <2>4. Core(stack, pending', alive, dirty', DOMAIN row, store)
    BY <1>2, <2>1, <2>2, <2>3, Enqueue DEF Effects
  <2>5. NotifyFrame(b).op \notin Framed
    BY DEF NotifyFrame, Framed
  <2>6. Core(stack', pending', alive, dirty', DOMAIN row, store)
    BY <2>1, <2>4, <2>5, PushOther
  <2> QED
    BY <1>1, <2>1, <2>6 DEF IInv
<1>4. CASE \E value \in BranchesOf(prog.builder) : Show(value)
  <2>1. /\ pending' = pending \o Queued("branch")
        /\ dirty' = dirty \cup (alive \cap {"branch"})
        /\ stack' = Append(stack, NotifyFrame(FALSE))
        /\ UNCHANGED <<items, phase, alive, row, store, panicked>>
    BY <1>4 DEF Show, dom
  <2>2. Core(stack, pending', alive, dirty', DOMAIN row, store)
    BY <1>1, <1>2, <2>1, Enqueue DEF Effects
  <2>3. NotifyFrame(FALSE).op \notin Framed
    BY DEF NotifyFrame, Framed
  <2>4. Core(stack', pending', alive, dirty', DOMAIN row, store)
    BY <2>1, <2>2, <2>3, PushOther
  <2> QED
    BY <1>1, <2>1, <2>4 DEF IInv
<1> QED
  BY <1>3, <1>4
LEMMA ReplaceOther ==
  ASSUME NEW s, NEW q, NEW live, NEW marked, NEW rows, NEW stored,
         Core(s, q, live, marked, rows, stored), s # <<>>, Last(s).op \notin Framed,
         NEW f, f.op \notin Framed
  PROVE  Core(Append(Front(s), f), q, live, marked, rows, stored)
<1>1. Core(Front(s), q, live, marked, rows, stored)
  BY PopOther
<1> QED
  BY <1>1, PushOther

(* Handlers, callbacks, notifications and flushes come and go.             *)
LEMMA HostPreserves ==
  ASSUME IInv, Mount \/ Event \/ Batch \/ Microtask
  PROVE  IInv'
<1>1. HandlerFrame.op \notin Framed /\ FlushFrame.op \notin Framed
  BY DEF HandlerFrame, FlushFrame, Framed
<1>2. UNCHANGED <<items, pending, dirty, alive, row, store, phase, panicked>> /\ ~panicked
  BY DEF Mount, Event, Batch, Microtask, queues, dom, AtRest, In
<1>3. CASE Mount
  BY <1>2, <1>3 DEF Mount, IInv, AtRest
<1>4. CASE Event \/ Batch \/ Microtask
  <2>1. phase # "new"
    BY <1>4 DEF Event, Batch, Microtask, IInv, AtRest, In
  <2>2. stack' = Append(stack, HandlerFrame) \/ stack' = Append(stack, FlushFrame)
    <3>1. <<HandlerFrame>> = Append(<<>>, HandlerFrame) /\ <<FlushFrame>> = Append(<<>>, FlushFrame)
      OBVIOUS
    <3> QED
      BY <1>4, <3>1 DEF Event, Batch, Microtask, AtRest
  <2>3. Core(stack', pending, alive, dirty, DOMAIN row, store)
    BY <1>1, <1>2, <2>2, Invariant, PushOther
  <2> QED
    BY <1>2, <2>1, <2>3, Invariant DEF IInv
<1> QED
  BY <1>3, <1>4

LEMMA ReturnsPreserve ==
  ASSUME IInv, HandlerDone \/ NotifyDone \/ CallbackDone \/ FlushDone
  PROVE  IInv'
<1>1. /\ UNCHANGED <<items, pending, alive, row, store, phase, panicked>>
      /\ ~panicked /\ stack # <<>> /\ Last(stack).op \notin Framed
  BY DEF HandlerDone, NotifyDone, CallbackDone, FlushDone, queues, dom, In, Top, Framed
<1>2. \A e \in Framed : e \in dirty => e \in dirty'
  BY DEF HandlerDone, NotifyDone, CallbackDone, FlushDone, queues, Framed
<1>3. Core(Front(stack), pending, alive, dirty, DOMAIN row, store)
  BY <1>1, Invariant, PopOther
<1>4. Core(Front(stack), pending, alive, dirty', DOMAIN row, store)
  BY <1>2, <1>3, OtherEffects
<1>5. stack' = Front(stack) \/ stack' = Append(Front(stack), FlushFrame)
  BY MaybeFlushStack DEF HandlerDone, NotifyDone, CallbackDone, FlushDone, Rest
<1>6. Core(stack', pending, alive, dirty', DOMAIN row, store)
  BY <1>4, <1>5, FlushStarts
<1> QED
  BY <1>1, <1>6, Invariant DEF IInv

LEMMA PostPhasePreserves ==
  ASSUME IInv, FlushTake \/ FlushCallback, ~panicked'
  PROVE  IInv'
<1>1. /\ UNCHANGED <<items, pending, dirty, alive, row, store, phase>>
      /\ ~panicked /\ stack # <<>> /\ Last(stack).op = "flush"
  BY DEF FlushTake, FlushCallback, queues, dom, In, Top
<1>2. Last(stack).op \notin Framed
  BY <1>1 DEF Framed
<1>3. CASE FlushTake
  <2> DEFINE f == [FlushFrame EXCEPT !.cbs = post]
  <2>1. stack' = Append(Front(stack), f)
    BY <1>3 DEF FlushTake, Resume, Rest, Top
  <2>2. f.op \notin Framed
    BY DEF FlushFrame, Framed
  <2> HIDE DEF f
  <2>3. Core(stack', pending, alive, dirty, DOMAIN row, store)
    BY <1>1, <1>2, <2>1, <2>2, Invariant, ReplaceOther
  <2> QED
    BY <1>1, <2>3, Invariant DEF IInv
<1>4. CASE FlushCallback
  <2> DEFINE f == [FlushFrame EXCEPT !.cbs = Tail(Last(stack).cbs)]
             g == CallbackFrame(Head(Last(stack).cbs), "flush")
  <2>1. stack' = Append(Append(Front(stack), f), g)
    BY <1>4 DEF FlushCallback, Resume, Rest, Top
  <2>2. f.op \notin Framed /\ g.op \notin Framed
    BY DEF CallbackFrame, FlushFrame, Framed
  <2> HIDE DEF f, g
  <2>3. Core(Append(Front(stack), f), pending, alive, dirty, DOMAIN row, store)
    BY <1>1, <1>2, <2>2, Invariant, ReplaceOther
  <2>4. Core(stack', pending, alive, dirty, DOMAIN row, store)
    BY <2>1, <2>2, <2>3, PushOther
  <2> QED
    BY <1>1, <2>4, Invariant DEF IInv
<1> QED
  BY <1>3, <1>4

(* The flush takes the next effect: nothing to do, a row, the watcher.     *)
LEMMA EffectsPreserve ==
  ASSUME IInv, FlushSkip \/ FlushRow \/ FlushWatch
  PROVE  IInv'
<1>1. /\ UNCHANGED <<items, alive, store, phase, panicked>> /\ ~panicked
      /\ stack # <<>> /\ pending # <<>> /\ pending' = Tail(pending)
  BY DEF FlushSkip, FlushRow, FlushWatch, Flushing, dom, In
<1>2. Core(stack, pending', alive, dirty, DOMAIN row, store)
  BY <1>1, Invariant, Dequeue
<1>3. CASE FlushSkip
  BY <1>1, <1>2, <1>3, Invariant DEF FlushSkip, dom, IInv
<1>4. CASE FlushRow
  <2>1. DOMAIN row' = DOMAIN row /\ stack' = stack /\ dirty' = dirty \ {Due} /\ Due \in RowIds
    BY <1>4 DEF FlushRow
  <2>2. \A e \in Framed : e \notin RowIds
    BY ViewAssumption DEF Framed, Effects
  <2>3. Core(stack, pending', alive, dirty', DOMAIN row, store)
    BY <1>2, <2>1, <2>2, OtherEffects
  <2> QED
    BY <1>1, <2>1, <2>3, Invariant DEF IInv
<1>5. CASE FlushWatch
  <2>1. RunWatch(stack) /\ row' = row
    BY <1>5 DEF FlushWatch, dom
  <2>2. Core(stack', pending', alive, dirty', DOMAIN row, store)
    BY <1>2, <2>1, WatchRuns
  <2> QED
    BY <1>1, <2>1, <2>2, Invariant DEF IInv
<1> QED
  BY <1>3, <1>4, <1>5

LEMMA RunSyncPreserves ==
  ASSUME IInv, RunSync
  PROVE  IInv'
<1> DEFINE s == Append(Front(stack), NotifyFrame(FALSE))
<1>1. /\ UNCHANGED <<items, pending, alive, row, store, phase, panicked>>
      /\ ~panicked /\ stack # <<>> /\ Last(stack).op \notin Framed
  BY DEF RunSync, dom, In, Top, Framed
<1>2. NotifyFrame(FALSE).op \notin Framed
  BY DEF NotifyFrame, Framed
<1>3. Core(s, pending, alive, dirty, DOMAIN row, store)
  BY <1>1, <1>2, Invariant, ReplaceOther
<1>4. RunWatch(s)
  BY DEF RunSync, Resume, Rest
<1> HIDE DEF s
<1>5. Core(stack', pending, alive, dirty', DOMAIN row, store)
  BY <1>3, <1>4, WatchRuns
<1> QED
  BY <1>1, <1>5, Invariant DEF IInv
LEMMA UnmountPreserves ==
  ASSUME IInv, Unmount, ~panicked'
  PROVE  IInv'
<1>1. /\ items' = items /\ stack' = stack /\ phase' = "unmounted" /\ ~panicked
      /\ DisposeBranch(pending, {"branch"}) /\ ~Calling("list")
  BY DEF Unmount, In
<1>2. Calls(stack, "list") = {}
  BY <1>1 DEF Calling, Calls
<1>3. DOMAIN row = Range(store) /\ pending \in Seq(EffectIds)
  BY <1>1, <1>2, Invariant DEF Core, RowsIn
<1>4. /\ "list" \notin alive' /\ "branch" \notin alive' /\ pending' \in Seq(EffectIds)
      /\ Places(pending', "list") = {} /\ Places(pending', "branch") = {}
      /\ DOMAIN row' = {} /\ NamesLeft(DOMAIN row') /\ Range(store') = {}
  BY <1>1, <1>3, Invariant, Disposed
<1>5. Core(stack, pending, alive, dirty, DOMAIN row, store)
  BY <1>1, Invariant
<1>6. OnceIn(stack, pending', alive', dirty')
  BY <1>4, <1>5 DEF Core, OnceIn, Framed, Single
<1>7. BuildingIn(stack, alive') /\ RowsIn(stack, alive', DOMAIN row', store')
  BY <1>2, <1>4 DEF BuildingIn, RowsIn
<1>8. Core(stack', pending', alive', dirty', DOMAIN row', store')
  BY <1>1, <1>4, <1>5, <1>6, <1>7 DEF Core
<1> QED
  BY <1>1, <1>4, <1>8, Invariant DEF IInv

LEMMA BranchPreserves ==
  ASSUME IInv, Create \/ FlushBranch, ~panicked'
  PROVE  IInv'
<1>1. ~panicked /\ items' = items /\ phase' # "new"
  BY Invariant DEF Create, FlushBranch, RunBranch, AtRest, Flushing, In
<1>2. PICK q : /\ RunBranch(stack, q)
               /\ Core(stack, q, alive, dirty, DOMAIN row, store)
               /\ Places(q, "branch") = {} /\ Calls(stack, "branch") = {}
  <2>1. CASE Create
    <3>1. stack = <<>> /\ pending = <<>> /\ RunBranch(stack, pending)
      BY <2>1 DEF Create, AtRest, IInv
    <3>2. Places(pending, "branch") = {} /\ Calls(stack, "branch") = {}
      BY <3>1 DEF Places, Calls
    <3> QED
      BY <1>1, <3>1, <3>2, Invariant
  <2>2. CASE FlushBranch
    <3>1. RunBranch(stack, Tail(pending)) /\ pending # <<>> /\ Head(pending) = "branch"
      BY <2>2 DEF FlushBranch, Flushing, Due
    <3>2. /\ Core(stack, Tail(pending), alive, dirty, DOMAIN row, store)
          /\ Places(Tail(pending), "branch") = {} /\ Calls(stack, "branch") = {}
      BY <1>1, <3>1, Invariant, Dequeue DEF Framed
    <3> QED
      BY <3>1, <3>2
  <2> QED
    BY <2>1, <2>2
<1>3. /\ Core(stack', pending', alive', dirty', DOMAIN row', store')
      /\ NamesLeft(DOMAIN row')
  BY <1>1, <1>2, Invariant, BranchRuns
<1> QED
  BY <1>1, <1>3, Invariant DEF IInv

(* The frame of the branch that is being built is the only one.            *)
LEMMA NextStep ==
  ASSUME NEW s, NEW q, NEW live, NEW marked, NEW rows, NEW stored,
         Core(s, q, live, marked, rows, stored), s # <<>>, Last(s).op = "branch",
         NEW step, NEW live2, live2 = live \/ step = "insert"
  PROVE  LET t == Append(Front(s), BranchFrame(step))
         IN /\ IsStack(t) /\ \A op : Calls(t, op) = Calls(s, op)
            /\ OnceIn(t, q, live, marked)
            /\ Last(s).step # "insert" => BuildingIn(t, live2)
            /\ Last(s).step # "insert" => "list" \notin live
<1> DEFINE f == BranchFrame(step)
           t == Append(Front(s), f)
           k == Len(s)
<1>1. f.op = Last(s).op /\ f.step = step
  BY DEF BranchFrame
<1> HIDE DEF f
<1>2. /\ IsStack(t) /\ DOMAIN t = DOMAIN s
      /\ k \in DOMAIN s /\ Last(s) = s[k] /\ t[k] = f
      /\ \A op : Calls(t, op) = Calls(s, op)
  BY <1>1, ReplaceFrame DEF Core
<1> HIDE DEF t, k
<1>3. k \in Calls(s, "branch") /\ Single(Calls(s, "branch"))
  BY <1>2 DEF Calls, Core, OnceIn, Framed
<1>4. Calls(t, "branch") = {k}
  BY <1>2, <1>3 DEF Single
<1>5. OnceIn(t, q, live, marked)
  BY <1>2 DEF Core, OnceIn
<1>6. ASSUME Last(s).step # "insert"
      PROVE  "list" \notin live /\ BuildingIn(t, live2)
  <2>1. "list" \notin live
    BY <1>2, <1>3, <1>6 DEF Core, BuildingIn
  <2> QED
    BY <1>1, <1>2, <1>4, <2>1 DEF BuildingIn
<1> QED
  BY <1>2, <1>5, <1>6 DEF t, f

LEMMA MakeWatchPreserves ==
  ASSUME IInv, MakeWatch
  PROVE  IInv'
<1> DEFINE s == Append(Front(stack), BranchFrame("list"))
<1>1. /\ UNCHANGED <<items, pending, row, store, phase, panicked>>
      /\ ~panicked /\ stack # <<>> /\ Last(stack).op = "branch" /\ Last(stack).step = "watch"
      /\ alive' = alive \cup {"watch"} /\ RunWatch(s)
  BY DEF MakeWatch, Step, dom, In, Top, Resume, Rest
<1>2. Core(stack, pending, alive, dirty, DOMAIN row, store)
  BY <1>1, Invariant
<1>3. /\ IsStack(s) /\ \A op : Calls(s, op) = Calls(stack, op)
      /\ OnceIn(s, pending, alive, dirty) /\ BuildingIn(s, alive) /\ "list" \notin alive
  BY <1>1, <1>2, NextStep
<1> HIDE DEF s
<1>4. Calls(s, "list") = {}
  BY <1>2, <1>3 DEF Core, RowsIn
<1>5. RowsIn(s, alive, DOMAIN row, store)
  BY <1>2, <1>3, <1>4 DEF Core, RowsIn
<1>6. Core(s, pending, alive, dirty, DOMAIN row, store)
  BY <1>2, <1>3, <1>5 DEF Core
<1>7. Core(s, pending, alive', dirty, DOMAIN row, store)
  BY <1>1, <1>6, OtherEffects DEF Framed
<1>8. Core(stack', pending, alive', dirty', DOMAIN row, store)
  BY <1>1, <1>7, WatchRuns
<1> QED
  BY <1>1, <1>8, Invariant DEF IInv

LEMMA ListPreserves ==
  ASSUME IInv, MakeList \/ FlushList
  PROVE  IInv'
<1>1. /\ UNCHANGED <<items, phase, panicked>> /\ ~panicked /\ stack # <<>>
  BY DEF MakeList, FlushList, Step, Flushing, In, Reconcile
<1>2. Core(stack, pending, alive, dirty, DOMAIN row, store) /\ items \in Lists /\ NamesLeft(DOMAIN row)
  BY <1>1, Invariant
<1>3. CASE MakeList
  <2> DEFINE s == Append(Front(stack), BranchFrame("insert"))
  <2>1. /\ Last(stack).op = "branch" /\ Last(stack).step = "list"
        /\ alive' = alive \cup {"list"} /\ Reconcile(s, pending)
    BY <1>3 DEF MakeList, Step, In, Top, Resume, Rest
  <2>2. /\ IsStack(s) /\ \A op : Calls(s, op) = Calls(stack, op)
        /\ OnceIn(s, pending, alive, dirty) /\ BuildingIn(s, alive') /\ "list" \notin alive
    BY <1>1, <1>2, <2>1, NextStep
  <2> HIDE DEF s
  <2>3. Calls(s, "list") = {} /\ Places(pending, "list") = {}
    BY <1>2, <2>2 DEF Core, RowsIn, OnceIn, Framed
  <2>4. DOMAIN row = Range(store) /\ pending \in Seq(EffectIds)
    BY <1>2, <2>2, <2>3 DEF Core, RowsIn
  <2>5. OnceIn(s, pending, alive', dirty)
    BY <2>1, <2>2, <2>3 DEF OnceIn, Framed
  <2>6. /\ Core(stack', pending', alive', dirty', DOMAIN row', store')
        /\ NamesLeft(DOMAIN row')
    BY <1>2, <2>1, <2>2, <2>3, <2>4, <2>5, ListStarts
  <2> QED
    BY <1>1, <1>2, <2>6, Invariant DEF IInv
<1>4. CASE FlushList
  <2>1. /\ pending # <<>> /\ Head(pending) = "list"
        /\ Reconcile(stack, Tail(pending)) /\ alive' = alive
    BY <1>4 DEF FlushList, Flushing, Due
  <2>2. /\ Core(stack, Tail(pending), alive, dirty, DOMAIN row, store)
        /\ Places(Tail(pending), "list") = {} /\ Calls(stack, "list") = {} /\ "list" \in alive
    <3>1. Head(pending) \in Framed
      BY <2>1 DEF Framed
    <3>2. /\ Core(stack, Tail(pending), alive, dirty, DOMAIN row, store)
          /\ Places(Tail(pending), Head(pending)) = {} /\ Calls(stack, Head(pending)) = {}
          /\ Head(pending) \in alive
      BY <1>2, <2>1, <3>1, Dequeue
    <3> QED
      BY <2>1, <3>2
  <2>3. /\ Tail(pending) \in Seq(EffectIds) /\ IsStack(stack) /\ DOMAIN row = Range(store)
        /\ OnceIn(stack, Tail(pending), alive, dirty) /\ BuildingIn(stack, alive)
    BY <2>2 DEF Core, RowsIn
  <2>4. /\ Core(stack', pending', alive', dirty', DOMAIN row', store')
        /\ NamesLeft(DOMAIN row')
    BY <1>2, <2>1, <2>2, <2>3, ListStarts
  <2> QED
    BY <1>1, <1>2, <2>4, Invariant DEF IInv
<1> QED
  BY <1>3, <1>4

(* The list's effect ends, or the branch's.                                *)
LEMMA EndsPreserve ==
  ASSUME IInv, Place \/ InsertBranch
  PROVE  IInv'
<1> DEFINE t == Front(stack)
           k == Len(stack)
<1>1. /\ UNCHANGED <<items, pending, alive, row, phase, panicked>>
      /\ ~panicked /\ stack # <<>> /\ stack' = t
  BY DEF Place, InsertBranch, Step, In, Rest
<1>2. Core(stack, pending, alive, dirty, DOMAIN row, store)
  BY <1>1, Invariant
<1>3. /\ IsStack(t) /\ k \in DOMAIN stack /\ Last(stack) = stack[k]
      /\ \A i \in DOMAIN t : t[i] = stack[i]
      /\ \A op : Calls(t, op) = Calls(stack, op) \ {k}
  <2>1. IsStack(stack) /\ stack # <<>>
    BY <1>1, <1>2 DEF Core
  <2>2. /\ IsStack(t) /\ DOMAIN stack = DOMAIN t \cup {k}
        /\ Last(stack) = stack[k] /\ \A i \in DOMAIN t : t[i] = stack[i]
        /\ \A op : Calls(t, op) = Calls(stack, op) \ {k}
    BY <2>1, PopFrame
  <2> QED
    BY <2>2
<1> HIDE DEF t, k
<1>4. \A op, i : i \in Calls(t, op) => i \in DOMAIN t
  BY DEF Calls
<1>5. BuildingIn(t, alive)
  BY <1>2, <1>3, <1>4 DEF Core, BuildingIn
<1>6. CASE Place
  <2>1. /\ Last(stack).op = "list" /\ store' = Last(stack).result /\ dirty' = dirty \ {"list"}
    BY <1>6 DEF Place, In, Top
  <2>2. k \in Calls(stack, "list")
    BY <1>3, <2>1 DEF Calls
  <2>3. Calls(t, "list") = {} /\ Calls(t, "branch") = Calls(stack, "branch")
    <3>1. Single(Calls(stack, "list"))
      BY <1>2 DEF Core, OnceIn, Framed
    <3>2. k \notin Calls(stack, "branch")
      BY <1>3, <2>1 DEF Calls
    <3> QED
      BY <1>3, <2>2, <3>1, <3>2 DEF Single
  <2>4. OnceIn(t, pending, alive, dirty')
    BY <1>2, <2>1, <2>2, <2>3 DEF Core, OnceIn, Framed
  <2>5. RowsIn(t, alive, DOMAIN row, store')
    BY <1>2, <1>3, <2>1, <2>2, <2>3 DEF Core, RowsIn
  <2>6. Core(t, pending, alive, dirty', DOMAIN row, store')
    BY <1>2, <1>3, <1>5, <2>4, <2>5 DEF Core
  <2> QED
    BY <1>1, <2>6, Invariant DEF IInv
<1>7. CASE InsertBranch
  <2>1. Last(stack).op = "branch" /\ store' = store /\ dirty' = dirty \ {"branch"}
    BY <1>7 DEF InsertBranch, Step, In, Top
  <2>2. k \in Calls(stack, "branch")
    BY <1>3, <2>1 DEF Calls
  <2>3. Calls(t, "branch") = {} /\ Calls(t, "list") = Calls(stack, "list")
    <3>1. Single(Calls(stack, "branch"))
      BY <1>2 DEF Core, OnceIn, Framed
    <3>2. k \notin Calls(stack, "list")
      BY <1>3, <2>1 DEF Calls
    <3> QED
      BY <1>3, <2>2, <3>1, <3>2 DEF Single
  <2>4. OnceIn(t, pending, alive, dirty')
    BY <1>2, <2>1, <2>2, <2>3 DEF Core, OnceIn, Framed
  <2>5. RowsIn(t, alive, DOMAIN row, store)
    BY <1>2, <1>3, <1>4, <2>3 DEF Core, RowsIn
  <2>6. Core(t, pending, alive, dirty', DOMAIN row, store)
    BY <1>2, <1>3, <1>5, <2>4, <2>5 DEF Core
  <2> QED
    BY <1>1, <2>1, <2>6, Invariant DEF IInv
<1> QED
  BY <1>6, <1>7

-----------------------------------------------------------------------------
(* The theorems                                                            *)

LEMMA InitInvariant ==
  ASSUME Init
  PROVE  IInv
<1>1. Calls(<<>>, "list") = {} /\ Calls(<<>>, "branch") = {}
  BY DEF Calls
<1>2. Places(<<>>, "list") = {} /\ Places(<<>>, "branch") = {}
  BY DEF Places
<1>3. DOMAIN row = {} /\ Range(store) = {}
  BY DEF Init, Range
<1>4. OnceIn(<<>>, <<>>, {"branch"}, {})
  BY <1>1, <1>2 DEF OnceIn, Framed, Single
<1>5. BuildingIn(<<>>, {"branch"}) /\ RowsIn(<<>>, {"branch"}, DOMAIN row, store)
  BY <1>1, <1>3 DEF BuildingIn, RowsIn
<1>6. IsStack(<<>>) /\ <<>> \in Seq(EffectIds)
  BY EmptySeq DEF IsStack
<1>7. NamesLeft({})
  <2>1. Cardinality({}) = 0 /\ Cardinality(RowIds) \in Nat
    BY FS_EmptySet, FS_CardinalityType, ViewAssumption
  <2> QED
    BY <2>1 DEF NamesLeft
<1> QED
  BY <1>3, <1>4, <1>5, <1>6, <1>7 DEF Init, IInv, Core

LEMMA NextInvariant ==
  ASSUME IInv, [Next]_vars
  PROVE  IInv'
<1> SUFFICES ASSUME ~panicked' PROVE IInv'
  BY DEF IInv
<1>1. CASE Create \/ FlushBranch
  BY <1>1, BranchPreserves
<1>2. CASE Mount \/ Event \/ Batch \/ Microtask
  BY <1>2, HostPreserves
<1>3. CASE HandlerDone \/ NotifyDone \/ CallbackDone \/ FlushDone
  BY <1>3, ReturnsPreserve
<1>4. CASE WriteItems \/ WriteShown
  BY <1>4, WritesPreserve DEF WriteItems, WriteShown, WritesItems, WritesShown, In
<1>5. CASE MakeList \/ FlushList
  BY <1>5, ListPreserves
<1>6. CASE Place \/ InsertBranch
  BY <1>6, EndsPreserve
<1>7. CASE FlushSkip \/ FlushRow \/ FlushWatch
  BY <1>7, EffectsPreserve
<1>8. CASE FlushTake \/ FlushCallback
  BY <1>8, PostPhasePreserves
<1>9. CASE Unmount
  BY <1>9, UnmountPreserves
<1>10. CASE RunSync
  BY <1>10, RunSyncPreserves
<1>11. CASE MakeWatch
  BY <1>11, MakeWatchPreserves
<1>12. CASE UNCHANGED vars
  BY <1>12 DEF vars, queues, dom, IInv
<1> QED
  BY <1>1, <1>2, <1>3, <1>4, <1>5, <1>6, <1>7, <1>8, <1>9, <1>10, <1>11, <1>12 DEF Next

(* The strengthening that the theorems rest on.                            *)
THEOREM BookkeepingInvariant == Spec => []IInv
<1> QED
  BY InitInvariant, NextInvariant, PTL DEF Spec

LEMMA RowsAtRest ==
  ASSUME IInv
  PROVE  NoRowLeaks
<1> SUFFICES ASSUME stack = <<>>, ~panicked
             PROVE  DOMAIN row = Range(store) /\ ("list" \notin alive => DOMAIN row = {})
  BY DEF NoRowLeaks
<1>1. Calls(stack, "list") = {}
  BY DEF Calls
<1> QED
  BY <1>1, Invariant DEF Core, RowsIn

(* For all lists, programs and habits, also those the run leaves out: when *)
(* no call is under way, the rows alive are those the list has stored, and *)
(* none when the list is gone.                                             *)
THEOREM RowsNeverLeak == Spec => []NoRowLeaks
<1> QED
  BY BookkeepingInvariant, RowsAtRest, PTL
LEMMA StepKeepsRows ==
  ASSUME IInv, Next
  PROVE  RowsKept
<1>1. CASE Place
  <2> DEFINE k == Len(stack)
  <2>1. /\ ~panicked /\ stack # <<>> /\ Last(stack).op = "list" /\ store' = Last(stack).result
    BY <1>1 DEF Place, In, Top
  <2>2. IsStack(stack) /\ RowsIn(stack, alive, DOMAIN row, store)
    BY <2>1, Invariant DEF Core
  <2>3. k \in DOMAIN stack /\ Last(stack) = stack[k]
    <3>1. /\ DOMAIN stack = DOMAIN Front(stack) \cup {k}
          /\ Last(stack) = stack[k]
      BY <2>1, <2>2, PopFrame
    <3> QED
      BY <3>1
  <2>4. k \in Calls(stack, "list")
    BY <2>1, <2>3 DEF Calls
  <2>5. Agree(Last(stack).result, store)
    BY <2>2, <2>3, <2>4 DEF RowsIn
  <2> QED
    BY <2>1, <2>5 DEF Agree, RowsKept
<1>2. CASE store' = <<>>
  BY <1>2 DEF RowsKept
<1>3. CASE store' = store
  BY <1>3 DEF RowsKept
<1>4. Place \/ store' = <<>> \/ store' = store
  <2>1. ASSUME NEW s, NEW q, Reconcile(s, q)
        PROVE  store' = store
    BY <2>1 DEF Reconcile
  <2>2. ASSUME NEW s, NEW q, RunBranch(s, q)
        PROVE  store' = store \/ store' = <<>>
    BY <2>2 DEF RunBranch, SameBranch, SwapBranch, DisposeBranch
  <2>3. CASE MakeList \/ FlushList
    BY <2>1, <2>3 DEF MakeList, FlushList
  <2>4. CASE Create \/ FlushBranch
    BY <2>2, <2>4 DEF Create, FlushBranch
  <2>5. CASE Unmount
    BY <2>5 DEF Unmount, DisposeBranch
  <2>6. CASE WriteItems \/ WriteShown
    BY <2>6 DEF WriteItems, WriteShown, Write, Show, dom
  <2>7. CASE RunSync \/ MakeWatch \/ FlushWatch \/ InsertBranch \/ FlushSkip \/ FlushRow
    BY <2>7 DEF RunSync, MakeWatch, FlushWatch, InsertBranch, FlushSkip, FlushRow, dom
  <2>8. CASE Mount \/ Event \/ Batch \/ HandlerDone \/ Microtask \/ NotifyDone \/ CallbackDone
    BY <2>8 DEF Mount, Event, Batch, HandlerDone, Microtask, NotifyDone, CallbackDone, dom
  <2>9. CASE FlushTake \/ FlushCallback \/ FlushDone
    BY <2>9 DEF FlushTake, FlushCallback, FlushDone, dom
  <2> QED
    BY <2>3, <2>4, <2>5, <2>6, <2>7, <2>8, <2>9 DEF Next
<1> QED
  BY <1>1, <1>2, <1>3, <1>4

(* For all lists, programs and habits: an item whose key stays keeps its   *)
(* row, whatever edits, hides and flushes come between.                    *)
THEOREM RowsNeverChangeHands == Spec => KeepsRows
<1>1. IInv /\ [Next]_vars => [RowsKept]_vars
  BY StepKeepsRows
<1> QED
  BY <1>1, BookkeepingInvariant, PTL DEF Spec, KeepsRows

-----------------------------------------------------------------------------
(* The shape of the stack                                                  *)

(* With the scheduler, flushes start at the bottom of the stack, and a     *)
(* list's effect calls nothing.  Without it, handlers start there, and a   *)
(* callback calls nothing.                                                 *)
ShapeIn(s, deferred) ==
  /\ deferred => /\ \A i \in Calls(s, "flush") : i = 1
                 /\ \A i \in Calls(s, "list") : i = Len(s)
  /\ ~deferred => /\ \A i \in Calls(s, "handler") : i = 1
                  /\ \A i \in Calls(s, "callback") : i = Len(s)

(* Without the scheduler, the branch is not queued behind its list.        *)
OrderIn(s, q, deferred) ==
  ~deferred =>
    /\ Calls(s, "list") # {} => Places(q, "branch") = {}
    /\ \A i \in Places(q, "list"), j \in Places(q, "branch") : j < i

PInv ==
  /\ ~panicked /\ async \in BOOLEAN
  /\ ShapeIn(stack, async) /\ OrderIn(stack, pending, async)
-----------------------------------------------------------------------------
(* What calls and returns do to the shape of the stack                     *)

(* The innermost call is none that may call nothing.                       *)
ClearIn(s, deferred) ==
  /\ deferred => Calls(s, "list") = {}
  /\ ~deferred => Calls(s, "callback") = {}

LEMMA OnTop ==
  ASSUME NEW s, IsStack(s), s # <<>>
  PROVE  Len(s) \in DOMAIN s /\ Last(s) = s[Len(s)]
<1>1. DOMAIN s = DOMAIN Front(s) \cup {Len(s)} /\ Last(s) = s[Len(s)]
  BY PopFrame
<1> QED
  BY <1>1

LEMMA TopClear ==
  ASSUME NEW s, IsStack(s), s # <<>>, NEW deferred \in BOOLEAN, ShapeIn(s, deferred),
         Last(s).op \notin {"list", "callback"}
  PROVE  ClearIn(s, deferred)
<1>1. Last(s) = s[Len(s)]
  BY OnTop
<1>2. \A op : \A i \in Calls(s, op) : s[i].op = op
  BY DEF Calls
<1> QED
  BY <1>1, <1>2 DEF ShapeIn, ClearIn

LEMMA AppendLength ==
  ASSUME NEW s, IsStack(s), NEW f
  PROVE  Len(Append(s, f)) = Len(s) + 1
<1>1. s \in Seq(Range(s) \cup {f}) /\ f \in Range(s) \cup {f}
  BY SeqMonotonic DEF IsStack
<1> QED
  BY <1>1, AppendProperties

LEMMA ShapePush ==
  ASSUME NEW s, IsStack(s), NEW deferred \in BOOLEAN,
         ShapeIn(s, deferred), ClearIn(s, deferred), NEW f,
         deferred => f.op # "flush", ~deferred => f.op # "handler"
  PROVE  ShapeIn(Append(s, f), deferred)
<1> DEFINE t == Append(s, f)
           k == Len(s) + 1
<1>1. /\ IsStack(t) /\ DOMAIN t = DOMAIN s \cup {k}
      /\ \A op : Calls(t, op) = IF f.op = op THEN Calls(s, op) \cup {k} ELSE Calls(s, op)
  BY PushFrame
<1>2. Len(t) = k
  BY AppendLength
<1> HIDE DEF t, k
<1> QED
  BY <1>1, <1>2 DEF ShapeIn, ClearIn, t

LEMMA ShapePop ==
  ASSUME NEW s, IsStack(s), s # <<>>, NEW deferred \in BOOLEAN, ShapeIn(s, deferred)
  PROVE  ShapeIn(Front(s), deferred) /\ ClearIn(Front(s), deferred)
<1>1. \A op : Calls(Front(s), op) = Calls(s, op) \ {Len(s)}
  BY PopFrame
<1> QED
  BY <1>1 DEF ShapeIn, ClearIn

LEMMA ShapeReplace ==
  ASSUME NEW s, IsStack(s), s # <<>>, NEW deferred \in BOOLEAN, ShapeIn(s, deferred),
         NEW f, f.op = Last(s).op, f.op \notin {"list", "callback"}
  PROVE  LET t == Append(Front(s), f)
         IN /\ IsStack(t) /\ ShapeIn(t, deferred) /\ ClearIn(t, deferred)
            /\ \A op : Calls(t, op) = Calls(s, op)
<1> DEFINE t == Append(Front(s), f)
<1>1. IsStack(t) /\ \A op : Calls(t, op) = Calls(s, op)
  BY ReplaceFrame
<1> HIDE DEF t
<1>2. ClearIn(s, deferred)
  BY TopClear
<1>3. ClearIn(t, deferred)
  BY <1>1, <1>2 DEF ClearIn
<1>4. ShapeIn(t, deferred)
  BY <1>1, <1>2 DEF ShapeIn, ClearIn
<1> QED
  BY <1>1, <1>3, <1>4 DEF t

LEMMA PushCalls ==
  ASSUME NEW s, IsStack(s), NEW f, NEW op, f.op # op
  PROVE  Calls(Append(s, f), op) = Calls(s, op)
<1>1. \A x : Calls(Append(s, f), x) = IF f.op = x THEN Calls(s, x) \cup {Len(s) + 1} ELSE Calls(s, x)
  BY PushFrame
<1> QED
  BY <1>1

LEMMA FlushShape ==
  ASSUME NEW s, IsStack(s), async \in BOOLEAN, ShapeIn(s, async), ClearIn(s, async),
         ScheduleOrFlush(s) \/ MaybeFlush(s)
  PROVE  ShapeIn(stack', async) /\ Calls(stack', "list") = Calls(s, "list")
<1>1. FlushFrame.op = "flush"
  BY DEF FlushFrame
<1>2. stack' = s \/ (~async /\ stack' = Append(s, FlushFrame))
  BY DEF MaybeFlush, ScheduleOrFlush
<1>3. ~async => ShapeIn(Append(s, FlushFrame), async)
  BY <1>1, ShapePush
<1>4. Calls(Append(s, FlushFrame), "list") = Calls(s, "list")
  BY <1>1, PushCalls
<1> QED
  BY <1>2, <1>3, <1>4

LEMMA WatchShape ==
  ASSUME NEW s, IsStack(s), async \in BOOLEAN, ShapeIn(s, async), ClearIn(s, async), RunWatch(s)
  PROVE  ShapeIn(stack', async) /\ Calls(stack', "list") = Calls(s, "list")
<1>1. CASE \E told, from : stack' = Append(s, CallbackFrame(told, from))
  <2> PICK told, from : stack' = Append(s, CallbackFrame(told, from))
    BY <1>1
  <2>1. CallbackFrame(told, from).op = "callback"
    BY DEF CallbackFrame
  <2> DEFINE f == CallbackFrame(told, from)
  <2> HIDE DEF f
  <2>2. ShapeIn(Append(s, f), async) /\ Calls(Append(s, f), "list") = Calls(s, "list")
    BY <2>1, ShapePush, PushCalls DEF f
  <2> QED
    BY <2>2 DEF f
<1>2. CASE MaybeFlush(s) \/ stack' = s
  BY <1>2, FlushShape
<1> QED
  BY <1>1, <1>2 DEF RunWatch
-----------------------------------------------------------------------------
(* What steps do to the order of the queue                                 *)

LEMMA OrderFewerCalls ==
  ASSUME NEW s, NEW t, NEW q, NEW deferred, OrderIn(s, q, deferred),
         Calls(t, "list") \subseteq Calls(s, "list")
  PROVE  OrderIn(t, q, deferred)
  BY DEF OrderIn

LEMMA OrderTail ==
  ASSUME NEW s, NEW q \in Seq(EffectIds), q # <<>>, NEW deferred, OrderIn(s, q, deferred)
  PROVE  /\ OrderIn(s, Tail(q), deferred)
         /\ Head(q) = "list" /\ ~deferred => Places(Tail(q), "branch") = {}
         /\ Head(q) = "branch" /\ ~deferred => Calls(s, "list") = {}
<1> DEFINE p == Tail(q)
<1>1. /\ Len(q) \in Nat \ {0} /\ DOMAIN q = 1 .. Len(q) /\ Head(q) = q[1]
      /\ p \in Seq(EffectIds) /\ Len(p) = Len(q) - 1
      /\ \A i \in 1 .. Len(p) : p[i] = q[i + 1]
  BY HeadTailProperties, LenProperties, EmptySeq
<1>2. DOMAIN p = 1 .. Len(q) - 1
  BY <1>1, LenProperties
<1> HIDE DEF p
<1>3. \A e : \A i \in Places(p, e) : i \in Nat \ {0} /\ i + 1 \in Places(q, e)
  BY <1>1, <1>2 DEF Places
<1>4. 1 \in Places(q, Head(q))
  BY <1>1 DEF Places
<1>5. ASSUME ~deferred
      PROVE  /\ Calls(s, "list") # {} => Places(p, "branch") = {}
             /\ \A i \in Places(p, "list"), j \in Places(p, "branch") : j < i
             /\ Head(q) = "list" => Places(p, "branch") = {}
             /\ Head(q) = "branch" => Calls(s, "list") = {}
  <2>1. /\ Calls(s, "list") # {} => Places(q, "branch") = {}
        /\ \A i \in Places(q, "list"), j \in Places(q, "branch") : j < i
    BY <1>5 DEF OrderIn
  <2>2. Calls(s, "list") # {} => Places(p, "branch") = {}
    BY <1>3, <2>1
  <2>3. ASSUME NEW i \in Places(p, "list"), NEW j \in Places(p, "branch")
        PROVE  j < i
    <3>1. i \in Nat /\ j \in Nat /\ j + 1 < i + 1
      BY <1>3, <2>1
    <3> QED
      BY <3>1
  <2>4. ASSUME Head(q) = "list", NEW j \in Places(p, "branch")
        PROVE  FALSE
    <3>1. j \in Nat /\ j + 1 < 1
      BY <1>3, <1>4, <2>1, <2>4
    <3> QED
      BY <3>1
  <2>5. Head(q) = "branch" => Calls(s, "list") = {}
    BY <1>4, <2>1
  <2> QED
    BY <2>2, <2>3, <2>4, <2>5
<1> QED
  BY <1>5 DEF OrderIn, p

(* The branch is not added behind the list.                                *)
LEMMA OrderConcat ==
  ASSUME NEW s, NEW q \in Seq(EffectIds), NEW w \in Seq(EffectIds), NEW deferred,
         OrderIn(s, q, deferred), Places(w, "branch") = {}
  PROVE  OrderIn(s, q \o w, deferred)
<1> DEFINE p == q \o w
<1>1. p \in Seq(EffectIds) /\ Places(p, "branch") = Places(q, "branch")
  BY Concat
<1>2. /\ Len(q) \in Nat /\ Len(w) \in Nat /\ DOMAIN q = 1 .. Len(q)
      /\ DOMAIN p = 1 .. Len(q) + Len(w)
      /\ \A i \in 1 .. Len(q) + Len(w) : p[i] = IF i <= Len(q) THEN q[i] ELSE w[i - Len(q)]
  BY ConcatProperties, LenProperties
<1> HIDE DEF p
<1>3. ASSUME ~deferred, NEW i \in Places(p, "list"), NEW j \in Places(q, "branch")
      PROVE  j < i
  <2>1. j \in 1 .. Len(q)
    BY <1>2 DEF Places
  <2>2. CASE i <= Len(q)
    <3>1. i \in Places(q, "list")
      BY <1>2, <2>2 DEF Places
    <3> QED
      BY <1>3, <3>1 DEF OrderIn
  <2>3. CASE ~(i <= Len(q))
    <3>1. i \in Nat
      BY <1>2 DEF Places
    <3> QED
      BY <1>2, <2>1, <2>3, <3>1
  <2> QED
    BY <2>2, <2>3
<1> QED
  BY <1>1, <1>3 DEF OrderIn, p

-----------------------------------------------------------------------------
(* Every step preserves the shape                                          *)

LEMMA Shape ==
  ASSUME IInv, PInv
  PROVE  /\ ~panicked /\ async \in BOOLEAN
         /\ ShapeIn(stack, async) /\ OrderIn(stack, pending, async)
         /\ IsStack(stack) /\ pending \in Seq(EffectIds)
         /\ Core(stack, pending, alive, dirty, DOMAIN row, store)
         /\ items \in Lists /\ NamesLeft(DOMAIN row)
  BY Invariant DEF PInv

(* A call at the bottom of the stack that is also the innermost.           *)
LEMMA Bottom ==
  ASSUME IsStack(stack), stack # <<>>, Len(stack) = 1, NEW op, op # Last(stack).op
  PROVE  Calls(stack, op) = {}
<1>1. DOMAIN stack = 1 .. 1 /\ Last(stack) = stack[1]
  BY OnTop, LenProperties DEF IsStack
<1> QED
  BY <1>1 DEF Calls

LEMMA FlushBottom ==
  ASSUME IInv, PInv, stack # <<>>, Last(stack).op = "flush"
  PROVE  /\ async => Calls(stack, "list") = {} /\ Calls(stack, "callback") = {}
         /\ ClearIn(stack, async)
<1>1. IsStack(stack) /\ async \in BOOLEAN /\ ShapeIn(stack, async)
  BY Shape
<1>2. ClearIn(stack, async)
  BY <1>1, TopClear
<1>3. ASSUME async
      PROVE  Calls(stack, "list") = {} /\ Calls(stack, "callback") = {}
  <2>1. Len(stack) \in Calls(stack, "flush")
    BY <1>1, OnTop DEF Calls
  <2>2. Len(stack) = 1
    BY <1>1, <1>3, <2>1 DEF ShapeIn
  <2> QED
    BY <1>1, <2>2, Bottom
<1> QED
  BY <1>2, <1>3

LEMMA HandlerBottom ==
  ASSUME IInv, PInv, stack # <<>>, Last(stack).op = "handler"
  PROVE  Calls(stack, "list") = {} /\ ClearIn(stack, async)
<1>1. IsStack(stack) /\ async \in BOOLEAN /\ ShapeIn(stack, async)
  BY Shape
<1>2. ClearIn(stack, async)
  BY <1>1, TopClear
<1>3. CASE async
  BY <1>2, <1>3 DEF ClearIn
<1>4. CASE ~async
  <2>1. Len(stack) \in Calls(stack, "handler")
    BY <1>1, OnTop DEF Calls
  <2>2. Len(stack) = 1
    BY <1>1, <1>4, <2>1 DEF ShapeIn
  <2> QED
    BY <1>1, <1>2, <2>2, Bottom
<1> QED
  BY <1>2, <1>3, <1>4
LEMMA NoCalls ==
  ASSUME NEW op
  PROVE  Calls(<<>>, op) = {}
  BY DEF Calls

LEMMA HostShape ==
  ASSUME IInv, PInv, Habits = {}, Mount \/ Event \/ Batch \/ Microtask
  PROVE  PInv'
<1>1. pending' = pending /\ ~panicked /\ panicked' = panicked
  BY DEF Mount, Event, Batch, Microtask, queues, AtRest, In
<1>2. /\ IsStack(stack) /\ async \in BOOLEAN
      /\ ShapeIn(stack, async) /\ OrderIn(stack, pending, async)
  BY Shape
<1>3. CASE Mount
  <2>1. stack = <<>> /\ stack' = stack /\ async' = TRUE
    BY <1>3 DEF Mount, AtRest
  <2>2. ShapeIn(stack', async') /\ OrderIn(stack', pending', async')
    BY <2>1, NoCalls DEF ShapeIn, OrderIn
  <2> QED
    BY <1>1, <2>1, <2>2 DEF PInv
<1>4. CASE Event \/ Microtask
  <2>1. PICK f \in {HandlerFrame, FlushFrame} : stack' = <<f>>
    BY <1>4 DEF Event, Microtask
  <2>2. stack = <<>> /\ async' = async
    BY <1>4 DEF Event, Microtask, AtRest
  <2>3. f.op # "list" /\ f.op # "callback"
    BY DEF HandlerFrame, FlushFrame
    <2>4. DOMAIN stack' = {1} /\ stack'[1] = f /\ Len(stack') = 1
    BY <2>1
  <2>5. /\ \A op : \A i \in Calls(stack', op) : i = 1
        /\ Calls(stack', "list") = {} /\ Calls(stack', "callback") = {}
    BY <2>3, <2>4 DEF Calls
  <2>6. ShapeIn(stack', async) /\ OrderIn(stack', pending, async)
    BY <1>2, <2>5 DEF ShapeIn, OrderIn
  <2> QED
    BY <1>1, <1>2, <2>2, <2>6 DEF PInv
<1>5. CASE Batch
  <2>1. /\ async /\ async' = async /\ stack # <<>> /\ Last(stack).op = "callback"
        /\ stack' = Append(stack, HandlerFrame)
    BY <1>5 DEF Batch, In, Top
  <2>2. Calls(stack, "list") = {}
    BY <1>2, <2>1, OnTop DEF ShapeIn, Calls
  <2>3. HandlerFrame.op = "handler"
    BY DEF HandlerFrame
  <2>4. ShapeIn(stack', async)
    BY <1>2, <2>1, <2>2, <2>3, ShapePush DEF ClearIn
  <2>5. OrderIn(stack', pending, async)
    BY <2>1 DEF OrderIn
  <2> QED
    BY <1>1, <1>2, <2>1, <2>4, <2>5 DEF PInv
<1> QED
  BY <1>3, <1>4, <1>5

LEMMA ReturnsShape ==
  ASSUME IInv, PInv, HandlerDone \/ NotifyDone \/ CallbackDone \/ FlushDone \/ Place \/ InsertBranch
  PROVE  PInv'
<1> DEFINE s == Front(stack)
<1>1. UNCHANGED <<pending, async, panicked>> /\ stack # <<>>
  BY DEF HandlerDone, NotifyDone, CallbackDone, FlushDone, Place, InsertBranch, Step, queues, In
<1>2. ScheduleOrFlush(s) \/ MaybeFlush(s) \/ stack' = s
  BY DEF HandlerDone, NotifyDone, CallbackDone, FlushDone, Place, InsertBranch, Rest
<1>3. /\ IsStack(stack) /\ async \in BOOLEAN /\ ~panicked
      /\ ShapeIn(stack, async) /\ OrderIn(stack, pending, async)
  BY Shape
<1>4. IsStack(s) /\ ShapeIn(s, async) /\ ClearIn(s, async)
  BY <1>1, <1>3, ShapePop, PopFrame
<1>5. Calls(s, "list") \subseteq Calls(stack, "list")
  <2>1. \A op : Calls(s, op) = Calls(stack, op) \ {Len(stack)}
    BY <1>1, <1>3, PopFrame
  <2> QED
    BY <2>1
<1> HIDE DEF s
<1>6. ShapeIn(stack', async) /\ Calls(stack', "list") = Calls(s, "list")
  BY <1>2, <1>3, <1>4, FlushShape
<1>7. OrderIn(stack', pending, async)
  BY <1>3, <1>5, <1>6, OrderFewerCalls
<1> QED
  BY <1>1, <1>3, <1>6, <1>7 DEF PInv

LEMMA PostPhaseShape ==
  ASSUME IInv, PInv, FlushTake \/ FlushCallback
  PROVE  PInv'
<1>1. /\ UNCHANGED <<pending, async>> /\ stack # <<>> /\ Last(stack).op = "flush"
  BY DEF FlushTake, FlushCallback, queues, In, Top
<1>2. /\ IsStack(stack) /\ async \in BOOLEAN /\ ~panicked
      /\ ShapeIn(stack, async) /\ OrderIn(stack, pending, async)
  BY Shape
<1>3. Calls(stack, "callback") = {}
  BY <1>1, <1>2, FlushBottom DEF ClearIn
<1>4. CASE FlushTake
  <2> DEFINE f == [FlushFrame EXCEPT !.cbs = post]
  <2>1. stack' = Append(Front(stack), f) /\ panicked' = panicked
    BY <1>4 DEF FlushTake, Resume, Rest, Top
  <2>2. f.op = Last(stack).op /\ f.op \notin {"list", "callback"}
    BY <1>1 DEF FlushFrame
  <2> HIDE DEF f
  <2>3. ShapeIn(stack', async) /\ Calls(stack', "list") = Calls(stack, "list")
    BY <1>1, <1>2, <2>1, <2>2, ShapeReplace
  <2>4. OrderIn(stack', pending, async)
    BY <1>2, <2>3, OrderFewerCalls
  <2> QED
    BY <1>1, <1>2, <2>1, <2>3, <2>4 DEF PInv
<1>5. CASE FlushCallback
  <2> DEFINE f == [FlushFrame EXCEPT !.cbs = Tail(Last(stack).cbs)]
             g == CallbackFrame(Head(Last(stack).cbs), "flush")
             t == Append(Front(stack), f)
  <2>1. stack' = Append(t, g)
    BY <1>5 DEF FlushCallback, Resume, Rest, Top
  <2>2. panicked' = FALSE
    BY <1>3, <1>5 DEF FlushCallback, Calling, Calls
  <2>3. f.op = Last(stack).op /\ f.op \notin {"list", "callback"} /\ g.op = "callback"
    BY <1>1 DEF CallbackFrame, FlushFrame
  <2> HIDE DEF f, g
  <2>4. /\ IsStack(t) /\ ShapeIn(t, async) /\ ClearIn(t, async)
        /\ Calls(t, "list") = Calls(stack, "list")
    BY <1>1, <1>2, <2>3, ShapeReplace
  <2> HIDE DEF t
  <2>5. ShapeIn(stack', async) /\ Calls(stack', "list") = Calls(t, "list")
    BY <1>2, <2>1, <2>3, <2>4, ShapePush, PushCalls
  <2>6. OrderIn(stack', pending, async)
    BY <1>2, <2>4, <2>5, OrderFewerCalls
  <2> QED
    BY <1>1, <1>2, <2>2, <2>5, <2>6 DEF PInv
<1> QED
  BY <1>4, <1>5

LEMMA EffectsShape ==
  ASSUME IInv, PInv, FlushSkip \/ FlushRow \/ FlushWatch
  PROVE  PInv'
<1>1. /\ UNCHANGED <<async, panicked>> /\ stack # <<>> /\ Last(stack).op = "flush"
      /\ pending # <<>> /\ pending' = Tail(pending)
  BY DEF FlushSkip, FlushRow, FlushWatch, Flushing, In, Top
<1>2. /\ IsStack(stack) /\ async \in BOOLEAN /\ ~panicked
      /\ ShapeIn(stack, async) /\ OrderIn(stack, pending, async) /\ pending \in Seq(EffectIds)
  BY Shape
<1>3. OrderIn(stack, pending', async) /\ ClearIn(stack, async)
  BY <1>1, <1>2, OrderTail, FlushBottom
<1>4. CASE stack' = stack
  BY <1>1, <1>2, <1>3, <1>4 DEF PInv
<1>5. CASE RunWatch(stack)
  <2>1. ShapeIn(stack', async) /\ Calls(stack', "list") = Calls(stack, "list")
    BY <1>2, <1>3, <1>5, WatchShape
  <2>2. OrderIn(stack', pending', async)
    BY <1>3, <2>1, OrderFewerCalls
  <2> QED
    BY <1>1, <1>2, <2>1, <2>2 DEF PInv
<1> QED
  BY <1>4, <1>5 DEF FlushSkip, FlushRow, FlushWatch

LEMMA WatchStepShape ==
  ASSUME IInv, PInv, RunSync \/ MakeWatch
  PROVE  PInv'
<1>1. PICK f : /\ f.op = Last(stack).op /\ f.op \notin {"list", "callback"}
               /\ RunWatch(Append(Front(stack), f))
  <2>1. CASE RunSync
    BY <2>1 DEF RunSync, In, Top, Resume, Rest, NotifyFrame
  <2>2. CASE MakeWatch
    BY <2>2 DEF MakeWatch, Step, In, Top, Resume, Rest, BranchFrame
  <2> QED
    BY <2>1, <2>2
<1>2. UNCHANGED <<pending, async, panicked>> /\ stack # <<>>
  BY DEF RunSync, MakeWatch, Step, In
<1>3. /\ IsStack(stack) /\ async \in BOOLEAN /\ ~panicked
      /\ ShapeIn(stack, async) /\ OrderIn(stack, pending, async)
  BY Shape
<1> DEFINE s == Append(Front(stack), f)
<1>4. /\ IsStack(s) /\ ShapeIn(s, async) /\ ClearIn(s, async)
      /\ Calls(s, "list") = Calls(stack, "list")
  BY <1>1, <1>2, <1>3, ShapeReplace
<1>5. RunWatch(s)
  BY <1>1
<1> HIDE DEF s
<1>6. ShapeIn(stack', async) /\ Calls(stack', "list") = Calls(s, "list")
  BY <1>3, <1>4, <1>5, WatchShape
<1>7. OrderIn(stack', pending, async)
  BY <1>3, <1>4, <1>6, OrderFewerCalls
<1> QED
  BY <1>2, <1>3, <1>6, <1>7 DEF PInv

(* The list's effect begins: behind it the branch is not queued.           *)
ListCalled(s) == \E f : f.op = "list" /\ ScheduleOrFlush(Append(s, f))

LEMMA ListShape ==
  ASSUME NEW s, IsStack(s), async \in BOOLEAN, ShapeIn(s, async), ClearIn(s, async), ListCalled(s)
  PROVE  ShapeIn(stack', async)
<1>1. PICK f : f.op = "list" /\ ScheduleOrFlush(Append(s, f))
  BY DEF ListCalled
<1> DEFINE t == Append(s, f)
<1>2. IsStack(t) /\ ShapeIn(t, async) /\ Calls(t, "callback") = Calls(s, "callback")
  <2>1. IsStack(t)
    BY PushFrame
  <2>2. ShapeIn(t, async)
    BY <1>1, ShapePush
  <2>3. Calls(t, "callback") = Calls(s, "callback")
    BY <1>1, PushCalls
  <2> QED
    BY <2>1, <2>2, <2>3
<1>3. ScheduleOrFlush(t)
  BY <1>1
<1> HIDE DEF t
<1>4. CASE async
  BY <1>2, <1>3, <1>4 DEF ScheduleOrFlush
<1>5. CASE ~async
  <2>1. ClearIn(t, async)
    BY <1>2, <1>5 DEF ClearIn
  <2> QED
    BY <1>2, <1>3, <2>1, FlushShape
<1> QED
  BY <1>4, <1>5

LEMMA ListStepShape ==
  ASSUME IInv, PInv, MakeList \/ FlushList
  PROVE  PInv'
<1>1. /\ IsStack(stack) /\ async \in BOOLEAN /\ ~panicked /\ items \in Lists
      /\ ShapeIn(stack, async) /\ OrderIn(stack, pending, async) /\ pending \in Seq(EffectIds)
      /\ Core(stack, pending, alive, dirty, DOMAIN row, store) /\ NamesLeft(DOMAIN row)
  BY Shape
<1>2. ASSUME NEW s, NEW q \in Seq(EffectIds), Reconcile(s, q),
             IsStack(s), ShapeIn(s, async), ClearIn(s, async),
             ~async => Places(q, "branch") = {}, DOMAIN row = Range(store)
      PROVE  PInv'
  <2>1. UNCHANGED <<async, panicked>> /\ ListCalled(s)
    <3>1. /\ UNCHANGED <<async, panicked>>
          /\ \E order, result : ScheduleOrFlush(Append(s, ListFrame(order, result)))
      BY <1>2 DEF Reconcile
    <3> QED
      BY <3>1 DEF ListCalled, ListFrame
  <2>2. ShapeIn(stack', async)
    BY <1>1, <1>2, <2>1, ListShape
  <2>3. Places(pending', "branch") = Places(q, "branch")
    BY <1>1, <1>2, ReconcileRows DEF Named, Framed
  <2>4. OrderIn(stack', pending', async)
    BY <1>2, <2>3 DEF OrderIn
  <2> QED
    BY <1>1, <2>1, <2>2, <2>4 DEF PInv
<1>3. CASE MakeList
  <2> DEFINE f == BranchFrame("insert")
             s == Append(Front(stack), f)
             k == Len(stack)
  <2>1. /\ stack # <<>> /\ Last(stack).op = "branch" /\ Last(stack).step = "list"
        /\ Reconcile(s, pending)
    BY <1>3 DEF MakeList, Step, In, Top, Resume, Rest
  <2>2. f.op = Last(stack).op /\ f.op \notin {"list", "callback"}
    BY <2>1 DEF BranchFrame
  <2> HIDE DEF f
  <2>3. IsStack(s) /\ ShapeIn(s, async) /\ ClearIn(s, async)
    BY <1>1, <2>1, <2>2, ShapeReplace
  <2> HIDE DEF s
  <2>4. k \in Calls(stack, "branch") /\ stack[k].step # "insert"
    BY <1>1, <2>1, OnTop DEF Calls
  <2>5. Places(pending, "branch") = {} /\ "list" \notin alive
    BY <1>1, <2>4 DEF Core, OnceIn, BuildingIn, Framed
  <2>6. DOMAIN row = Range(store)
    BY <1>1, <2>5 DEF Core, RowsIn
  <2> QED
    BY <1>1, <1>2, <2>1, <2>3, <2>5, <2>6
<1>4. CASE FlushList
  <2>1. /\ stack # <<>> /\ Last(stack).op = "flush" /\ pending # <<>>
        /\ Head(pending) = "list" /\ Reconcile(stack, Tail(pending))
    BY <1>4 DEF FlushList, Flushing, Due, In, Top
  <2>2. Head(pending) \in Framed
    BY <2>1 DEF Framed
  <2>3. /\ Core(stack, Tail(pending), alive, dirty, DOMAIN row, store)
        /\ Calls(stack, Head(pending)) = {}
    BY <1>1, <2>1, <2>2, Dequeue
  <2>4. DOMAIN row = Range(store) /\ Tail(pending) \in Seq(EffectIds)
    BY <2>1, <2>3 DEF Core, RowsIn
  <2>5. ~async => Places(Tail(pending), "branch") = {}
    BY <1>1, <2>1, OrderTail
  <2>6. ClearIn(stack, async)
    BY <2>1, FlushBottom
  <2> QED
    BY <1>1, <1>2, <2>1, <2>4, <2>5, <2>6
<1> QED
  BY <1>3, <1>4

(* The branch is disposed, or its effect runs: no list's effect is running *)
(* then, and no list is left in the queue.                                 *)
LEMMA DisposedQueue ==
  ASSUME NEW s, NEW q \in Seq(EffectIds), NEW effects, NEW deferred,
         DisposeBranch(q, effects), Calls(s, "list") = {}
  PROVE  OrderIn(s, pending', deferred)
<1> DEFINE gone == {"watch", "list"} \cup effects \cup RowsLeft
<1>1. pending' = Forget(q, gone) /\ "list" \in gone
  BY DEF DisposeBranch
<1> HIDE DEF gone
<1>2. Places(pending', "list") = {}
  BY <1>1, Forgotten DEF Named, Framed
<1> QED
  BY <1>2 DEF OrderIn

LEMMA NoListRuns ==
  ASSUME NEW s, stack = s, Calls(s, "list") = {}
  PROVE  ~Calling("list")
  BY DEF Calling, Calls

LEMMA BranchShape ==
  ASSUME IInv, PInv, Create \/ FlushBranch
  PROVE  PInv'
<1>1. /\ IsStack(stack) /\ async \in BOOLEAN /\ pending \in Seq(EffectIds)
      /\ ShapeIn(stack, async) /\ OrderIn(stack, pending, async)
  BY Shape
<1>2. PICK q \in Seq(EffectIds) : RunBranch(stack, q) /\ OrderIn(stack, q, async)
                                  /\ ClearIn(stack, async) /\ Calls(stack, "list") = {}
  <2>1. CASE Create
    <3>1. stack = <<>> /\ RunBranch(stack, pending)
      BY <2>1 DEF Create, AtRest
    <3>2. ClearIn(stack, async) /\ Calls(stack, "list") = {}
      BY <3>1, NoCalls DEF ClearIn
    <3> QED
      BY <1>1, <3>1, <3>2
  <2>2. CASE FlushBranch
    <3>1. /\ stack # <<>> /\ Last(stack).op = "flush" /\ pending # <<>>
          /\ Head(pending) = "branch" /\ RunBranch(stack, Tail(pending))
      BY <2>2 DEF FlushBranch, Flushing, Due, In, Top
    <3>2. /\ OrderIn(stack, Tail(pending), async) /\ Tail(pending) \in Seq(EffectIds)
          /\ ~async => Calls(stack, "list") = {}
      BY <1>1, <3>1, OrderTail, HeadTailProperties
    <3>3. ClearIn(stack, async) /\ Calls(stack, "list") = {}
      BY <3>1, <3>2, FlushBottom
    <3> QED
      BY <3>1, <3>2, <3>3
  <2> QED
    BY <2>1, <2>2
<1>3. async' = async /\ panicked' = FALSE
  BY <1>2, NoListRuns DEF RunBranch
<1>4. CASE SameBranch(stack, q)
  <2>1. stack' = stack /\ pending' = q
    BY <1>4 DEF SameBranch
  <2> QED
    BY <1>1, <1>2, <1>3, <2>1 DEF PInv
<1>5. CASE SwapBranch(stack, q)
  <2>1. PICK step : stack' = Append(stack, BranchFrame(step))
    BY <1>5 DEF SwapBranch
  <2> DEFINE f == BranchFrame(step)
  <2>2. f.op = "branch"
    BY DEF BranchFrame
  <2> HIDE DEF f
  <2>3. ShapeIn(Append(stack, f), async)
    BY <1>1, <1>2, <2>2, ShapePush
  <2>4. Calls(Append(stack, f), "list") = {}
    BY <1>1, <1>2, <2>2, PushCalls
  <2>5. DisposeBranch(q, {})
    BY <1>5 DEF SwapBranch
  <2>6. OrderIn(Append(stack, f), pending', async)
    BY <2>4, <2>5, DisposedQueue
  <2> QED
    BY <1>1, <1>3, <2>1, <2>3, <2>6 DEF PInv, f
<1> QED
  BY <1>2, <1>4, <1>5 DEF RunBranch

LEMMA UnmountShape ==
  ASSUME IInv, PInv, Unmount
  PROVE  PInv'
<1>1. /\ stack # <<>> /\ Last(stack).op = "handler" /\ stack' = stack /\ async' = async
      /\ DisposeBranch(pending, {"branch"}) /\ panicked' = Calling("list")
  BY DEF Unmount, In, Top
<1>2. /\ async \in BOOLEAN /\ ShapeIn(stack, async) /\ pending \in Seq(EffectIds)
  BY Shape
<1>3. Calls(stack, "list") = {}
  BY <1>1, HandlerBottom
<1>4. OrderIn(stack, pending', async)
  BY <1>1, <1>2, <1>3, DisposedQueue
<1>5. ~panicked'
  BY <1>1, <1>3, NoListRuns
<1> QED
  BY <1>1, <1>2, <1>4, <1>5 DEF PInv

(* A write behind a running list cannot be: the handler is the only call,  *)
(* or flushes are deferred.                                                *)
LEMMA WriterClear ==
  ASSUME IInv, PInv, Habits = {}, WritesItems \/ WritesShown
  PROVE  /\ stack # <<>> /\ ClearIn(stack, async)
         /\ ~async => Calls(stack, "list") = {}
<1>1. /\ stack # <<>>
      /\ Last(stack).op = "handler" \/ (Last(stack).op = "callback" /\ async)
  BY DEF WritesItems, WritesShown, In, Top
<1>2. CASE Last(stack).op = "handler"
  BY <1>1, <1>2, HandlerBottom
<1>3. CASE Last(stack).op = "callback" /\ async
  <2>1. IsStack(stack) /\ ShapeIn(stack, async)
    BY Shape
  <2>2. Calls(stack, "list") = {}
    BY <1>1, <1>3, <2>1, OnTop DEF ShapeIn, Calls
  <2> QED
    BY <1>1, <1>3, <2>2 DEF ClearIn
<1> QED
  BY <1>1, <1>2, <1>3

LEMMA WriteShape ==
  ASSUME IInv, PInv, Habits = {}, WriteItems \/ WriteShown
  PROVE  PInv'
<1>1. /\ IsStack(stack) /\ async \in BOOLEAN /\ pending \in Seq(EffectIds) /\ ~panicked
      /\ ShapeIn(stack, async) /\ OrderIn(stack, pending, async)
  BY Shape
<1>2. ClearIn(stack, async) /\ (~async => Calls(stack, "list") = {})
  BY WriterClear DEF WriteItems, WriteShown
<1>3. ASSUME NEW e \in {"watch", "list", "branch"}
      PROVE  Queued(e) \in Seq(EffectIds) /\ \A x : x # e => Places(Queued(e), x) = {}
  <2>1. Queued(e) = <<e>> \/ Queued(e) = <<>>
    BY DEF Queued
  <2>2. e \in EffectIds
    BY DEF EffectIds, Effects
  <2>3. <<e>> \in Seq(EffectIds) /\ <<>> \in Seq(EffectIds)
    BY <2>2
  <2>4. \A x : Places(<<>>, x) = {}
    BY DEF Places
  <2>5. \A x : x # e => Places(<<e>>, x) = {}
    <3>1. DOMAIN <<e>> = {1} /\ <<e>>[1] = e
      OBVIOUS
    <3> QED
      BY <3>1 DEF Places
  <2> QED
    BY <2>1, <2>3, <2>4, <2>5
<1>4. PICK b : stack' = Append(stack, NotifyFrame(b))
  BY DEF WriteItems, WriteShown, Write, Show
<1>5. NotifyFrame(b).op = "notify"
  BY DEF NotifyFrame
<1>6. ShapeIn(stack', async) /\ Calls(stack', "list") = Calls(stack, "list")
  <2> DEFINE f == NotifyFrame(b)
  <2> HIDE DEF f
  <2>1. ShapeIn(Append(stack, f), async)
    BY <1>1, <1>2, <1>5, ShapePush DEF f
  <2>2. Calls(Append(stack, f), "list") = Calls(stack, "list")
    BY <1>1, <1>5, PushCalls DEF f
  <2> QED
    BY <1>4, <2>1, <2>2 DEF f
<1>7. UNCHANGED <<async, panicked>>
  BY DEF WriteItems, WriteShown, Write, Show
<1>8. CASE WriteItems
  <2> DEFINE q == pending \o Queued("watch")
  <2>1. pending' = q \o Queued("list")
    BY <1>8 DEF WriteItems, Write
  <2>2. OrderIn(stack, q, async) /\ q \in Seq(EffectIds)
    BY <1>1, <1>3, OrderConcat, Concat
  <2> HIDE DEF q
  <2>3. OrderIn(stack, q \o Queued("list"), async)
    BY <1>3, <2>2, OrderConcat
  <2>4. OrderIn(stack', pending', async)
    BY <1>6, <2>1, <2>3, OrderFewerCalls
  <2> QED
    BY <1>1, <1>6, <1>7, <2>4 DEF PInv
<1>9. CASE WriteShown
  <2>1. pending' = pending \o Queued("branch")
    BY <1>9 DEF WriteShown, Show
  <2>2. ASSUME ~async
        PROVE  Places(pending', "list") = {}
    <3>1. ~Contains(pending, "list")
      BY <1>9, <2>2 DEF WriteShown, WritesShown, HidesSafely
    <3>2. Places(pending, "list") = {}
      BY <1>1, <3>1, LenProperties DEF Contains, Places
    <3>3. Places(pending \o Queued("branch"), "list") = Places(pending, "list")
      BY <1>1, <1>3, Concat
    <3> QED
      BY <2>1, <3>2, <3>3
  <2>3. OrderIn(stack', pending', async)
    BY <1>2, <1>6, <2>2 DEF OrderIn
  <2> QED
    BY <1>1, <1>6, <1>7, <2>3 DEF PInv
<1> QED
  BY <1>8, <1>9
-----------------------------------------------------------------------------
LEMMA InitShape ==
  ASSUME Init
  PROVE  PInv
<1>1. Calls(stack, "list") = {} /\ Places(pending, "list") = {}
  BY DEF Init, Calls, Places
<1>2. \A op : Calls(stack, op) = {}
  BY DEF Init, Calls
<1> QED
  BY <1>1, <1>2 DEF Init, PInv, ShapeIn, OrderIn

LEMMA NextShape ==
  ASSUME IInv, PInv, Habits = {}, [Next]_vars
  PROVE  PInv'
<1>1. CASE Create \/ FlushBranch
  BY <1>1, BranchShape
<1>2. CASE Mount \/ Event \/ Batch \/ Microtask
  BY <1>2, HostShape
<1>3. CASE HandlerDone \/ NotifyDone \/ CallbackDone \/ FlushDone \/ Place \/ InsertBranch
  BY <1>3, ReturnsShape
<1>4. CASE WriteItems \/ WriteShown
  BY <1>4, WriteShape
<1>5. CASE MakeList \/ FlushList
  BY <1>5, ListStepShape
<1>6. CASE FlushSkip \/ FlushRow \/ FlushWatch
  BY <1>6, EffectsShape
<1>7. CASE FlushTake \/ FlushCallback
  BY <1>7, PostPhaseShape
<1>8. CASE Unmount
  BY <1>8, UnmountShape
<1>9. CASE RunSync \/ MakeWatch
  BY <1>9, WatchStepShape
<1>10. CASE UNCHANGED vars
  BY <1>10 DEF vars, queues, PInv
<1> QED
  BY <1>1, <1>2, <1>3, <1>4, <1>5, <1>6, <1>7, <1>8, <1>9, <1>10 DEF Next

(* For all lists and programs: a view never panics if, as long as no       *)
(* scheduler is installed, no handler hides a list that it has just        *)
(* edited, no watch callback changes the condition, and no post callback   *)
(* writes.  ViewHideAfterEdit.cfg, ViewHideInCallback.cfg and              *)
(* ViewWriteInCallback.cfg show that each of the three can panic.          *)
THEOREM NeverPanics ==
  ASSUME Habits = {}
  PROVE  Spec => []NoPanic
<1>1. IInv /\ PInv /\ [Next]_vars => PInv'
  BY NextShape
<1>2. PInv => NoPanic
  BY DEF PInv, NoPanic
<1> QED
  BY <1>1, <1>2, InitShape, BookkeepingInvariant, PTL DEF Spec

-----------------------------------------------------------------------------
(* The values a watch callback is told, in their order: each call is given *)
(* the value the call before it was given, the first one `last`.  The      *)
(* calls of a watcher that is gone come before those of the next one.      *)
Linked(told, last) == told.old # None => told.old = last /\ told.new # told.old

Chain(q, last) ==
  /\ \A i, j \in DOMAIN q : i < j /\ q[i].own => q[j].own
  /\ \A i \in DOMAIN q : q[i].own =>
       Linked(q[i], IF i > 1 /\ q[i - 1].own THEN q[i - 1].new ELSE last)

LastTold(q, last) == IF q # <<>> /\ q[Len(q)].own THEN q[Len(q)].new ELSE last

NoneOwn(q) == \A i \in DOMAIN q : ~q[i].own

LEMMA Lengths ==
  ASSUME NEW q, IsStack(q)
  PROVE  /\ Len(q) \in Nat /\ DOMAIN q = 1 .. Len(q)
         /\ q # <<>> => Len(q) \in DOMAIN q /\ 1 \in DOMAIN q /\ Head(q) = q[1]
         /\ q = <<>> <=> Len(q) = 0
<1>1. q \in Seq(Range(q))
  BY DEF IsStack
<1> QED
  BY <1>1, LenProperties, EmptySeq

LEMMA NoneTold ==
  ASSUME NEW q, IsStack(q), NoneOwn(q), NEW last
  PROVE  Chain(q, last) /\ LastTold(q, last) = last
<1>1. q # <<>> => Len(q) \in DOMAIN q
  BY Lengths
<1> QED
  BY <1>1 DEF Chain, LastTold, NoneOwn

LEMMA EmptyIsStack == IsStack(<<>>) /\ NoneOwn(<<>>)
  BY DEF IsStack, NoneOwn

LEMMA TellOne ==
  ASSUME NEW q, IsStack(q), NEW last, Chain(q, last),
         NEW told, told.own = TRUE, Linked(told, LastTold(q, last))
  PROVE  /\ IsStack(Append(q, told)) /\ Chain(Append(q, told), last)
         /\ LastTold(Append(q, told), last) = told.new
<1> DEFINE t == Append(q, told)
           k == Len(q) + 1
<1>1. /\ IsStack(t) /\ DOMAIN t = DOMAIN q \cup {k} /\ k \notin DOMAIN q
      /\ t[k] = told /\ \A i \in DOMAIN q : t[i] = q[i]
  BY PushFrame
<1>2. Len(q) \in Nat /\ DOMAIN q = 1 .. Len(q) /\ (q # <<>> <=> Len(q) # 0)
  BY Lengths
<1>3. Len(t) = k
  BY AppendLength
<1> HIDE DEF t
<1>4. \A i, j \in DOMAIN t : i < j /\ t[i].own => t[j].own
  BY <1>1, <1>2 DEF Chain
<1>5. ASSUME NEW i \in DOMAIN t, t[i].own
      PROVE  Linked(t[i], IF i > 1 /\ t[i - 1].own THEN t[i - 1].new ELSE last)
  <2>1. CASE i = k
    <3>1. CASE Len(q) = 0
      BY <1>1, <1>2, <2>1, <3>1 DEF LastTold
    <3>2. CASE Len(q) # 0
      <4>1. i - 1 = Len(q) /\ i > 1 /\ Len(q) \in DOMAIN q
        BY <1>2, <2>1, <3>2
      <4>2. t[i - 1] = q[Len(q)] /\ q # <<>>
        BY <1>1, <1>2, <3>2, <4>1
      <4> QED
        BY <1>1, <2>1, <4>1, <4>2 DEF LastTold
    <3> QED
      BY <3>1, <3>2
  <2>2. CASE i \in DOMAIN q
    <3>1. i > 1 => i - 1 \in DOMAIN q
      BY <1>2, <2>2
    <3> QED
      BY <1>1, <1>5, <2>2, <3>1 DEF Chain
  <2> QED
    BY <1>1, <2>1, <2>2
<1>6. LastTold(t, last) = told.new
  <2>1. t # <<>>
    BY <1>1
  <2> QED
    BY <1>1, <1>3, <2>1 DEF LastTold
<1> QED
  BY <1>1, <1>4, <1>5, <1>6 DEF Chain, t

LEMMA TailStack ==
  ASSUME NEW q, IsStack(q), q # <<>>
  PROVE  /\ IsStack(Tail(q)) /\ Len(Tail(q)) = Len(q) - 1
         /\ DOMAIN Tail(q) = 1 .. Len(q) - 1 /\ \A i \in 1 .. Len(q) - 1 : Tail(q)[i] = q[i + 1]
<1> DEFINE t == Tail(q)
<1>1. q \in Seq(Range(q))
  BY DEF IsStack
<1>2. /\ t \in Seq(Range(q)) /\ Len(t) = Len(q) - 1
      /\ \A i \in 1 .. Len(t) : t[i] = q[i + 1]
  BY <1>1, HeadTailProperties
<1> HIDE DEF t
<1>3. IsStack(t) /\ DOMAIN t = 1 .. Len(t)
  BY <1>2, SeqOfRange, LenProperties DEF IsStack
<1> QED
  BY <1>2, <1>3 DEF t

LEMMA HearOne ==
  ASSUME NEW q, IsStack(q), q # <<>>, NEW last, Chain(q, last)
  PROVE  LET told == Head(q)
             now  == IF told.own THEN told.new ELSE last
         IN /\ told.own => Linked(told, last)
            /\ Chain(Tail(q), now) /\ LastTold(Tail(q), now) = LastTold(q, last)
<1> DEFINE told == Head(q)
           now  == IF told.own THEN told.new ELSE last
           t    == Tail(q)
           n    == Len(q) - 1
<1>1. Len(q) \in Nat \ {0} /\ DOMAIN q = 1 .. Len(q) /\ 1 \in DOMAIN q /\ told = q[1]
  BY Lengths
<1>2. /\ IsStack(t) /\ Len(t) = n /\ DOMAIN t = 1 .. n /\ \A i \in 1 .. n : t[i] = q[i + 1]
  BY TailStack
<1>3. t = <<>> <=> n = 0
  BY <1>2, Lengths
<1>4. n \in Nat /\ Len(q) = n + 1 /\ DOMAIN q = 1 .. n + 1
  BY <1>1
<1> HIDE DEF told, t, n
<1>5. told.own => Linked(told, last)
  BY <1>1 DEF Chain
<1>6. \A i, j \in DOMAIN t : i < j /\ t[i].own => t[j].own
  <2> SUFFICES ASSUME NEW i \in DOMAIN t, NEW j \in DOMAIN t, i < j, t[i].own
               PROVE  t[j].own
    OBVIOUS
  <2>1. i + 1 \in DOMAIN q /\ j + 1 \in DOMAIN q /\ i + 1 < j + 1
    BY <1>2, <1>4
  <2> QED
    BY <1>2, <2>1 DEF Chain
<1>7. ASSUME NEW i \in DOMAIN t, t[i].own
      PROVE  Linked(t[i], IF i > 1 /\ t[i - 1].own THEN t[i - 1].new ELSE now)
  <2>1. i + 1 \in DOMAIN q /\ i + 1 > 1 /\ (i + 1) - 1 = i /\ t[i] = q[i + 1] /\ q[i + 1].own
    BY <1>2, <1>4, <1>7
  <2>2. Linked(t[i], IF q[i].own THEN q[i].new ELSE last)
    BY <2>1 DEF Chain
  <2>3. CASE i = 1
    BY <1>1, <2>2, <2>3
  <2>4. CASE i # 1
    <3>1. i > 1 /\ i - 1 \in 1 .. n /\ (i - 1) + 1 = i
      BY <1>2, <1>4, <2>4
    <3>2. t[i - 1] = q[i]
      BY <1>2, <3>1
    <3>3. i \in DOMAIN q /\ 1 \in DOMAIN q /\ 1 < i
      BY <1>4, <3>1
    <3>4. ~q[i].own => now = last
      BY <1>1, <3>3 DEF Chain
    <3> QED
      BY <2>2, <3>1, <3>2, <3>4
  <2> QED
    BY <2>3, <2>4
<1>8. LastTold(t, now) = LastTold(q, last)
  <2>1. CASE n = 0
    BY <1>1, <1>3, <1>4, <2>1 DEF LastTold
  <2>2. CASE n # 0
    <3>1. n \in 1 .. n /\ t # <<>> /\ t[n] = q[Len(q)]
      BY <1>2, <1>3, <1>4, <2>2
    <3>2. 1 \in DOMAIN q /\ Len(q) \in DOMAIN q /\ 1 < Len(q)
      BY <1>4, <2>2
    <3>3. ~q[Len(q)].own => now = last
      BY <1>1, <3>2 DEF Chain
    <3> QED
      BY <1>2, <3>1, <3>3 DEF LastTold
  <2> QED
    BY <2>1, <2>2
<1> QED
  BY <1>5, <1>6, <1>7, <1>8 DEF Chain, told, t

LEMMA Orphaned ==
  ASSUME NEW q, IsStack(q)
  PROVE  IsStack(Orphan(q)) /\ NoneOwn(Orphan(q)) /\ (q = <<>> => Orphan(q) = <<>>)
<1> DEFINE t == Orphan(q)
<1>1. t = [i \in DOMAIN q |-> [q[i] EXCEPT !.own = FALSE]]
  BY DEF Orphan
<1>2. Len(q) \in Nat /\ DOMAIN q = 1 .. Len(q) /\ (q = <<>> => Len(q) = 0)
  BY Lengths
<1>3. t \in [1 .. Len(q) -> Range(t)]
  BY <1>1, <1>2 DEF Range
<1>4. IsStack(t)
  BY <1>2, <1>3, SeqDef DEF IsStack
<1>5. q = <<>> => t = <<>>
  BY <1>1
<1>6. NoneOwn(t)
  <2> SUFFICES ASSUME NEW i \in DOMAIN t
               PROVE  ~t[i].own
    BY DEF NoneOwn
  <2>1. t[i] = [q[i] EXCEPT !.own = FALSE]
    BY <1>1
  <2> QED
    BY <2>1
<1> QED
  BY <1>4, <1>5, <1>6

-----------------------------------------------------------------------------
(* The frames around the callbacks `c` that a flush has taken and not yet  *)
(* called: no other flush has any, and above it is only what a callback    *)
(* calls.  Callbacks are called by the watcher's effect or, in mode        *)
(* "post", by flushes.  What runs next is the innermost call.              *)
Inner(deferred) == IF deferred THEN {"callback", "handler", "notify"} ELSE {"callback"}

Caller(mode) == IF mode = "post" THEN "flush" ELSE "watch"

Takes(s, deferred, mode, c) ==
  /\ \A i \in Calls(s, "flush") : s[i].cbs # <<>> =>
       s[i].cbs = c /\ mode = "post" /\ \A j \in DOMAIN s : j > i => s[j].op \in Inner(deferred)
  /\ c # <<>> => \E i \in Calls(s, "flush") : s[i].cbs = c

(* A sync watcher about to run, and a branch about to create its watcher.  *)
Imminent(f) == (f.op = "notify" /\ f.sync) \/ (f.op = "branch" /\ f.step = "watch")

FramesIn(s, deferred, mode, c) ==
  /\ Takes(s, deferred, mode, c)
  /\ \A i \in Calls(s, "callback") : s[i].from = Caller(mode)
  /\ mode # "post" => \A i \in Calls(s, "handler") : i = 1
  /\ \A i \in DOMAIN s : Imminent(s[i]) => i = Len(s)

Calm(s) == \A i \in DOMAIN s : ~Imminent(s[i])

LEMMA FramesPush ==
  ASSUME NEW s, IsStack(s), NEW d, NEW mode, NEW c, FramesIn(s, d, mode, c), Calm(s), NEW f,
         f.op = "flush" => f.cbs = <<>>, c = <<>> \/ f.op \in Inner(d),
         f.op = "callback" => f.from = Caller(mode),
         f.op = "handler" /\ mode # "post" => s = <<>>
  PROVE  FramesIn(Append(s, f), d, mode, c)
<1> DEFINE t == Append(s, f)
           k == Len(s) + 1
<1>1. /\ IsStack(t) /\ DOMAIN t = DOMAIN s \cup {k} /\ k \notin DOMAIN s
      /\ t[k] = f /\ \A i \in DOMAIN s : t[i] = s[i]
      /\ \A op : Calls(t, op) = IF f.op = op THEN Calls(s, op) \cup {k} ELSE Calls(s, op)
  <2>1. IsStack(s)
    OBVIOUS
  <2> QED
    BY ONLY <2>1, PushFrame
<1>2. Len(t) = k /\ (s = <<>> => k = 1)
  BY AppendLength
<1> HIDE DEF t, k
<1>3. \A op : \A i \in Calls(s, op) : i \in DOMAIN s /\ t[i] = s[i]
  BY <1>1 DEF Calls
<1>4. Takes(t, d, mode, c)
  <2>1. ASSUME NEW i \in Calls(t, "flush"), t[i].cbs # <<>>
        PROVE  /\ t[i].cbs = c /\ mode = "post"
               /\ \A j \in DOMAIN t : j > i => t[j].op \in Inner(d)
    <3>1. i \in Calls(s, "flush") /\ s[i].cbs # <<>>
      BY <1>1, <1>3, <2>1
    <3>2. s[i].cbs = c /\ mode = "post" /\ \A j \in DOMAIN s : j > i => s[j].op \in Inner(d)
      BY <3>1 DEF FramesIn, Takes
    <3> QED
      BY <1>1, <1>3, <3>1, <3>2
  <2>2. c # <<>> => \E i \in Calls(t, "flush") : t[i].cbs = c
    <3>1. c # <<>> => \E i \in Calls(s, "flush") : s[i].cbs = c
      BY DEF FramesIn, Takes
    <3>2. \A i \in Calls(s, "flush") : i \in Calls(t, "flush") /\ t[i] = s[i]
      BY <1>1, <1>3
    <3> QED
      BY <3>1, <3>2
  <2> QED
    BY <2>1, <2>2 DEF Takes
<1>5. \A i \in Calls(t, "callback") : t[i].from = Caller(mode)
  BY <1>1, <1>3 DEF FramesIn
<1>6. mode # "post" => \A i \in Calls(t, "handler") : i = 1
  <2>1. s = <<>> => Calls(s, "handler") = {}
    BY DEF Calls
  <2> QED
    BY <1>1, <1>2, <2>1 DEF FramesIn
<1>7. \A i \in DOMAIN t : Imminent(t[i]) => i = Len(t)
  BY <1>1, <1>2 DEF Calm
<1> QED
  BY <1>4, <1>5, <1>6, <1>7 DEF FramesIn, t

LEMMA FramesPop ==
  ASSUME NEW s, IsStack(s), s # <<>>, NEW d, NEW mode, NEW c, FramesIn(s, d, mode, c),
         Last(s).op = "flush" => Last(s).cbs = <<>>
  PROVE  FramesIn(Front(s), d, mode, c) /\ Calm(Front(s))
<1> DEFINE t == Front(s)
           k == Len(s)
<1>1. /\ IsStack(t) /\ DOMAIN s = DOMAIN t \cup {k} /\ k \notin DOMAIN t
      /\ Last(s) = s[k] /\ \A i \in DOMAIN t : t[i] = s[i]
      /\ \A op : Calls(t, op) = Calls(s, op) \ {k}
  BY PopFrame
<1> HIDE DEF t
<1>2. \A op : \A i \in Calls(t, op) : i \in DOMAIN t /\ i \in Calls(s, op) /\ t[i] = s[i]
  BY <1>1 DEF Calls
<1>3. Takes(t, d, mode, c)
  <2>1. ASSUME NEW i \in Calls(t, "flush"), t[i].cbs # <<>>
        PROVE  /\ t[i].cbs = c /\ mode = "post"
               /\ \A j \in DOMAIN t : j > i => t[j].op \in Inner(d)
    <3>1. i \in Calls(s, "flush") /\ s[i].cbs # <<>> /\ s[i] = t[i]
      BY <1>2, <2>1
    <3>2. s[i].cbs = c /\ mode = "post" /\ \A j \in DOMAIN s : j > i => s[j].op \in Inner(d)
      BY <3>1 DEF FramesIn, Takes
    <3> QED
      BY <1>1, <3>1, <3>2
  <2>2. c # <<>> => \E i \in Calls(t, "flush") : t[i].cbs = c
    <3> SUFFICES ASSUME c # <<>>
                 PROVE  \E i \in Calls(t, "flush") : t[i].cbs = c
      OBVIOUS
    <3>1. PICK i \in Calls(s, "flush") : s[i].cbs = c
      BY DEF FramesIn, Takes
    <3>2. i # k
      BY <1>1, <3>1 DEF Calls
    <3> QED
      BY <1>1, <1>2, <3>1, <3>2
  <2> QED
    BY <2>1, <2>2 DEF Takes
<1>4. \A i \in DOMAIN t : ~Imminent(t[i])
  BY <1>1 DEF FramesIn
<1>5. /\ \A i \in Calls(t, "callback") : t[i].from = Caller(mode)
      /\ mode # "post" => \A i \in Calls(t, "handler") : i = 1
  BY <1>2 DEF FramesIn
<1> QED
  BY <1>3, <1>4, <1>5 DEF FramesIn, Calm, t

(* What the innermost call says of the callbacks taken.                    *)
LEMMA FramesTop ==
  ASSUME NEW s, IsStack(s), s # <<>>, NEW d, NEW mode, NEW c, FramesIn(s, d, mode, c)
  PROVE  /\ Last(s).op = "flush" =>
              /\ c = Last(s).cbs
              /\ c # <<>> => mode = "post" /\ \A i \in Calls(s, "flush") : i # Len(s) => s[i].cbs = <<>>
         /\ Last(s).op \notin Inner(d) \cup {"flush"} => c = <<>>
         /\ Last(s).op \in {"branch", "list"} => c = <<>>
         /\ mode # "post" => c = <<>>
         /\ ~Imminent(Last(s)) => Calm(s)
<1> DEFINE k == Len(s)
<1>1. k \in DOMAIN s /\ Last(s) = s[k] /\ \A i \in DOMAIN s : i = k \/ k > i
  BY OnTop, Lengths
<1> HIDE DEF k
<1>2. ASSUME NEW i \in Calls(s, "flush"), s[i].cbs # <<>>
      PROVE  /\ s[i].cbs = c /\ mode = "post"
             /\ i = k \/ (Last(s).op \in Inner(d) /\ Last(s).op # "flush")
  <2>1. i \in DOMAIN s /\ \A x : Inner(x) \subseteq {"callback", "handler", "notify"}
    BY DEF Calls, Inner
  <2> QED
    BY <1>1, <1>2, <2>1 DEF FramesIn, Takes
<1>3. c # <<>> => \E i \in Calls(s, "flush") : s[i].cbs = c
  BY DEF FramesIn, Takes
<1>4. ASSUME Last(s).op = "flush"
      PROVE  /\ c = Last(s).cbs
             /\ c # <<>> => mode = "post" /\ \A i \in Calls(s, "flush") : i # k => s[i].cbs = <<>>
  <2>1. k \in Calls(s, "flush")
    BY <1>1, <1>4 DEF Calls
  <2>2. \A i \in Calls(s, "flush") : i # k => s[i].cbs = <<>>
    BY <1>2, <1>4
  <2> QED
    BY <1>1, <1>2, <1>3, <2>1, <2>2
<1>5. Last(s).op \notin Inner(d) \cup {"flush"} => c = <<>>
  <2>1. \A i \in Calls(s, "flush") : i = k => Last(s).op = "flush"
    BY <1>1 DEF Calls
  <2> QED
    BY <1>2, <1>3, <2>1
<1>6. mode # "post" => c = <<>>
  BY <1>2, <1>3
<1>7. ~Imminent(Last(s)) => Calm(s)
  BY <1>1 DEF FramesIn, Calm, k
<1>8. Last(s).op \in {"branch", "list"} => Last(s).op \notin Inner(d) \cup {"flush"}
  BY DEF Inner
<1> QED
  BY <1>4, <1>5, <1>6, <1>7, <1>8 DEF k

LEMMA FramesReplace ==
  ASSUME NEW s, IsStack(s), s # <<>>, NEW d, NEW mode, NEW c, FramesIn(s, d, mode, c), NEW f,
         Last(s).op \in {"branch", "notify"}, f.op = Last(s).op, ~Imminent(f)
  PROVE  LET t == Append(Front(s), f)
         IN IsStack(t) /\ FramesIn(t, d, mode, c) /\ Calm(t)
<1> DEFINE u == Front(s)
           t == Append(u, f)
<1>1. IsStack(u) /\ FramesIn(u, d, mode, c) /\ Calm(u)
  BY PopFrame, FramesPop
<1>2. c = <<>> \/ f.op \in Inner(d)
  BY FramesTop
<1> HIDE DEF u
<1>3. IsStack(t) /\ FramesIn(t, d, mode, c)
  <2>1. FramesIn(t, d, mode, c)
    BY <1>1, <1>2, FramesPush
  <2> QED
    BY <1>1, <2>1, PushFrame
<1>4. t # <<>> /\ Last(t) = f
  <2>1. DOMAIN t = DOMAIN u \cup {Len(u) + 1} /\ t[Len(u) + 1] = f
    BY <1>1, PushFrame
  <2>2. Len(t) = Len(u) + 1
    BY <1>1, AppendLength
  <2> QED
    BY <2>1, <2>2 DEF Last
<1> HIDE DEF t
<1>5. Calm(t)
  BY <1>3, <1>4, FramesTop
<1> QED
  BY <1>3, <1>5 DEF t, u

-----------------------------------------------------------------------------
(* The watcher's run, and who has to flush                                 *)

LEMMA FlushFrames ==
  ASSUME NEW s, IsStack(s), NEW d, NEW mode, FramesIn(s, d, mode, <<>>), Calm(s)
  PROVE  FramesIn(Append(s, FlushFrame), d, mode, <<>>) /\ Calm(Append(s, FlushFrame))
<1> DEFINE f == FlushFrame
<1>1. f.op = "flush" /\ f.cbs = <<>>
  BY DEF FlushFrame
<1> HIDE DEF f
<1>2. FramesIn(Append(s, f), d, mode, <<>>)
  BY <1>1, FramesPush
<1>3. ~Imminent(f)
  BY <1>1 DEF Imminent
<1>4. Calm(Append(s, f))
  <2>1. \A i \in DOMAIN Append(s, f) : Append(s, f)[i] = f \/ (i \in DOMAIN s /\ Append(s, f)[i] = s[i])
    BY PushFrame
  <2> QED
    BY <1>3, <2>1 DEF Calm
<1> QED
  BY <1>2, <1>4 DEF f

(* The frame of the watcher's own callback.                                *)
OwnCall == CallbackFrame(Told(items, prev), "watch")

LEMMA WatchFrames ==
  ASSUME NEW s, IsStack(s), FramesIn(s, async, prog.flush, <<>>), Calm(s), RunWatch(s)
  PROVE  /\ FramesIn(stack', async, prog.flush, <<>>) /\ Calm(stack')
         /\ \/ /\ stack' = Append(s, OwnCall) /\ prog.flush # "post" /\ Fires
               /\ post' = post /\ heard' = items /\ dirty' = dirty \cup {"watch"}
               /\ UNCHANGED <<scheduled, flushing>>
            \/ /\ MaybeFlush(s) /\ prog.flush = "post" /\ Fires
               /\ post' = Append(post, Told(items, prev)) /\ heard' = heard
               /\ dirty' = dirty \ {"watch"}
            \/ /\ stack' = s /\ ~Fires /\ post' = post /\ dirty' = dirty \ {"watch"}
               /\ heard' = IF prev = None THEN items ELSE heard
               /\ UNCHANGED <<scheduled, flushing>>
<1> DEFINE f == OwnCall
<1>1. /\ f.op = "callback" /\ f.from = "watch" /\ ~Imminent(f)
  BY DEF OwnCall, CallbackFrame, Imminent
<1>2. CASE Fires /\ prog.flush # "post"
  <2>1. /\ stack' = Append(s, f) /\ post' = post /\ heard' = items /\ dirty' = dirty \cup {"watch"}
        /\ UNCHANGED <<scheduled, flushing>>
    BY <1>2 DEF RunWatch, OwnCall
  <2> HIDE DEF f
  <2>2. FramesIn(Append(s, f), async, prog.flush, <<>>)
    BY <1>1, <1>2, FramesPush DEF Caller
  <2>3. Calm(Append(s, f))
    <3>1. \A i \in DOMAIN Append(s, f) : Append(s, f)[i] = f \/ (i \in DOMAIN s /\ Append(s, f)[i] = s[i])
      <4>1. IsStack(s)
        OBVIOUS
      <4> QED
        BY ONLY <4>1, PushFrame
    <3> QED
      BY <1>1, <3>1 DEF Calm
  <2> QED
    BY <1>2, <2>1, <2>2, <2>3 DEF f
<1>3. CASE Fires /\ prog.flush = "post"
  <2>1. /\ MaybeFlush(s) /\ post' = Append(post, Told(items, prev)) /\ heard' = heard
        /\ dirty' = dirty \ {"watch"}
    BY <1>3 DEF RunWatch
  <2>2. stack' = s \/ stack' = Append(s, FlushFrame)
    BY <2>1, MaybeFlushStack
  <2> QED
    BY <1>3, <2>1, <2>2, FlushFrames
<1>4. CASE ~Fires
  <2>1. /\ stack' = s /\ post' = post /\ dirty' = dirty \ {"watch"}
        /\ heard' = IF prev = None THEN items ELSE heard
        /\ UNCHANGED <<scheduled, flushing>>
    BY <1>4 DEF RunWatch
  <2> QED
    BY <1>4, <2>1
<1> QED
  BY <1>2, <1>3, <1>4

(* What is told: a value that differs from the one told before, or the     *)
(* first one, to which no earlier one belongs.                             *)
LEMMA WatchTells ==
  ASSUME NEW s, IsStack(s), FramesIn(s, async, prog.flush, <<>>), Calm(s), RunWatch(s),
         IsStack(post), prog.flush # "post" => post = <<>>,
         \/ prev = None /\ NoneOwn(post)
         \/ prev # None /\ Chain(post, heard) /\ LastTold(post, heard) = prev
  PROVE  /\ IsStack(post') /\ Chain(post', heard') /\ LastTold(post', heard') = prev'
         /\ prog.flush # "post" => post' = <<>>
         /\ prev' = items
         /\ stack' = Append(s, OwnCall) => Linked(Told(items, prev), heard)
<1>1. prev' = items
  BY DEF RunWatch
<1>2. \A q : NoneOwn(q) /\ IsStack(q) => \A last : Chain(q, last) /\ LastTold(q, last) = last
  BY NoneTold
<1>3. Chain(post, heard) /\ (prev # None => LastTold(post, heard) = prev)
  BY <1>2
<1> DEFINE told == Told(items, prev)
<1>4. told.new = items /\ told.old = prev /\ told.own = TRUE
  BY DEF Told
<1>5. Fires => Linked(told, LastTold(post, heard))
  BY <1>3, <1>4 DEF Linked, Fires
<1> HIDE DEF told
<1>6. CASE stack' = Append(s, OwnCall) /\ prog.flush # "post" /\ Fires /\ post' = post /\ heard' = items
  <2>1. post = <<>> /\ NoneOwn(post)
    BY <1>6 DEF NoneOwn
  <2> QED
    BY <1>1, <1>2, <1>5, <1>6, <2>1 DEF told
<1>7. CASE MaybeFlush(s) /\ prog.flush = "post" /\ Fires /\ post' = Append(post, told) /\ heard' = heard
  <2>1. Linked(told, LastTold(post, heard))
    BY <1>5, <1>7
  <2>2. /\ IsStack(Append(post, told)) /\ Chain(Append(post, told), heard)
        /\ LastTold(Append(post, told), heard) = told.new
    <3>1. IsStack(post) /\ Chain(post, heard) /\ told.own = TRUE
      BY <1>3, <1>4
    <3> QED
      BY ONLY <2>1, <3>1, TellOne
  <2>3. stack' # Append(s, OwnCall)
    <3>1. stack' = s \/ stack' = Append(s, FlushFrame)
      BY <1>7, MaybeFlushStack
    <3>2. Len(Append(s, OwnCall)) = Len(s) + 1 /\ Len(s) \in Nat
      BY AppendLength, Lengths
    <3>3. Append(s, OwnCall)[Len(s) + 1] = OwnCall /\ Append(s, FlushFrame)[Len(s) + 1] = FlushFrame
      <4>1. \A f : Append(s, f)[Len(s) + 1] = f
        BY PushFrame
      <4> QED
        BY <4>1
    <3>4. OwnCall.op # FlushFrame.op
      BY DEF OwnCall, CallbackFrame, FlushFrame
    <3> QED
      BY <3>1, <3>2, <3>3, <3>4
  <2> QED
    BY <1>1, <1>4, <1>7, <2>2, <2>3
<1>8. CASE stack' = s /\ ~Fires /\ post' = post /\ heard' = IF prev = None THEN items ELSE heard
  <2>1. stack' # Append(s, OwnCall)
    <3>1. Len(Append(s, OwnCall)) = Len(s) + 1 /\ Len(s) \in Nat
      BY AppendLength, Lengths
    <3> QED
      BY <1>8, <3>1
  <2>2. prev = None \/ prev = items
    BY <1>8 DEF Fires
  <2>3. CASE prev = None /\ NoneOwn(post)
    BY <1>1, <1>2, <1>8, <2>1, <2>3
  <2>4. CASE prev # None
    BY <1>1, <1>3, <1>8, <2>1, <2>2, <2>4
  <2> QED
    BY <2>3, <2>4
<1> QED
  BY <1>6, <1>7, <1>8, WatchFrames DEF told

(* Whatever is queued will be flushed: a flush is under way, a call that   *)
(* flushes when it returns, or a microtask.                                *)
Obliged(s) == \E op \in {"flush", "handler", "notify"} : Calls(s, op) # {}

OwedIn(s, q, p, due, busy) ==
  /\ q # <<>> \/ p # <<>> => due \/ Obliged(s)
  /\ busy => Calls(s, "flush") # {}

LEMMA OwedPush ==
  ASSUME NEW s, IsStack(s), NEW f
  PROVE  /\ Obliged(s) => Obliged(Append(s, f))
         /\ Calls(s, "flush") # {} => Calls(Append(s, f), "flush") # {}
         /\ f.op = "flush" => Calls(Append(s, f), "flush") # {}
         /\ f.op \in {"flush", "handler", "notify"} => Obliged(Append(s, f))
<1> DEFINE t == Append(s, f)
<1>1. \A op : Calls(t, op) = IF f.op = op THEN Calls(s, op) \cup {Len(s) + 1} ELSE Calls(s, op)
  BY PushFrame
<1> HIDE DEF t
<1> QED
  BY <1>1 DEF Obliged, t

LEMMA OwedPop ==
  ASSUME NEW s, IsStack(s), s # <<>>
  PROVE  /\ Last(s).op \notin {"flush", "handler", "notify"} /\ Obliged(s) => Obliged(Front(s))
         /\ Last(s).op # "flush" /\ Calls(s, "flush") # {} => Calls(Front(s), "flush") # {}
         /\ Last(s).op # "handler" /\ Calls(s, "handler") # {} => Calls(Front(s), "handler") # {}
<1> DEFINE t == Front(s)
           k == Len(s)
<1>1. /\ \A op : Calls(t, op) = Calls(s, op) \ {k}
      /\ Last(s) = s[k]
  BY PopFrame
<1> HIDE DEF t
<1>2. \A op : op # Last(s).op => Calls(t, op) = Calls(s, op)
  BY <1>1 DEF Calls
<1> QED
  BY <1>2 DEF Obliged, t

LEMMA OwedFlush ==
  ASSUME NEW s, IsStack(s), NEW q, NEW p, pending' = q, post' = p,
         flushing => Calls(s, "flush") # {},
         \/ ScheduleOrFlush(s)
         \/ MaybeFlush(s) /\ (Calling("handler") => Calls(s, "handler") # {})
  PROVE  OwedIn(stack', q, p, scheduled', flushing')
<1>1. ASSUME ScheduleOrFlush(s)
      PROVE  OwedIn(stack', q, p, scheduled', flushing')
  <2>1. CASE async
    BY <1>1, <2>1 DEF ScheduleOrFlush, OwedIn
  <2>2. CASE ~async
    <3>1. stack' = Append(s, FlushFrame) /\ FlushFrame.op = "flush"
      BY <1>1, <2>2 DEF ScheduleOrFlush, FlushFrame
    <3>2. Calls(stack', "flush") # {} /\ Obliged(stack')
      BY <3>1, OwedPush
    <3> QED
      BY <3>2 DEF OwedIn
  <2> QED
    BY <2>1, <2>2
<1>2. ASSUME stack' = s, UNCHANGED <<scheduled, flushing>>,
             Calls(s, "handler") # {} \/ flushing \/ (q = <<>> /\ p = <<>>)
      PROVE  OwedIn(stack', q, p, scheduled', flushing')
  BY <1>2 DEF OwedIn, Obliged
<1> QED
  BY <1>1, <1>2 DEF MaybeFlush

LEMMA OwedWatch ==
  ASSUME NEW s, IsStack(s), OwedIn(s, pending, post, scheduled, flushing),
         Calling("handler") => Calls(s, "handler") # {},
         pending' = pending \/ Obliged(s), RunWatch(s)
  PROVE  OwedIn(stack', pending', post', scheduled', flushing')
<1>1. CASE MaybeFlush(s)
  BY <1>1, OwedFlush DEF OwedIn
<1>2. CASE /\ stack' = s \/ \E f : stack' = Append(s, f)
           /\ post' = post /\ UNCHANGED <<scheduled, flushing>>
  <2>1. /\ Obliged(s) => Obliged(stack')
        /\ Calls(s, "flush") # {} => Calls(stack', "flush") # {}
    BY <1>2, OwedPush
  <2> QED
    BY <1>2, <2>1 DEF OwedIn
<1> QED
  BY <1>1, <1>2 DEF RunWatch

-----------------------------------------------------------------------------
(* The callbacks a flush has taken and those still queued continue what    *)
(* the callback has heard, up to the value the watcher has seen last.      *)
ToldIn(s, mode, c, p, last, live, seen) ==
  /\ IsStack(c) /\ IsStack(p)
  /\ Chain(c, last) /\ Chain(p, LastTold(c, last))
  /\ mode # "post" => p = <<>>
  /\ live => LastTold(p, LastTold(c, last)) = seen
  /\ \A i \in DOMAIN s : s[i].op = "branch" /\ Imminent(s[i]) => seen = None /\ NoneOwn(p)

(* The watcher has seen the items, or is marked; while it is marked, it is *)
(* queued, about to run, or running its callback.                          *)
MarkedIn(s, mode, queued, live, stale, list, seen) ==
  /\ stale => live
  /\ live => seen # None
  /\ live /\ seen # list => stale /\ (mode # "post" => Calls(s, "callback") = {})
  /\ stale => \/ queued
              \/ \E i \in Calls(s, "notify") : Imminent(s[i])
              \/ mode # "post" /\ Calls(s, "callback") # {}
  /\ \A i \in Calls(s, "notify") : Imminent(s[i]) => live /\ mode = "sync"

ChainInv ==
  /\ \E c : /\ FramesIn(stack, async, prog.flush, c)
            /\ ToldIn(stack, prog.flush, c, post, heard, "watch" \in alive, prev)
  /\ MarkedIn(stack, prog.flush, Places(pending, "watch") # {}, "watch" \in alive,
              "watch" \in dirty, items, prev)
  /\ OwedIn(stack, pending, post, scheduled, flushing)

LEMMA ToldPush ==
  ASSUME NEW s, IsStack(s), NEW mode, NEW c, NEW p, NEW last, NEW live, NEW seen,
         ToldIn(s, mode, c, p, last, live, seen), NEW f,
         f.op # "branch" \/ ~Imminent(f) \/ (seen = None /\ NoneOwn(p))
  PROVE  ToldIn(Append(s, f), mode, c, p, last, live, seen)
<1> DEFINE t == Append(s, f)
<1>1. \A i \in DOMAIN t : t[i] = f \/ (i \in DOMAIN s /\ t[i] = s[i])
  BY PushFrame
<1> HIDE DEF t
<1>2. \A i \in DOMAIN t : t[i].op = "branch" /\ Imminent(t[i]) => seen = None /\ NoneOwn(p)
  BY <1>1 DEF ToldIn
<1> QED
  BY <1>2 DEF ToldIn, t

LEMMA ToldCalm ==
  ASSUME NEW s, NEW mode, NEW c, NEW p, NEW last, NEW live, NEW seen,
         ToldIn(s, mode, c, p, last, live, seen), NEW t, Calm(t)
  PROVE  ToldIn(t, mode, c, p, last, live, seen)
  BY DEF ToldIn, Calm

LEMMA MarkedPush ==
  ASSUME NEW s, IsStack(s), NEW mode, NEW queued, NEW live, NEW stale, NEW list, NEW seen,
         MarkedIn(s, mode, queued, live, stale, list, seen), NEW f,
         f.op = "callback" => mode = "post", f.op = "notify" => ~Imminent(f)
  PROVE  MarkedIn(Append(s, f), mode, queued, live, stale, list, seen)
<1> DEFINE t == Append(s, f)
           k == Len(s) + 1
<1>1. /\ t[k] = f /\ \A i \in DOMAIN s : t[i] = s[i]
      /\ \A op : Calls(t, op) = IF f.op = op THEN Calls(s, op) \cup {k} ELSE Calls(s, op)
  BY PushFrame
<1> HIDE DEF t, k
<1>2. \A i \in Calls(s, "notify") : i \in Calls(t, "notify") /\ t[i] = s[i]
  BY <1>1 DEF Calls
<1>3. \A i \in Calls(t, "notify") : Imminent(t[i]) => i \in Calls(s, "notify") /\ t[i] = s[i]
  BY <1>1, <1>2
<1>4. mode # "post" => Calls(t, "callback") = Calls(s, "callback")
  BY <1>1
<1> QED
  BY <1>2, <1>3, <1>4 DEF MarkedIn, t

LEMMA MarkedPop ==
  ASSUME NEW s, IsStack(s), s # <<>>, NEW mode, NEW queued, NEW live, NEW stale, NEW list, NEW seen,
         MarkedIn(s, mode, queued, live, stale, list, seen),
         ~Imminent(Last(s)), Last(s).op = "callback" => mode = "post"
  PROVE  MarkedIn(Front(s), mode, queued, live, stale, list, seen)
<1> DEFINE t == Front(s)
           k == Len(s)
<1>1. /\ Last(s) = s[k] /\ \A i \in DOMAIN t : t[i] = s[i]
      /\ \A op : Calls(t, op) = Calls(s, op) \ {k}
  BY PopFrame
<1> HIDE DEF t, k
<1>2. \A i \in Calls(t, "notify") : i \in Calls(s, "notify") /\ t[i] = s[i]
  BY <1>1 DEF Calls
<1>3. \A i \in Calls(s, "notify") : Imminent(s[i]) => i \in Calls(t, "notify") /\ t[i] = s[i]
  BY <1>1 DEF Calls
<1>4. mode # "post" => Calls(t, "callback") = Calls(s, "callback")
  BY <1>1 DEF Calls
<1> QED
  BY <1>2, <1>3, <1>4 DEF MarkedIn, t

(* A flush takes callbacks, or calls one of them.                          *)
LEMMA FramesTaken ==
  ASSUME NEW s, IsStack(s), s # <<>>, NEW d, NEW c, FramesIn(s, d, "post", c),
         Last(s).op = "flush", NEW f, f.op = "flush"
  PROVE  LET t == Append(Front(s), f)
         IN /\ IsStack(t) /\ FramesIn(t, d, "post", f.cbs) /\ Calm(t)
            /\ \A op : Calls(t, op) = Calls(s, op)
<1> DEFINE t == Append(Front(s), f)
           k == Len(s)
<1>1. /\ IsStack(t) /\ DOMAIN t = DOMAIN s
      /\ k \in DOMAIN s /\ Last(s) = s[k] /\ t[k] = f
      /\ \A i \in DOMAIN s \ {k} : t[i] = s[i]
      /\ \A op : Calls(t, op) = Calls(s, op)
  BY ReplaceFrame
<1> HIDE DEF t
<1>2. \A i \in DOMAIN s : i = k \/ k > i
  BY Lengths
<1>3. Len(t) = k
  <2>1. Len(t) \in Nat /\ DOMAIN t = 1 .. Len(t)
    BY <1>1, Lengths
  <2>2. k \in Nat /\ DOMAIN s = 1 .. k
    BY Lengths
  <2>3. DOMAIN t = DOMAIN s /\ k \in DOMAIN s
    BY <1>1
  <2> HIDE DEF k
  <2> DEFINE n == Len(t)
  <2>4. n \in Nat /\ 1 .. n = 1 .. k /\ k \in 1 .. k
    BY <2>1, <2>2, <2>3
  <2> HIDE DEF n
  <2>5. k \in 1 .. n /\ n \in 1 .. n
    BY <2>2, <2>4
  <2>6. n \in 1 .. k
    BY <2>4, <2>5
  <2> QED
    BY <2>2, <2>4, <2>5, <2>6 DEF n
<1> HIDE DEF k
<1>4. \A i \in Calls(s, "flush") : i # k => s[i].cbs = <<>>
  <2>1. \A i \in Calls(s, "flush") : s[i].cbs # <<>> => s[i].cbs = c
    BY DEF FramesIn, Takes
  <2>2. c # <<>> => \A i \in Calls(s, "flush") : i # k => s[i].cbs = <<>>
    BY FramesTop DEF k
  <2> QED
    BY <2>1, <2>2
<1>5. k \in Calls(s, "flush")
  BY <1>1 DEF Calls
<1>6. Takes(t, d, "post", f.cbs)
  <2>1. \A i \in Calls(t, "flush") : i # k => t[i].cbs = <<>>
    BY <1>1, <1>4 DEF Calls
  <2>2. \A j \in DOMAIN t : ~(j > k)
    BY <1>1, <1>2, <1>3, Lengths
  <2> QED
    BY <1>1, <1>5, <2>1, <2>2 DEF Takes
<1>7. \A i \in Calls(t, "callback") : t[i].from = Caller("post")
  <2>1. k \notin Calls(s, "callback")
    BY <1>1 DEF Calls
  <2>2. \A i \in Calls(t, "callback") : i \in Calls(s, "callback") /\ t[i] = s[i]
    BY <1>1, <2>1 DEF Calls
  <2> QED
    BY <2>2 DEF FramesIn
<1>8. \A i \in DOMAIN t : ~Imminent(t[i])
  <2>1. ~Imminent(f) /\ ~Imminent(Last(s))
    BY DEF Imminent
  <2>2. Calm(s)
    BY <2>1, FramesTop
  <2> QED
    BY <1>1, <2>1, <2>2 DEF Calm
<1> QED
  BY <1>1, <1>6, <1>7, <1>8 DEF FramesIn, Calm, t

LEMMA FramesEmpty ==
  ASSUME NEW d, NEW mode, NEW c, FramesIn(<<>>, d, mode, c), NEW e
  PROVE  c = <<>> /\ FramesIn(<<>>, e, mode, <<>>) /\ Calm(<<>>)
<1>1. \A op : Calls(<<>>, op) = {}
  BY NoCalls
<1>2. DOMAIN <<>> = {}
  OBVIOUS
<1> QED
  BY <1>1, <1>2 DEF FramesIn, Takes, Calm

LEMMA QueuedStays ==
  ASSUME NEW q \in Seq(EffectIds), NEW w \in Seq(EffectIds), NEW e,
         Places(q, e) # {} \/ w = <<e>>
  PROVE  Places(q \o w, e) # {}
<1> DEFINE p == q \o w
<1>1. /\ Len(q) \in Nat /\ Len(w) \in Nat /\ DOMAIN q = 1 .. Len(q)
      /\ DOMAIN p = 1 .. Len(q) + Len(w)
      /\ \A i \in 1 .. Len(q) + Len(w) : p[i] = IF i <= Len(q) THEN q[i] ELSE w[i - Len(q)]
  <2>1. /\ p \in Seq(EffectIds) /\ Len(p) = Len(q) + Len(w)
        /\ \A i \in 1 .. Len(q) + Len(w) : p[i] = IF i <= Len(q) THEN q[i] ELSE w[i - Len(q)]
    BY ConcatProperties
  <2> HIDE DEF p
  <2> QED
    BY <2>1, LenProperties
<1> HIDE DEF p
<1>2. CASE Places(q, e) # {}
  <2>1. PICK i \in DOMAIN q : q[i] = e
    BY <1>2 DEF Places
  <2>2. i \in DOMAIN p /\ p[i] = e
    BY <1>1, <2>1
  <2> QED
    BY <2>2 DEF Places, p
<1>3. CASE w = <<e>>
  <2>1. Len(w) = 1 /\ w[1] = e
    BY <1>3
  <2>2. Len(q) + 1 \in DOMAIN p /\ p[Len(q) + 1] = e
    BY <1>1, <2>1
  <2> QED
    BY <2>2 DEF Places, p
<1> QED
  BY <1>2, <1>3

LEMMA TailKeeps ==
  ASSUME NEW q \in Seq(EffectIds), q # <<>>, NEW e, Head(q) # e, Places(q, e) # {}
  PROVE  Places(Tail(q), e) # {}
<1> DEFINE p == Tail(q)
<1>1. /\ Len(q) \in Nat /\ DOMAIN q = 1 .. Len(q) /\ Head(q) = q[1]
      /\ p \in Seq(EffectIds) /\ Len(p) = Len(q) - 1 /\ Len(q) # 0
      /\ \A i \in 1 .. Len(p) : p[i] = q[i + 1]
  BY HeadTailProperties, LenProperties, EmptySeq
<1>2. DOMAIN p = 1 .. Len(q) - 1
  BY <1>1, LenProperties
<1> HIDE DEF p
<1>3. PICK i \in DOMAIN q : q[i] = e
  BY DEF Places
<1>4. i - 1 \in 1 .. Len(q) - 1 /\ (i - 1) + 1 = i
  BY <1>1, <1>3
<1>5. i - 1 \in DOMAIN p /\ p[i - 1] = e
  BY <1>1, <1>2, <1>3, <1>4
<1> QED
  BY <1>5 DEF Places, p

-----------------------------------------------------------------------------
(* Every step keeps the chain                                              *)

LEMMA ChainFacts ==
  ASSUME IInv, PInv, ChainInv
  PROVE  /\ IsStack(stack) /\ async \in BOOLEAN /\ ~panicked /\ items \in Lists
         /\ pending \in Seq(EffectIds)
         /\ MarkedIn(stack, prog.flush, Places(pending, "watch") # {}, "watch" \in alive,
                     "watch" \in dirty, items, prev)
         /\ OwedIn(stack, pending, post, scheduled, flushing)
         /\ \E c : /\ FramesIn(stack, async, prog.flush, c)
                   /\ ToldIn(stack, prog.flush, c, post, heard, "watch" \in alive, prev)
  BY Shape DEF ChainInv

LEMMA ChainNext ==
  ASSUME NEW c, prog' = prog,
         FramesIn(stack', async', prog.flush, c),
         ToldIn(stack', prog.flush, c, post', heard', "watch" \in alive', prev'),
         MarkedIn(stack', prog.flush, Places(pending', "watch") # {}, "watch" \in alive',
                  "watch" \in dirty', items', prev'),
         OwedIn(stack', pending', post', scheduled', flushing')
  PROVE  ChainInv'
  BY DEF ChainInv

LEMMA HandlerCalled ==
  ASSUME Calling("handler")
  PROVE  Calls(stack, "handler") # {}
  BY DEF Calling, Calls

(* A run of the watcher on the calls s.                                    *)
Runs(s) ==
  /\ IsStack(s) /\ Calm(s) /\ RunWatch(s)
  /\ FramesIn(s, async, prog.flush, <<>>)
  /\ IsStack(post) /\ (prog.flush # "post" => post = <<>>)
  /\ \/ prev = None /\ NoneOwn(post)
     \/ prev # None /\ Chain(post, heard) /\ LastTold(post, heard) = prev
  /\ OwedIn(s, pending, post, scheduled, flushing)
  /\ Calling("handler") => Calls(s, "handler") # {}
  /\ pending' = pending \/ Obliged(s)
  /\ items \in Lists /\ "watch" \in alive'
  /\ UNCHANGED <<prog, async, items>>

LEMMA RunChain ==
  ASSUME NEW s, Runs(s)
  PROVE  ChainInv' /\ (stack' = Append(s, OwnCall) => Linked(Told(items, prev), heard))
<1>1. /\ IsStack(s) /\ FramesIn(s, async, prog.flush, <<>>) /\ Calm(s) /\ RunWatch(s)
      /\ IsStack(post) /\ (prog.flush # "post" => post = <<>>)
      /\ \/ prev = None /\ NoneOwn(post)
         \/ prev # None /\ Chain(post, heard) /\ LastTold(post, heard) = prev
  BY DEF Runs
<1>2. /\ IsStack(post') /\ Chain(post', heard') /\ LastTold(post', heard') = prev'
      /\ prog.flush # "post" => post' = <<>>
      /\ prev' = items
      /\ stack' = Append(s, OwnCall) => Linked(Told(items, prev), heard)
  BY <1>1, WatchTells
<1>3. /\ FramesIn(stack', async, prog.flush, <<>>) /\ Calm(stack')
      /\ \/ stack' = Append(s, OwnCall) /\ prog.flush # "post"
         \/ dirty' = dirty \ {"watch"}
  BY <1>1, WatchFrames
<1>4. OwedIn(stack', pending', post', scheduled', flushing')
  <2>1. /\ IsStack(s) /\ OwedIn(s, pending, post, scheduled, flushing)
        /\ Calling("handler") => Calls(s, "handler") # {}
        /\ pending' = pending \/ Obliged(s)
        /\ RunWatch(s)
    BY DEF Runs
  <2> QED
    BY <2>1, OwedWatch
<1>5. \A last : Chain(<<>>, last) /\ LastTold(<<>>, last) = last
  BY EmptyIsStack, NoneTold
<1>6. ToldIn(stack', prog.flush, <<>>, post', heard', "watch" \in alive', prev')
  BY <1>2, <1>3, <1>5, EmptyIsStack DEF ToldIn, Calm
<1>7. /\ "watch" \in alive' /\ items' = items /\ prev' = items /\ items # None
      /\ prog' = prog /\ async' = async
  BY <1>2, ViewAssumption DEF Runs
<1>8. MarkedIn(stack', prog.flush, Places(pending', "watch") # {}, "watch" \in alive',
               "watch" \in dirty', items', prev')
  <2>1. \A i \in Calls(stack', "notify") : ~Imminent(stack'[i])
    BY <1>3 DEF Calm, Calls
  <2>2. "watch" \in dirty' => prog.flush # "post" /\ Calls(stack', "callback") # {}
    <3>1. CASE stack' = Append(s, OwnCall) /\ prog.flush # "post"
      <4> DEFINE f == OwnCall
      <4>1. f.op = "callback"
        BY DEF OwnCall, CallbackFrame
      <4> HIDE DEF f
      <4>2. Calls(Append(s, f), "callback") = Calls(s, "callback") \cup {Len(s) + 1}
        <5>1. \A op : Calls(Append(s, f), op) = IF f.op = op THEN Calls(s, op) \cup {Len(s) + 1} ELSE Calls(s, op)
          BY <1>1, PushFrame
        <5> QED
          BY <4>1, <5>1
      <4> QED
        BY <3>1, <4>2 DEF f
    <3>2. CASE dirty' = dirty \ {"watch"}
      BY <3>2
    <3> QED
      BY <1>3, <3>1, <3>2
  <2> QED
    BY <1>7, <2>1, <2>2 DEF MarkedIn
<1>9. FramesIn(stack', async', prog.flush, <<>>) /\ prog' = prog
  BY <1>3, <1>7
<1>10. ChainInv'
  BY <1>4, <1>6, <1>8, <1>9, ChainNext
<1> QED
  BY <1>2, <1>10

LEMMA WatchRunsOn ==
  ASSUME IInv, PInv, ChainInv, RunSync \/ MakeWatch \/ FlushWatch
  PROVE  \E s : /\ Runs(s)
                /\ \/ s = stack
                   \/ stack # <<>> /\ \E f : s = Append(Front(stack), f) /\ f.op = Last(stack).op
<1>1. /\ IsStack(stack) /\ async \in BOOLEAN /\ ~panicked /\ items \in Lists
      /\ pending \in Seq(EffectIds)
      /\ MarkedIn(stack, prog.flush, Places(pending, "watch") # {}, "watch" \in alive,
                  "watch" \in dirty, items, prev)
      /\ OwedIn(stack, pending, post, scheduled, flushing)
  BY ChainFacts
<1>2. PICK c : /\ FramesIn(stack, async, prog.flush, c)
               /\ ToldIn(stack, prog.flush, c, post, heard, "watch" \in alive, prev)
  BY ChainFacts
<1>3. stack # <<>>
  BY DEF RunSync, MakeWatch, FlushWatch, Step, Flushing, In
<1> DEFINE k == Len(stack)
<1>4. k \in DOMAIN stack /\ Last(stack) = stack[k]
  BY <1>1, <1>3, OnTop
<1> HIDE DEF k
<1>5. IsStack(post) /\ (prog.flush # "post" => post = <<>>)
  BY <1>2 DEF ToldIn
<1>6. ASSUME c = <<>>, "watch" \in alive
      PROVE  prev # None /\ Chain(post, heard) /\ LastTold(post, heard) = prev
  <2>1. LastTold(c, heard) = heard
    BY <1>6, EmptyIsStack, NoneTold
  <2> QED
    BY <1>1, <1>2, <1>6, <2>1 DEF ToldIn, MarkedIn
<1>7. UNCHANGED <<prog, async, items>>
  BY DEF RunSync, MakeWatch, FlushWatch
<1>8. CASE FlushWatch
  <2>1. /\ Last(stack).op = "flush" /\ Last(stack).cbs = <<>> /\ RunWatch(stack)
        /\ "watch" \in dirty /\ alive' = alive
    BY <1>8 DEF FlushWatch, Flushing, In, Top
  <2>2. c = <<>> /\ Calm(stack)
    <3>1. ~Imminent(Last(stack))
      BY <2>1 DEF Imminent
    <3> QED
      BY <1>1, <1>2, <1>3, <2>1, <3>1, FramesTop
  <2>3. "watch" \in alive
    BY <1>1, <2>1 DEF MarkedIn
  <2>4. Obliged(stack)
    BY <1>4, <2>1 DEF Obliged, Calls
  <2>5. Calling("handler") => Calls(stack, "handler") # {}
    BY HandlerCalled
  <2>6. Runs(stack)
    BY <1>1, <1>2, <1>5, <1>6, <1>7, <2>1, <2>2, <2>3, <2>4, <2>5 DEF Runs
  <2> QED
    BY <2>6
<1>9. CASE RunSync \/ MakeWatch
  <2>1. PICK f : /\ f.op = Last(stack).op /\ ~Imminent(f)
                 /\ Last(stack).op \in {"notify", "branch"} /\ Imminent(Last(stack))
                 /\ RunWatch(Append(Front(stack), f))
                 /\ RunSync => Last(stack).op = "notify" /\ alive' = alive
                 /\ MakeWatch => Last(stack).op = "branch" /\ "watch" \in alive'
                 /\ RunSync \/ MakeWatch
    <3>1. CASE RunSync
      <4>1. /\ Last(stack).op = "notify" /\ Last(stack).sync /\ alive' = alive
            /\ RunWatch(Append(Front(stack), NotifyFrame(FALSE)))
        BY <3>1 DEF RunSync, In, Top, Resume, Rest
      <4>2. NotifyFrame(FALSE).op = "notify" /\ ~Imminent(NotifyFrame(FALSE))
        BY DEF NotifyFrame, Imminent
      <4>3. ~MakeWatch
        BY <4>1 DEF MakeWatch, Step, In, Top
      <4> QED
        BY <3>1, <4>1, <4>2, <4>3 DEF Imminent
    <3>2. CASE MakeWatch
      <4>1. /\ Last(stack).op = "branch" /\ Last(stack).step = "watch" /\ "watch" \in alive'
            /\ RunWatch(Append(Front(stack), BranchFrame("list")))
        BY <3>2 DEF MakeWatch, Step, In, Top, Resume, Rest
      <4>2. BranchFrame("list").op = "branch" /\ ~Imminent(BranchFrame("list"))
        BY DEF BranchFrame, Imminent
      <4>3. ~RunSync
        BY <4>1 DEF RunSync, In, Top
      <4> QED
        BY <3>2, <4>1, <4>2, <4>3 DEF Imminent
    <3> QED
      BY <1>9, <3>1, <3>2
  <2> DEFINE s == Append(Front(stack), f)
  <2>2. IsStack(s) /\ FramesIn(s, async, prog.flush, c) /\ Calm(s)
    BY <1>1, <1>2, <1>3, <2>1, FramesReplace
  <2>3. \A op : Calls(s, op) = Calls(stack, op)
    BY <1>1, <1>3, <2>1, ReplaceFrame
  <2>4. RunWatch(s)
    BY <2>1
  <2>5. pending' = pending
    BY <1>9 DEF RunSync, MakeWatch
  <2> HIDE DEF s
  <2>6. OwedIn(s, pending, post, scheduled, flushing)
        /\ (Calling("handler") => Calls(s, "handler") # {})
    BY <1>1, <2>3, HandlerCalled DEF OwedIn, Obliged
  <2>7. ASSUME RunSync
        PROVE  Runs(s)
    <3>1. k \in Calls(stack, "notify") /\ Imminent(stack[k])
      BY <1>4, <2>1, <2>7 DEF Calls
    <3>2. "watch" \in alive /\ prog.flush = "sync"
      BY <1>1, <3>1 DEF MarkedIn
    <3>3. c = <<>>
      <4>1. prog.flush # "post"
        BY <3>2
      <4> QED
        BY <1>1, <1>2, <1>3, <4>1, FramesTop
    <3>4. "watch" \in alive'
      BY <2>1, <2>7, <3>2
    <3>5. prev # None /\ Chain(post, heard) /\ LastTold(post, heard) = prev
      BY <1>6, <3>2, <3>3
    <3>6. FramesIn(s, async, prog.flush, <<>>)
      BY <2>2, <3>3
    <3> QED
      BY <1>1, <1>5, <1>7, <2>2, <2>4, <2>5, <2>6, <3>4, <3>5, <3>6 DEF Runs
  <2>8. ASSUME MakeWatch
        PROVE  Runs(s)
    <3>1. k \in DOMAIN stack /\ stack[k].op = "branch" /\ Imminent(stack[k])
      BY <1>4, <2>1, <2>8
    <3>2. prev = None /\ NoneOwn(post)
      BY <1>2, <3>1 DEF ToldIn
    <3>3. c = <<>>
      <4>1. Last(stack).op \in {"branch", "list"}
        BY <2>1, <2>8
      <4> QED
        BY <1>1, <1>2, <1>3, <4>1, FramesTop
    <3>4. "watch" \in alive'
      BY <2>1, <2>8
    <3>5. FramesIn(s, async, prog.flush, <<>>)
      BY <2>2, <3>3
    <3> QED
      BY <1>1, <1>5, <1>7, <2>2, <2>4, <2>5, <2>6, <3>2, <3>4, <3>5 DEF Runs
  <2>9. \E s1 : Runs(s1) /\ \E f1 : s1 = Append(Front(stack), f1) /\ f1.op = Last(stack).op
    <3>1. Runs(s)
      BY <1>9, <2>7, <2>8
    <3> QED
      BY <2>1, <3>1 DEF s
  <2> QED
    BY <1>3, <2>9
<1> QED
  BY <1>8, <1>9

LEMMA HostChain ==
  ASSUME IInv, PInv, ChainInv, Habits = {}, Mount \/ Event \/ Batch \/ Microtask
  PROVE  ChainInv'
<1>1. /\ IsStack(stack) /\ async \in BOOLEAN
      /\ MarkedIn(stack, prog.flush, Places(pending, "watch") # {}, "watch" \in alive,
                  "watch" \in dirty, items, prev)
      /\ OwedIn(stack, pending, post, scheduled, flushing)
  BY ChainFacts
<1>2. PICK c : /\ FramesIn(stack, async, prog.flush, c)
               /\ ToldIn(stack, prog.flush, c, post, heard, "watch" \in alive, prev)
  BY ChainFacts
<1>3. UNCHANGED <<prog, post, heard, alive, prev, pending, dirty, items>>
  BY DEF Mount, Event, Batch, Microtask, queues
<1>4. CASE Mount
  <2>1. stack = <<>> /\ stack' = stack /\ UNCHANGED <<scheduled, flushing>>
    BY <1>4 DEF Mount, AtRest
  <2>2. c = <<>> /\ FramesIn(stack', async', prog.flush, c)
    <3>1. FramesIn(<<>>, async, prog.flush, c)
      BY <1>2, <2>1
    <3>2. c = <<>> /\ \A e : FramesIn(<<>>, e, prog.flush, <<>>)
      BY <3>1, FramesEmpty
    <3> QED
      BY <2>1, <3>2
  <2>3. ToldIn(stack', prog.flush, c, post', heard', "watch" \in alive', prev')
    BY <1>2, <1>3, <2>1
  <2>4. MarkedIn(stack', prog.flush, Places(pending', "watch") # {}, "watch" \in alive',
                 "watch" \in dirty', items', prev')
    BY <1>1, <1>3, <2>1
  <2>5. OwedIn(stack', pending', post', scheduled', flushing')
    BY <1>1, <1>3, <2>1
  <2> QED
    BY <1>3, <2>2, <2>3, <2>4, <2>5, ChainNext
<1>5. ASSUME NEW f, f.op \in {"handler", "flush"}, stack' = Append(stack, f), async' = async,
             f.op = "flush" => f.cbs = <<>>,
             f.op = "handler" => UNCHANGED <<scheduled, flushing>>,
             c = <<>> \/ f.op \in Inner(async),
             stack = <<>> \/ (f.op = "handler" /\ prog.flush = "post" /\ Calm(stack))
      PROVE  ChainInv'
  <2>1. Calm(stack)
    <3>1. Calm(<<>>)
      BY DEF Calm
    <3> QED
      BY <1>5, <3>1
  <2>2. FramesIn(stack', async', prog.flush, c)
    BY <1>1, <1>2, <1>5, <2>1, FramesPush
  <2>3. ~Imminent(f) /\ f.op # "branch" /\ f.op # "notify" /\ f.op # "callback"
    BY <1>5 DEF Imminent
  <2>4. ToldIn(stack', prog.flush, c, post', heard', "watch" \in alive', prev')
    <3>1. ToldIn(Append(stack, f), prog.flush, c, post, heard, "watch" \in alive, prev)
      BY <1>1, <1>2, <2>3, ToldPush
    <3> QED
      BY <1>3, <1>5, <3>1
  <2>5. MarkedIn(stack', prog.flush, Places(pending', "watch") # {}, "watch" \in alive',
                 "watch" \in dirty', items', prev')
    <3>1. MarkedIn(Append(stack, f), prog.flush, Places(pending, "watch") # {}, "watch" \in alive,
                   "watch" \in dirty, items, prev)
      BY <1>1, <2>3, MarkedPush
    <3> QED
      BY <1>3, <1>5, <3>1
  <2>6. OwedIn(stack', pending', post', scheduled', flushing')
    <3>1. /\ Calls(stack, "flush") # {} => Calls(stack', "flush") # {}
          /\ f.op = "flush" => Calls(stack', "flush") # {}
          /\ Obliged(stack')
      BY <1>1, <1>5, OwedPush
    <3> QED
      BY <1>1, <1>5, <3>1 DEF OwedIn
  <2> QED
    BY <1>3, <2>2, <2>4, <2>5, <2>6, ChainNext
<1>6. CASE Event \/ Microtask
  <2>0. HandlerFrame # FlushFrame
    <3>1. HandlerFrame.op # FlushFrame.op
      BY DEF HandlerFrame, FlushFrame
    <3> QED
      BY <3>1
  <2>1. PICK f \in {HandlerFrame, FlushFrame} : /\ stack' = <<f>>
                                                /\ f = HandlerFrame => UNCHANGED <<scheduled, flushing>>
    BY <1>6, <2>0 DEF Event, Microtask
  <2>2. stack = <<>> /\ async' = async
    BY <1>6 DEF Event, Microtask, AtRest
  <2>3. /\ f.op \in {"handler", "flush"} /\ (f.op = "flush" => f.cbs = <<>>)
        /\ f.op = "handler" => f = HandlerFrame
    BY DEF HandlerFrame, FlushFrame
  <2>4. c = <<>>
    <3>1. FramesIn(<<>>, async, prog.flush, c)
      BY <1>2, <2>2
    <3> QED
      BY <3>1, FramesEmpty
  <2>5. stack' = Append(stack, f)
    BY <2>1, <2>2
  <2> QED
    BY <1>5, <2>1, <2>2, <2>3, <2>4, <2>5
<1>7. CASE Batch
  <2>1. /\ async /\ async' = async /\ stack # <<>> /\ Last(stack).op = "callback"
        /\ Last(stack).from = "flush"
        /\ stack' = Append(stack, HandlerFrame) /\ UNCHANGED <<scheduled, flushing>>
    BY <1>7 DEF Batch, In, Top
  <2>2. Len(stack) \in Calls(stack, "callback") /\ stack[Len(stack)] = Last(stack)
    BY <1>1, <2>1, OnTop DEF Calls
  <2>3. prog.flush = "post"
    BY <1>2, <2>1, <2>2 DEF FramesIn, Caller
  <2>4. ~Imminent(Last(stack))
    BY <2>1 DEF Imminent
  <2>5. Calm(stack)
    BY <1>1, <1>2, <2>1, <2>4, FramesTop
  <2>6. HandlerFrame.op = "handler" /\ "handler" \in Inner(async)
    BY <2>1 DEF HandlerFrame, Inner
  <2> DEFINE f == HandlerFrame
  <2>7. /\ f.op = "handler" /\ f.op \in Inner(async) /\ stack' = Append(stack, f)
        /\ UNCHANGED <<scheduled, flushing>> /\ async' = async
    BY <2>1, <2>6
  <2> HIDE DEF f
  <2> QED
    BY ONLY <1>5, <2>3, <2>5, <2>7
<1> QED
  BY <1>4, <1>6, <1>7

LEMMA ReturnsChain ==
  ASSUME IInv, PInv, ChainInv,
         HandlerDone \/ NotifyDone \/ CallbackDone \/ FlushDone \/ Place \/ InsertBranch
  PROVE  ChainInv'
<1> DEFINE s == Front(stack)
<1>1. /\ IsStack(stack) /\ async \in BOOLEAN
      /\ MarkedIn(stack, prog.flush, Places(pending, "watch") # {}, "watch" \in alive,
                  "watch" \in dirty, items, prev)
      /\ OwedIn(stack, pending, post, scheduled, flushing)
  BY ChainFacts
<1>2. PICK c : /\ FramesIn(stack, async, prog.flush, c)
               /\ ToldIn(stack, prog.flush, c, post, heard, "watch" \in alive, prev)
  BY ChainFacts
<1>3. /\ UNCHANGED <<prog, async, post, heard, alive, prev, pending, items>> /\ stack # <<>>
  BY DEF HandlerDone, NotifyDone, CallbackDone, FlushDone, Place, InsertBranch, Step, queues, dom, In
<1>4. /\ Last(stack).op \in {"handler", "notify", "callback", "flush", "list", "branch"}
      /\ ~Imminent(Last(stack))
      /\ Last(stack).op = "flush" => Last(stack).cbs = <<>>
  BY DEF HandlerDone, NotifyDone, CallbackDone, FlushDone, Place, InsertBranch, Step, In, Top, Imminent
<1> DEFINE k == Len(stack)
<1>5. k \in DOMAIN stack /\ Last(stack) = stack[k]
  BY <1>1, <1>3, OnTop
<1> HIDE DEF k
<1>6. IsStack(s) /\ FramesIn(s, async, prog.flush, c) /\ Calm(s)
  BY <1>1, <1>2, <1>3, <1>4, PopFrame, FramesPop
<1>7. /\ Last(stack).op \notin {"flush", "handler", "notify"} /\ Obliged(stack) => Obliged(s)
      /\ Last(stack).op # "flush" /\ Calls(stack, "flush") # {} => Calls(s, "flush") # {}
      /\ Last(stack).op # "handler" /\ Calls(stack, "handler") # {} => Calls(s, "handler") # {}
  BY <1>1, <1>3, OwedPop
<1>8. \/ HandlerDone /\ ScheduleOrFlush(s) /\ Last(stack).op = "handler" /\ dirty' = dirty
      \/ NotifyDone /\ MaybeFlush(s) /\ Last(stack).op = "notify" /\ dirty' = dirty
      \/ /\ CallbackDone \/ FlushDone \/ Place \/ InsertBranch
         /\ stack' = s /\ Last(stack).op \notin {"handler", "notify"} /\ scheduled' = scheduled
         /\ Last(stack).op # "flush" => flushing' = flushing
         /\ Last(stack).op = "flush" => ~flushing' /\ pending = <<>> /\ post = <<>>
         /\ "watch" \in dirty' <=>
              "watch" \in dirty /\ ~(Last(stack).op = "callback" /\ Last(stack).from = "watch")
  BY DEF HandlerDone, NotifyDone, CallbackDone, FlushDone, Place, InsertBranch, Step, queues, In, Top,
         Rest, EffectsDone
<1>9. MarkedIn(s, prog.flush, Places(pending, "watch") # {}, "watch" \in alive,
               "watch" \in dirty', items, prev)
  <2>1. CASE Last(stack).op = "callback" /\ prog.flush # "post"
    <3>1. k \in Calls(stack, "callback") /\ stack[k].from = "watch"
      BY <1>2, <1>5, <2>1 DEF Calls, FramesIn, Caller
    <3>2. "watch" \notin dirty'
      BY <1>5, <1>8, <2>1, <3>1
    <3>3. "watch" \in alive => prev = items /\ prev # None
      BY <1>1, <2>1, <3>1 DEF MarkedIn
    <3>4. \A i \in Calls(s, "notify") : ~Imminent(s[i])
      BY <1>6 DEF Calm, Calls
    <3> QED
      BY <3>2, <3>3, <3>4 DEF MarkedIn
  <2>2. CASE Last(stack).op = "callback" => prog.flush = "post"
    <3>1. MarkedIn(s, prog.flush, Places(pending, "watch") # {}, "watch" \in alive,
                   "watch" \in dirty, items, prev)
      BY <1>1, <1>3, <1>4, <2>2, MarkedPop
    <3>2. Last(stack).op = "callback" => Last(stack).from # "watch"
      <4>1. Last(stack).op = "callback" => k \in Calls(stack, "callback")
        BY <1>5 DEF Calls
      <4> QED
        BY <1>2, <1>5, <2>2, <4>1 DEF FramesIn, Caller
    <3>3. "watch" \in dirty' <=> "watch" \in dirty
      BY <1>8, <3>2
    <3> QED
      BY <3>1, <3>3
  <2> QED
    BY <2>1, <2>2
<1>10. ToldIn(s, prog.flush, c, post, heard, "watch" \in alive, prev)
  BY <1>2, <1>6, ToldCalm
<1>11. CASE HandlerDone \/ NotifyDone
  <2>1. OwedIn(stack', pending', post', scheduled', flushing')
    <3>1. /\ flushing => Calls(s, "flush") # {}
          /\ \/ ScheduleOrFlush(s)
             \/ MaybeFlush(s) /\ (Calling("handler") => Calls(s, "handler") # {})
      <4>1. Last(stack).op # "flush"
        BY <1>11 DEF HandlerDone, NotifyDone, In, Top
      <4>2. CASE HandlerDone
        BY <1>1, <1>7, <4>1, <4>2 DEF OwedIn, HandlerDone, Rest
      <4>3. CASE NotifyDone
        <5>1. MaybeFlush(s) /\ Last(stack).op # "handler"
          BY <4>3 DEF NotifyDone, In, Top, Rest
        <5> QED
          BY <1>1, <1>7, <4>1, <5>1, HandlerCalled DEF OwedIn
      <4> QED
        BY <1>11, <4>2, <4>3
    <3> HIDE DEF s
    <3>2. OwedIn(stack', pending', post', scheduled', flushing')
      BY <1>6, <3>1, OwedFlush
    <3> QED
      BY <3>2
  <2>2. dirty' = dirty /\ Last(stack).op \in {"handler", "notify"}
    BY <1>11 DEF HandlerDone, NotifyDone, In, Top, queues
  <2>3. stack' = s \/ (stack' = Append(s, FlushFrame) /\ ~async)
    BY <1>11 DEF HandlerDone, NotifyDone, MaybeFlush, ScheduleOrFlush, Rest
  <2> HIDE DEF s
  <2>4. CASE stack' = s
    BY <1>2, <1>3, <1>6, <1>9, <1>10, <2>1, <2>4, ChainNext
  <2>5. CASE stack' = Append(s, FlushFrame) /\ ~async
    <3> DEFINE f == FlushFrame
    <3>1. f.op = "flush" /\ ~Imminent(f)
      BY DEF FlushFrame, Imminent
    <3>2. c = <<>>
      <4>1. Last(stack).op \notin Inner(async) \cup {"flush"}
        BY <2>2, <2>5 DEF Inner
      <4> QED
        BY <1>1, <1>2, <1>3, <4>1, FramesTop
    <3>3. FramesIn(Append(s, f), async, prog.flush, c)
      BY <1>6, <3>2, FlushFrames
    <3> HIDE DEF f
    <3>4. ToldIn(Append(s, f), prog.flush, c, post, heard, "watch" \in alive, prev)
      BY <1>6, <1>10, <3>1, ToldPush
    <3>5. MarkedIn(Append(s, f), prog.flush, Places(pending, "watch") # {}, "watch" \in alive,
                   "watch" \in dirty', items, prev)
      BY <1>6, <1>9, <3>1, MarkedPush
    <3>6. stack' = Append(s, f)
      BY <2>5 DEF f
    <3> QED
      BY <1>3, <2>1, <3>3, <3>4, <3>5, <3>6, ChainNext
  <2> QED
    BY <2>3, <2>4, <2>5
<1>12. CASE CallbackDone \/ FlushDone \/ Place \/ InsertBranch
  <2>1. stack' = s /\ Last(stack).op \notin {"handler", "notify"}
    BY <1>8, <1>12 DEF HandlerDone, NotifyDone, CallbackDone, FlushDone, Place, InsertBranch, Step, In, Top
  <2>2. /\ scheduled' = scheduled
        /\ Last(stack).op # "flush" => flushing' = flushing
        /\ Last(stack).op = "flush" => ~flushing' /\ pending = <<>> /\ post = <<>>
    BY <1>12 DEF CallbackDone, FlushDone, Place, InsertBranch, Step, In, Top, EffectsDone
  <2> HIDE DEF s
  <2>3. OwedIn(stack', pending', post', scheduled', flushing')
    BY <1>1, <1>3, <1>7, <2>1, <2>2 DEF OwedIn
  <2> QED
    BY <1>2, <1>3, <1>6, <1>9, <1>10, <2>1, <2>3, ChainNext
<1> QED
  BY <1>11, <1>12

LEMMA QueuedOne ==
  ASSUME NEW e \in {"watch", "list", "branch"}
  PROVE  /\ Queued(e) \in Seq(EffectIds)
         /\ \A x : x # e => Places(Queued(e), x) = {}
         /\ e \in alive \ dirty /\ ~IsSync(e) => Queued(e) = <<e>>
<1>1. e \in EffectIds
  BY DEF EffectIds, Effects
<1>2. <<e>> \in Seq(EffectIds) /\ <<>> \in Seq(EffectIds)
  BY <1>1
<1>3. \A x : Places(<<>>, x) = {}
  BY DEF Places
<1>4. \A x : x # e => Places(<<e>>, x) = {}
  <2>1. DOMAIN <<e>> = {1} /\ <<e>>[1] = e
    OBVIOUS
  <2> QED
    BY <2>1 DEF Places
<1> QED
  BY <1>2, <1>3, <1>4 DEF Queued

LEMMA WritersChain ==
  ASSUME IInv, PInv, ChainInv, Habits = {}, WriteItems \/ WriteShown
  PROVE  ChainInv'
<1>1. /\ IsStack(stack) /\ async \in BOOLEAN /\ pending \in Seq(EffectIds)
      /\ MarkedIn(stack, prog.flush, Places(pending, "watch") # {}, "watch" \in alive,
                  "watch" \in dirty, items, prev)
      /\ OwedIn(stack, pending, post, scheduled, flushing)
  BY ChainFacts
<1>2. PICK c : /\ FramesIn(stack, async, prog.flush, c)
               /\ ToldIn(stack, prog.flush, c, post, heard, "watch" \in alive, prev)
  BY ChainFacts
<1>3. /\ UNCHANGED <<prog, async, post, heard, alive, prev, scheduled, flushing>> /\ stack # <<>>
  BY DEF WriteItems, WriteShown, WritesItems, WritesShown, Write, Show, In
<1>4. /\ Last(stack).op \in {"handler", "callback"}
      /\ Last(stack).op = "callback" => async
      /\ WriteItems => Last(stack).op = "handler" \/ Last(stack).from = "flush"
  BY DEF WriteItems, WriteShown, WritesItems, WritesShown, In, Top
<1>5. Calm(stack)
  <2>1. ~Imminent(Last(stack))
    BY <1>4 DEF Imminent
  <2> QED
    BY <1>1, <1>2, <1>3, <2>1, FramesTop
<1>6. ASSUME NEW b, stack' = Append(stack, NotifyFrame(b)),
             MarkedIn(stack', prog.flush, Places(pending', "watch") # {}, "watch" \in alive',
                      "watch" \in dirty', items', prev')
      PROVE  ChainInv'
  <2> DEFINE f == NotifyFrame(b)
  <2>1. f.op = "notify"
    BY DEF NotifyFrame
  <2>2. stack' = Append(stack, f)
    BY <1>6
  <2> HIDE DEF f
  <2>3. c = <<>> \/ f.op \in Inner(async)
    <3>1. CASE async
      BY <2>1, <3>1 DEF Inner
    <3>2. CASE ~async
      <4>1. Last(stack).op \notin Inner(async) \cup {"flush"}
        BY <1>4, <3>2 DEF Inner
      <4> QED
        BY <1>1, <1>2, <1>3, <4>1, FramesTop
    <3> QED
      BY <3>1, <3>2
  <2>4. FramesIn(Append(stack, f), async, prog.flush, c)
    BY <1>1, <1>2, <1>5, <2>1, <2>3, FramesPush
  <2>5. ToldIn(Append(stack, f), prog.flush, c, post, heard, "watch" \in alive, prev)
    BY <1>1, <1>2, <2>1, ToldPush
  <2>6. OwedIn(stack', pending', post', scheduled', flushing')
    <3>1. /\ Calls(stack, "flush") # {} => Calls(stack', "flush") # {}
          /\ Obliged(stack')
      BY <1>1, <2>1, <2>2, OwedPush
    <3> QED
      BY <1>1, <1>3, <3>1 DEF OwedIn
  <2>7. FramesIn(stack', async', prog.flush, c)
    BY <1>3, <2>2, <2>4
  <2>8. ToldIn(stack', prog.flush, c, post', heard', "watch" \in alive', prev')
    BY <1>3, <2>2, <2>5
  <2> QED
    BY <1>3, <1>6, <2>6, <2>7, <2>8, ChainNext
<1>7. CASE WriteItems
  <2> DEFINE b == "watch" \in alive \ dirty /\ IsSync("watch")
             f == NotifyFrame(b)
             k == Len(stack)
  <2>1. /\ dirty' = dirty \cup (alive \cap {"watch", "list"})
        /\ pending' = (pending \o Queued("watch")) \o Queued("list")
        /\ stack' = Append(stack, f)
    BY <1>7 DEF WriteItems, Write
  <2>2. f.op = "notify" /\ (Imminent(f) <=> b)
    BY DEF NotifyFrame, Imminent
  <2> HIDE DEF f
  <2>3. /\ \A op : Calls(stack', op) = IF f.op = op THEN Calls(stack, op) \cup {k + 1} ELSE Calls(stack, op)
        /\ stack'[k + 1] = f /\ \A i \in DOMAIN stack : stack'[i] = stack[i]
    <3> DEFINE t == Append(stack, f)
    <3>1. /\ \A op : Calls(t, op) = IF f.op = op THEN Calls(stack, op) \cup {k + 1} ELSE Calls(stack, op)
          /\ t[k + 1] = f /\ \A i \in DOMAIN stack : t[i] = stack[i]
      BY <1>1, PushFrame
    <3> QED
      BY <2>1, <3>1
  <2>4. prog.flush # "post" => Calls(stack', "callback") = {}
    <3> SUFFICES ASSUME prog.flush # "post"
                 PROVE  Calls(stack, "callback") = {}
      BY <2>2, <2>3
    <3>1. k \in DOMAIN stack /\ Last(stack) = stack[k] /\ DOMAIN stack = 1 .. k /\ k \in Nat
      BY <1>1, <1>3, OnTop, Lengths
    <3>2. Last(stack).op = "handler"
      <4>1. Last(stack).op = "callback" => Last(stack).from = "watch"
        BY <1>2, <3>1 DEF FramesIn, Calls, Caller
      <4> QED
        BY <1>4, <1>7, <4>1
    <3>3. k = 1
      BY <1>2, <3>1, <3>2 DEF FramesIn, Calls
    <3>4. \A i \in DOMAIN stack : stack[i].op = "handler"
      <4>1. \A i \in DOMAIN stack : i = k
        BY <3>1, <3>3
      <4> QED
        BY <3>1, <3>2, <4>1
    <3> QED
      BY <3>4 DEF Calls
  <2> HIDE DEF k
  <2>5. \A i \in Calls(stack', "notify") : Imminent(stack'[i]) => b
    <3>1. \A i \in Calls(stack, "notify") : stack'[i] = stack[i] /\ ~Imminent(stack[i])
      BY <1>5, <2>3 DEF Calm, Calls
    <3> QED
      BY <2>2, <2>3, <3>1
  <2>6. b => \E i \in Calls(stack', "notify") : Imminent(stack'[i])
    BY <2>2, <2>3
  <2>7. b => "watch" \in alive /\ prog.flush = "sync"
    BY DEF IsSync
  <2>8. "watch" \in dirty' => b \/ Places(pending', "watch") # {}
    <3> SUFFICES ASSUME "watch" \in dirty', ~b
                 PROVE  Places(pending', "watch") # {}
      OBVIOUS
    <3>1. "watch" \notin dirty => Queued("watch") = <<"watch">>
      BY <2>1, QueuedOne
    <3>2. "watch" \in dirty => Places(pending, "watch") # {}
      <4>1. \A i \in Calls(stack, "notify") : ~Imminent(stack[i])
        BY <1>5 DEF Calm, Calls
      <4>2. prog.flush # "post" => Calls(stack, "callback") = {}
        BY <2>2, <2>3, <2>4
      <4> QED
        BY <1>1, <4>1, <4>2 DEF MarkedIn
    <3> DEFINE w == Queued("watch")
               l == Queued("list")
               q == pending \o w
    <3>3. w \in Seq(EffectIds) /\ l \in Seq(EffectIds)
      BY QueuedOne
    <3> HIDE DEF w, l
    <3>4. Places(q, "watch") # {} /\ q \in Seq(EffectIds)
      <4>1. Places(pending, "watch") # {} \/ w = <<"watch">>
        BY <3>1, <3>2 DEF w
      <4> QED
        BY <1>1, <3>3, <4>1, QueuedStays, ConcatProperties
    <3> HIDE DEF q
    <3>5. Places(q \o l, "watch") # {}
      BY <3>3, <3>4, QueuedStays
    <3> QED
      BY <2>1, <3>5 DEF q, w, l
  <2>9. /\ "watch" \in dirty' => "watch" \in alive'
        /\ "watch" \in alive' => "watch" \in dirty' /\ prev' # None
    BY <1>1, <1>3, <2>1 DEF MarkedIn
  <2> HIDE DEF b
  <2>10. MarkedIn(stack', prog.flush, Places(pending', "watch") # {}, "watch" \in alive',
                  "watch" \in dirty', items', prev')
    BY <1>3, <2>4, <2>5, <2>6, <2>7, <2>8, <2>9 DEF MarkedIn
  <2>11. stack' = Append(stack, NotifyFrame(b))
    BY <2>1 DEF f
  <2> QED
    BY <1>6, <2>10, <2>11
<1>8. CASE WriteShown
  <2> DEFINE f == NotifyFrame(FALSE)
  <2>1. /\ dirty' = dirty \cup (alive \cap {"branch"}) /\ items' = items
        /\ pending' = pending \o Queued("branch")
        /\ stack' = Append(stack, f)
    BY <1>8 DEF WriteShown, Show
  <2>2. f.op = "notify" /\ ~Imminent(f)
    BY DEF NotifyFrame, Imminent
  <2> HIDE DEF f
  <2>3. MarkedIn(Append(stack, f), prog.flush, Places(pending, "watch") # {}, "watch" \in alive,
                 "watch" \in dirty, items, prev)
    BY <1>1, <2>2, MarkedPush
  <2>4. Places(pending \o Queued("branch"), "watch") = Places(pending, "watch")
    BY <1>1, QueuedOne, Concat
  <2>5. "watch" \in dirty' <=> "watch" \in dirty
    BY <2>1
  <2>6. MarkedIn(stack', prog.flush, Places(pending', "watch") # {}, "watch" \in alive',
                 "watch" \in dirty', items', prev')
    BY <1>3, <2>1, <2>3, <2>4, <2>5
  <2>7. stack' = Append(stack, NotifyFrame(FALSE))
    BY <2>1 DEF f
  <2> QED
    BY <1>6, <2>6, <2>7
<1> QED
  BY <1>7, <1>8

LEMMA MarkedCalm ==
  ASSUME NEW s, NEW mode, NEW queued, NEW live, NEW stale, NEW list, NEW seen,
         MarkedIn(s, mode, queued, live, stale, list, seen), Calm(s),
         NEW t, Calm(t), Calls(t, "callback") = Calls(s, "callback"),
         NEW rest, stale /\ queued => rest
  PROVE  MarkedIn(t, mode, rest, live, stale, list, seen)
<1>1. /\ \A i \in Calls(s, "notify") : ~Imminent(s[i])
      /\ \A i \in Calls(t, "notify") : ~Imminent(t[i])
  BY DEF Calm, Calls
<1> QED
  BY <1>1 DEF MarkedIn

(* The list's effect on the calls s, with the effects q queued.            *)
LEMMA ListRuns ==
  ASSUME NEW s, NEW q \in Seq(EffectIds), Reconcile(s, q),
         items \in Lists, NamesLeft(DOMAIN row), DOMAIN row = Range(store),
         IsStack(s), FramesIn(s, async, prog.flush, <<>>), Calm(s),
         ToldIn(s, prog.flush, <<>>, post, heard, "watch" \in alive, prev),
         MarkedIn(s, prog.flush, Places(q, "watch") # {}, "watch" \in alive,
                  "watch" \in dirty, items, prev),
         flushing => Calls(s, "flush") # {},
         "watch" \in alive' <=> "watch" \in alive
  PROVE  ChainInv'
<1>1. PICK f : /\ f.op = "list" /\ ScheduleOrFlush(Append(s, f))
               /\ UNCHANGED <<prog, async, items, post, prev, heard>>
  BY DEF Reconcile, ListFrame
<1>2. Places(pending', "watch") = Places(q, "watch") /\ ("watch" \in dirty' <=> "watch" \in dirty)
  BY ReconcileRows DEF Named
<1> DEFINE t == Append(s, f)
<1>3. ~Imminent(f)
  BY <1>1 DEF Imminent
<1>4. IsStack(t) /\ \A i \in DOMAIN t : t[i] = f \/ (i \in DOMAIN s /\ t[i] = s[i])
  <2>1. /\ IsStack(t) /\ DOMAIN t = DOMAIN s \cup {Len(s) + 1}
        /\ t[Len(s) + 1] = f /\ \A i \in DOMAIN s : t[i] = s[i]
    <3>1. IsStack(s)
      OBVIOUS
    <3> QED
      BY ONLY <3>1, PushFrame
  <2> HIDE DEF t
  <2> QED
    BY <2>1
<1>5. ScheduleOrFlush(t)
  BY <1>1
<1>6. FramesIn(t, async, prog.flush, <<>>)
  BY <1>1, FramesPush
<1>7. flushing => Calls(t, "flush") # {}
  BY OwedPush
<1>8. ToldIn(t, prog.flush, <<>>, post, heard, "watch" \in alive, prev)
  BY <1>1, ToldPush
<1>9. MarkedIn(t, prog.flush, Places(q, "watch") # {}, "watch" \in alive,
               "watch" \in dirty, items, prev)
  BY <1>1, MarkedPush
<1> HIDE DEF t
<1>10. Calm(t)
  BY <1>3, <1>4 DEF Calm
<1>11. OwedIn(stack', pending', post', scheduled', flushing')
  BY <1>4, <1>5, <1>7, OwedFlush
<1>12. CASE stack' = t
  <2>1. FramesIn(stack', async', prog.flush, <<>>)
    BY <1>1, <1>6, <1>12
  <2>2. ToldIn(stack', prog.flush, <<>>, post', heard', "watch" \in alive', prev')
    BY <1>1, <1>8, <1>12
  <2>3. MarkedIn(stack', prog.flush, Places(pending', "watch") # {}, "watch" \in alive',
                 "watch" \in dirty', items', prev')
    BY <1>1, <1>2, <1>9, <1>12
  <2> QED
    BY <1>1, <1>11, <2>1, <2>2, <2>3, ChainNext
<1>13. CASE stack' = Append(t, FlushFrame)
  <2> DEFINE g == FlushFrame
  <2>1. g.op = "flush"
    BY DEF FlushFrame
  <2>2. FramesIn(Append(t, g), async, prog.flush, <<>>)
    BY <1>4, <1>6, <1>10, FlushFrames
  <2>3. stack' = Append(t, g)
    BY <1>13
  <2> HIDE DEF g
  <2>4. ToldIn(Append(t, g), prog.flush, <<>>, post, heard, "watch" \in alive, prev)
    BY <1>4, <1>8, <2>1, ToldPush
  <2>5. MarkedIn(Append(t, g), prog.flush, Places(q, "watch") # {}, "watch" \in alive,
                 "watch" \in dirty, items, prev)
    BY <1>4, <1>9, <2>1, MarkedPush
  <2>6. FramesIn(stack', async', prog.flush, <<>>)
    BY <1>1, <2>2, <2>3
  <2>7. ToldIn(stack', prog.flush, <<>>, post', heard', "watch" \in alive', prev')
    BY <1>1, <2>3, <2>4
  <2>8. MarkedIn(stack', prog.flush, Places(pending', "watch") # {}, "watch" \in alive',
                 "watch" \in dirty', items', prev')
    BY <1>1, <1>2, <2>3, <2>5
  <2> QED
    BY <1>1, <1>11, <2>6, <2>7, <2>8, ChainNext
<1> QED
  BY <1>5, <1>12, <1>13 DEF ScheduleOrFlush

LEMMA ListsChain ==
  ASSUME IInv, PInv, ChainInv, MakeList \/ FlushList
  PROVE  ChainInv'
<1>1. /\ IsStack(stack) /\ items \in Lists /\ pending \in Seq(EffectIds)
      /\ MarkedIn(stack, prog.flush, Places(pending, "watch") # {}, "watch" \in alive,
                  "watch" \in dirty, items, prev)
      /\ OwedIn(stack, pending, post, scheduled, flushing)
  BY ChainFacts
<1>2. PICK c : /\ FramesIn(stack, async, prog.flush, c)
               /\ ToldIn(stack, prog.flush, c, post, heard, "watch" \in alive, prev)
  BY ChainFacts
<1>3. Core(stack, pending, alive, dirty, DOMAIN row, store) /\ NamesLeft(DOMAIN row)
  BY Shape
<1>4. CASE MakeList
  <2> DEFINE f == BranchFrame("insert")
             s == Append(Front(stack), f)
             k == Len(stack)
  <2>1. /\ stack # <<>> /\ Last(stack).op = "branch" /\ Last(stack).step = "list"
        /\ Reconcile(s, pending) /\ alive' = alive \cup {"list"}
    BY <1>4 DEF MakeList, Step, In, Top, Resume, Rest
  <2>2. f.op = Last(stack).op /\ ~Imminent(f) /\ ~Imminent(Last(stack))
    BY <2>1 DEF BranchFrame, Imminent
  <2> HIDE DEF f
  <2>3. c = <<>> /\ Calm(stack)
    BY <1>1, <1>2, <2>1, <2>2, FramesTop
  <2>4. IsStack(s) /\ FramesIn(s, async, prog.flush, <<>>) /\ Calm(s)
    BY <1>1, <1>2, <2>1, <2>2, <2>3, FramesReplace
  <2>5. \A op : Calls(s, op) = Calls(stack, op)
    BY <1>1, <2>1, <2>2, ReplaceFrame
  <2> HIDE DEF s
  <2>6. ToldIn(s, prog.flush, <<>>, post, heard, "watch" \in alive, prev)
    BY <1>2, <2>3, <2>4, ToldCalm
  <2>7. MarkedIn(s, prog.flush, Places(pending, "watch") # {}, "watch" \in alive,
                 "watch" \in dirty, items, prev)
    BY <1>1, <2>3, <2>4, <2>5, MarkedCalm
  <2>8. k \in Calls(stack, "branch") /\ stack[k].step # "insert"
    BY <1>1, <2>1, OnTop DEF Calls
  <2>9. "list" \notin alive
    BY <1>3, <2>8 DEF Core, BuildingIn
  <2>10. DOMAIN row = Range(store)
    BY <1>3, <2>9 DEF Core, RowsIn
  <2>11. flushing => Calls(s, "flush") # {}
    BY <1>1, <2>5 DEF OwedIn
  <2>12. "watch" \in alive' <=> "watch" \in alive
    BY <2>1
  <2> QED
    BY <1>1, <1>3, <2>1, <2>4, <2>6, <2>7, <2>10, <2>11, <2>12, ListRuns
<1>5. CASE FlushList
  <2>1. /\ stack # <<>> /\ Last(stack).op = "flush" /\ Last(stack).cbs = <<>> /\ pending # <<>>
        /\ Head(pending) = "list" /\ Reconcile(stack, Tail(pending)) /\ alive' = alive
    BY <1>5 DEF FlushList, Flushing, Due, In, Top
  <2>2. Head(pending) \in Framed /\ ~Imminent(Last(stack))
    BY <2>1 DEF Framed, Imminent
  <2>3. /\ Core(stack, Tail(pending), alive, dirty, DOMAIN row, store)
        /\ Calls(stack, "list") = {}
    BY <1>3, <2>1, <2>2, Dequeue
  <2>4. DOMAIN row = Range(store) /\ Tail(pending) \in Seq(EffectIds)
    BY <2>3 DEF Core, RowsIn
  <2>5. c = <<>> /\ Calm(stack)
    BY <1>1, <1>2, <2>1, <2>2, FramesTop
  <2>6. Places(pending, "watch") # {} => Places(Tail(pending), "watch") # {}
    BY <1>1, <2>1, TailKeeps
  <2>7. MarkedIn(stack, prog.flush, Places(Tail(pending), "watch") # {}, "watch" \in alive,
                 "watch" \in dirty, items, prev)
    BY <1>1, <2>5, <2>6, MarkedCalm
  <2>8. flushing => Calls(stack, "flush") # {}
    BY <1>1 DEF OwedIn
  <2> QED
    BY <1>1, <1>2, <1>3, <2>1, <2>4, <2>5, <2>7, <2>8, ListRuns
<1> QED
  BY <1>4, <1>5

LEMMA EffectsChain ==
  ASSUME IInv, PInv, ChainInv, FlushSkip \/ FlushRow
  PROVE  ChainInv'
<1>1. /\ IsStack(stack) /\ pending \in Seq(EffectIds)
      /\ MarkedIn(stack, prog.flush, Places(pending, "watch") # {}, "watch" \in alive,
                  "watch" \in dirty, items, prev)
      /\ OwedIn(stack, pending, post, scheduled, flushing)
  BY ChainFacts
<1>2. PICK c : /\ FramesIn(stack, async, prog.flush, c)
               /\ ToldIn(stack, prog.flush, c, post, heard, "watch" \in alive, prev)
  BY ChainFacts
<1>3. /\ stack # <<>> /\ Last(stack).op = "flush" /\ pending # <<>> /\ pending' = Tail(pending)
      /\ UNCHANGED <<prog, async, stack, post, heard, alive, prev, scheduled, flushing, items>>
  BY DEF FlushSkip, FlushRow, Flushing, In, Top
<1>4. /\ "watch" \in dirty' <=> "watch" \in dirty
      /\ "watch" \in dirty => Head(pending) # "watch"
  <2>1. "watch" \notin RowIds
    BY ViewAssumption DEF Effects
  <2> QED
    BY <2>1 DEF FlushSkip, FlushRow, Due
<1>5. Calm(stack)
  <2>1. ~Imminent(Last(stack))
    BY <1>3 DEF Imminent
  <2> QED
    BY <1>1, <1>2, <1>3, <2>1, FramesTop
<1>6. "watch" \in dirty /\ Places(pending, "watch") # {} => Places(Tail(pending), "watch") # {}
  BY <1>1, <1>3, <1>4, TailKeeps
<1>7. MarkedIn(stack, prog.flush, Places(Tail(pending), "watch") # {}, "watch" \in alive,
               "watch" \in dirty, items, prev)
  BY <1>1, <1>5, <1>6, MarkedCalm
<1>8. MarkedIn(stack', prog.flush, Places(pending', "watch") # {}, "watch" \in alive',
               "watch" \in dirty', items', prev')
  BY <1>3, <1>4, <1>7
<1>9. OwedIn(stack', pending', post', scheduled', flushing')
  <2>1. Obliged(stack)
    BY <1>1, <1>3, OnTop DEF Obliged, Calls
  <2> QED
    BY <1>1, <1>3, <2>1 DEF OwedIn
<1>10. FramesIn(stack', async', prog.flush, c)
  BY <1>2, <1>3
<1>11. ToldIn(stack', prog.flush, c, post', heard', "watch" \in alive', prev')
  BY <1>2, <1>3
<1> QED
  BY <1>3, <1>8, <1>9, <1>10, <1>11, ChainNext

LEMMA TakeChain ==
  ASSUME IInv, PInv, ChainInv, FlushTake
  PROVE  ChainInv'
<1>1. /\ IsStack(stack)
      /\ MarkedIn(stack, prog.flush, Places(pending, "watch") # {}, "watch" \in alive,
                  "watch" \in dirty, items, prev)
      /\ OwedIn(stack, pending, post, scheduled, flushing)
  BY ChainFacts
<1>2. PICK c : /\ FramesIn(stack, async, prog.flush, c)
               /\ ToldIn(stack, prog.flush, c, post, heard, "watch" \in alive, prev)
  BY ChainFacts
<1>3. /\ stack # <<>> /\ Last(stack).op = "flush" /\ Last(stack).cbs = <<>> /\ post # <<>>
      /\ stack' = Append(Front(stack), [FlushFrame EXCEPT !.cbs = post]) /\ post' = <<>>
      /\ UNCHANGED <<prog, items, async, scheduled, flushing, pending, dirty, alive, prev, heard>>
  BY DEF FlushTake, In, Top, Resume, Rest
<1>4. prog.flush = "post"
  BY <1>2, <1>3 DEF ToldIn
<1>5. c = <<>> /\ Calm(stack)
  <2>1. ~Imminent(Last(stack))
    BY <1>3 DEF Imminent
  <2> QED
    BY <1>1, <1>2, <1>3, <2>1, FramesTop
<1> DEFINE f == [FlushFrame EXCEPT !.cbs = post]
           t == Append(Front(stack), f)
<1>6. f.op = "flush" /\ f.cbs = post
  BY DEF FlushFrame
<1> HIDE DEF f
<1>7. /\ IsStack(t) /\ FramesIn(t, async, "post", f.cbs) /\ Calm(t)
      /\ \A op : Calls(t, op) = Calls(stack, op)
  <2>1. FramesIn(stack, async, "post", c)
    BY <1>2, <1>4
  <2> QED
    BY <1>1, <1>3, <1>6, <2>1, FramesTaken
<1>8. stack' = t
  BY <1>3 DEF f
<1> HIDE DEF t
<1>9. ToldIn(t, prog.flush, post, <<>>, heard, "watch" \in alive, prev)
  <2>1. LastTold(c, heard) = heard
    BY <1>5, EmptyIsStack, NoneTold
  <2>2. /\ IsStack(post) /\ Chain(post, heard)
        /\ "watch" \in alive => LastTold(post, heard) = prev
    BY <1>2, <2>1 DEF ToldIn
  <2>3. \A last : Chain(<<>>, last) /\ LastTold(<<>>, last) = last
    BY EmptyIsStack, NoneTold
  <2>4. IsStack(<<>>)
    BY EmptyIsStack
  <2> QED
    BY <1>4, <1>7, <2>2, <2>3, <2>4 DEF ToldIn, Calm
<1>10. MarkedIn(t, prog.flush, Places(pending, "watch") # {}, "watch" \in alive,
                "watch" \in dirty, items, prev)
  BY <1>1, <1>5, <1>7, MarkedCalm
<1>11. OwedIn(stack', pending', post', scheduled', flushing')
  <2>1. Calls(t, "flush") = Calls(stack, "flush") /\ (Obliged(stack) => Obliged(t))
    BY <1>7 DEF Obliged
  <2>2. post # <<>> /\ (flushing => Calls(stack, "flush") # {})
        /\ (scheduled \/ Obliged(stack))
    BY <1>1, <1>3 DEF OwedIn
  <2> QED
    BY <1>3, <1>8, <2>1, <2>2 DEF OwedIn
<1>12. FramesIn(stack', async', prog.flush, post)
  BY <1>3, <1>4, <1>6, <1>7, <1>8
<1>13. ToldIn(stack', prog.flush, post, post', heard', "watch" \in alive', prev')
  BY <1>3, <1>8, <1>9
<1>14. MarkedIn(stack', prog.flush, Places(pending', "watch") # {}, "watch" \in alive',
                "watch" \in dirty', items', prev')
  BY <1>3, <1>8, <1>10
<1> QED
  BY <1>3, <1>11, <1>12, <1>13, <1>14, ChainNext

(* The callback that a flush calls continues the chain.                    *)
LEMMA CallbackChain ==
  ASSUME IInv, PInv, ChainInv, FlushCallback
  PROVE  /\ ChainInv'
         /\ Head(Last(stack).cbs).own => Linked(Head(Last(stack).cbs), heard)
<1> DEFINE told == Head(Last(stack).cbs)
           now  == IF told.own THEN told.new ELSE heard
           f    == [FlushFrame EXCEPT !.cbs = Tail(Last(stack).cbs)]
           g    == CallbackFrame(told, "flush")
           s    == Append(Front(stack), f)
<1>1. /\ IsStack(stack)
      /\ MarkedIn(stack, prog.flush, Places(pending, "watch") # {}, "watch" \in alive,
                  "watch" \in dirty, items, prev)
      /\ OwedIn(stack, pending, post, scheduled, flushing)
  BY ChainFacts
<1>2. PICK c : /\ FramesIn(stack, async, prog.flush, c)
               /\ ToldIn(stack, prog.flush, c, post, heard, "watch" \in alive, prev)
  BY ChainFacts
<1>3. /\ stack # <<>> /\ Last(stack).op = "flush" /\ Last(stack).cbs # <<>>
      /\ stack' = Append(s, g) /\ heard' = now
      /\ UNCHANGED <<prog, items, async, scheduled, flushing, pending, post, dirty, alive, prev>>
  BY DEF FlushCallback, In, Top, Resume, Rest, queues
<1>4. c = Last(stack).cbs /\ prog.flush = "post" /\ Calm(stack)
  <2>1. ~Imminent(Last(stack))
    BY <1>3 DEF Imminent
  <2> QED
    BY <1>1, <1>2, <1>3, <2>1, FramesTop
<1>5. f.op = "flush" /\ f.cbs = Tail(c)
  BY <1>4 DEF FlushFrame
<1>6. g.op = "callback" /\ g.from = "flush" /\ ~Imminent(g)
  BY DEF CallbackFrame, Imminent
<1>7. told = Head(c) /\ c # <<>>
  BY <1>3, <1>4
<1> HIDE DEF f, g, told
<1>8. /\ IsStack(s) /\ FramesIn(s, async, "post", Tail(c)) /\ Calm(s)
      /\ \A op : Calls(s, op) = Calls(stack, op)
  <2>1. FramesIn(stack, async, "post", c)
    BY <1>2, <1>4
  <2>2. /\ IsStack(s) /\ FramesIn(s, async, "post", f.cbs) /\ Calm(s)
        /\ \A op : Calls(s, op) = Calls(stack, op)
    BY <1>1, <1>3, <1>5, <2>1, FramesTaken
  <2> QED
    BY <1>5, <2>2
<1> HIDE DEF s
<1>9. FramesIn(Append(s, g), async, "post", Tail(c))
  <2>1. g.op \in Inner(async) /\ g.from = Caller("post")
    BY <1>6 DEF Inner, Caller
  <2> QED
    BY <1>6, <1>8, <2>1, FramesPush
<1>10. /\ told.own => Linked(told, heard)
       /\ Chain(Tail(c), now) /\ LastTold(Tail(c), now) = LastTold(c, heard)
  <2>1. IsStack(c) /\ Chain(c, heard)
    BY <1>2 DEF ToldIn
  <2> QED
    BY <1>7, <2>1, HearOne
<1> HIDE DEF now
<1>11. ToldIn(s, prog.flush, Tail(c), post, now, "watch" \in alive, prev)
  <2>1. IsStack(Tail(c))
    BY <1>2, <1>7, TailStack DEF ToldIn
  <2>2. /\ IsStack(post) /\ Chain(post, LastTold(c, heard))
        /\ "watch" \in alive => LastTold(post, LastTold(c, heard)) = prev
    BY <1>2 DEF ToldIn
  <2> QED
    BY <1>4, <1>8, <1>10, <2>1, <2>2 DEF ToldIn, Calm
<1>12. ToldIn(Append(s, g), prog.flush, Tail(c), post, now, "watch" \in alive, prev)
  BY <1>6, <1>8, <1>11, ToldPush
<1>13. MarkedIn(s, prog.flush, Places(pending, "watch") # {}, "watch" \in alive,
                "watch" \in dirty, items, prev)
  BY <1>1, <1>4, <1>8, MarkedCalm
<1>14. MarkedIn(Append(s, g), prog.flush, Places(pending, "watch") # {}, "watch" \in alive,
                "watch" \in dirty, items, prev)
  BY <1>4, <1>6, <1>8, <1>13, MarkedPush
<1>15. OwedIn(stack', pending', post', scheduled', flushing')
  <2>1. Calls(s, "flush") = Calls(stack, "flush") /\ (Obliged(stack) => Obliged(s))
    BY <1>8 DEF Obliged
  <2>2. /\ Obliged(s) => Obliged(Append(s, g))
        /\ Calls(s, "flush") # {} => Calls(Append(s, g), "flush") # {}
    BY <1>8, OwedPush
  <2> QED
    BY <1>1, <1>3, <2>1, <2>2 DEF OwedIn
<1>16. FramesIn(stack', async', prog.flush, Tail(c))
  BY <1>3, <1>4, <1>9
<1>17. ToldIn(stack', prog.flush, Tail(c), post', heard', "watch" \in alive', prev')
  BY <1>3, <1>12
<1>18. MarkedIn(stack', prog.flush, Places(pending', "watch") # {}, "watch" \in alive',
                "watch" \in dirty', items', prev')
  BY <1>3, <1>14
<1>19. ChainInv'
  BY <1>3, <1>15, <1>16, <1>17, <1>18, ChainNext
<1> QED
  BY <1>10, <1>19 DEF told

(* After the branch is disposed there is no watcher, and the callbacks     *)
(* still queued belong to none.                                            *)
LEMMA DisposedChain ==
  ASSUME NEW q \in Seq(EffectIds), NEW effects, DisposeBranch(q, effects),
         NEW s, IsStack(s), NEW mode, NEW c, NEW last, NEW live, NEW seen,
         ToldIn(s, mode, c, post, last, live, seen)
  PROVE  /\ "watch" \notin alive' /\ "watch" \notin dirty' /\ prev' = None
         /\ IsStack(post') /\ NoneOwn(post') /\ (post = <<>> => post' = <<>>)
         /\ \A t : ToldIn(t, mode, c, post', last, "watch" \in alive', prev')
<1>1. /\ "watch" \notin alive' /\ "watch" \notin dirty' /\ prev' = None /\ post' = Orphan(post)
  BY DEF DisposeBranch
<1>2. IsStack(c) /\ IsStack(post) /\ Chain(c, last) /\ (mode # "post" => post = <<>>)
  BY DEF ToldIn
<1>3. IsStack(post') /\ NoneOwn(post') /\ (post = <<>> => post' = <<>>)
  BY <1>1, <1>2, Orphaned
<1>4. Chain(post', LastTold(c, last))
  BY <1>3, NoneTold
<1>5. \A t : ToldIn(t, mode, c, post', last, "watch" \in alive', prev')
  BY <1>1, <1>2, <1>3, <1>4 DEF ToldIn
<1> QED
  BY <1>1, <1>3, <1>5

LEMMA ForgetEmpty ==
  ASSUME NEW gone
  PROVE  Forget(<<>>, gone) = <<>>
  BY DEF Forget

LEMMA UnmountChain ==
  ASSUME IInv, PInv, ChainInv, Unmount
  PROVE  ChainInv'
<1>1. /\ IsStack(stack) /\ pending \in Seq(EffectIds)
      /\ MarkedIn(stack, prog.flush, Places(pending, "watch") # {}, "watch" \in alive,
                  "watch" \in dirty, items, prev)
      /\ OwedIn(stack, pending, post, scheduled, flushing)
  BY ChainFacts
<1>2. PICK c : /\ FramesIn(stack, async, prog.flush, c)
               /\ ToldIn(stack, prog.flush, c, post, heard, "watch" \in alive, prev)
  BY ChainFacts
<1>3. /\ stack # <<>> /\ Last(stack).op = "handler" /\ stack' = stack
      /\ DisposeBranch(pending, {"branch"})
      /\ UNCHANGED <<prog, items, async, scheduled, flushing, heard>>
  BY DEF Unmount, In, Top
<1>4. /\ "watch" \notin alive' /\ "watch" \notin dirty'
      /\ ToldIn(stack, prog.flush, c, post', heard, "watch" \in alive', prev')
  BY <1>1, <1>2, <1>3, DisposedChain
<1>5. Calm(stack)
  <2>1. ~Imminent(Last(stack))
    BY <1>3 DEF Imminent
  <2> QED
    BY <1>1, <1>2, <1>3, <2>1, FramesTop
<1>6. OwedIn(stack', pending', post', scheduled', flushing')
  <2>1. Obliged(stack)
    BY <1>1, <1>3, OnTop DEF Obliged, Calls
  <2> QED
    BY <1>1, <1>3, <2>1 DEF OwedIn
<1>7. FramesIn(stack', async', prog.flush, c)
  BY <1>2, <1>3
<1>8. ToldIn(stack', prog.flush, c, post', heard', "watch" \in alive', prev')
  BY <1>3, <1>4
<1>9. MarkedIn(stack', prog.flush, Places(pending', "watch") # {}, "watch" \in alive',
               "watch" \in dirty', items', prev')
  <2>1. \A i \in Calls(stack', "notify") : ~Imminent(stack'[i])
    BY <1>3, <1>5 DEF Calm, Calls
  <2> QED
    BY <1>4, <2>1 DEF MarkedIn
<1> QED
  BY <1>3, <1>6, <1>7, <1>8, <1>9, ChainNext

LEMMA BranchChain ==
  ASSUME IInv, PInv, ChainInv, Create \/ FlushBranch
  PROVE  ChainInv'
<1>1. /\ IsStack(stack) /\ pending \in Seq(EffectIds)
      /\ MarkedIn(stack, prog.flush, Places(pending, "watch") # {}, "watch" \in alive,
                  "watch" \in dirty, items, prev)
      /\ OwedIn(stack, pending, post, scheduled, flushing)
  BY ChainFacts
<1>2. PICK c : /\ FramesIn(stack, async, prog.flush, c)
               /\ ToldIn(stack, prog.flush, c, post, heard, "watch" \in alive, prev)
  BY ChainFacts
<1>3. PICK q \in Seq(EffectIds) :
        /\ RunBranch(stack, q)
        /\ c = <<>> /\ Calm(stack)
        /\ (q = pending /\ stack = <<>>) \/ Obliged(stack)
        /\ Places(pending, "watch") # {} => Places(q, "watch") # {}
  <2>1. CASE Create
    <3>1. stack = <<>> /\ RunBranch(stack, pending)
      BY <2>1 DEF Create, AtRest
    <3>2. c = <<>> /\ Calm(stack)
      <4>1. FramesIn(<<>>, async, prog.flush, c)
        BY <1>2, <3>1
      <4> QED
        BY <3>1, <4>1, FramesEmpty
    <3> QED
      BY <1>1, <3>1, <3>2
  <2>2. CASE FlushBranch
    <3>1. /\ stack # <<>> /\ Last(stack).op = "flush" /\ Last(stack).cbs = <<>> /\ pending # <<>>
          /\ Head(pending) = "branch" /\ RunBranch(stack, Tail(pending))
      BY <2>2 DEF FlushBranch, Flushing, Due, In, Top
    <3>2. c = <<>> /\ Calm(stack)
      <4>1. ~Imminent(Last(stack))
        BY <3>1 DEF Imminent
      <4> QED
        BY <1>1, <1>2, <3>1, <4>1, FramesTop
    <3>3. Obliged(stack)
      BY <1>1, <3>1, OnTop DEF Obliged, Calls
    <3>4. /\ Tail(pending) \in Seq(EffectIds)
          /\ Places(pending, "watch") # {} => Places(Tail(pending), "watch") # {}
      BY <1>1, <3>1, TailKeeps, HeadTailProperties
    <3> QED
      BY <3>1, <3>2, <3>3, <3>4
  <2> QED
    BY <2>1, <2>2
<1>4. UNCHANGED <<prog, items, async, scheduled, flushing, heard>>
  BY <1>3 DEF RunBranch
<1>5. CASE SameBranch(stack, q)
  <2>1. /\ stack' = stack /\ pending' = q /\ UNCHANGED <<post, alive, prev>>
        /\ "watch" \in dirty' <=> "watch" \in dirty
    BY <1>5 DEF SameBranch
  <2>2. MarkedIn(stack, prog.flush, Places(q, "watch") # {}, "watch" \in alive,
                 "watch" \in dirty, items, prev)
    BY <1>1, <1>3, MarkedCalm
  <2>3. MarkedIn(stack', prog.flush, Places(pending', "watch") # {}, "watch" \in alive',
                 "watch" \in dirty', items', prev')
    BY <1>4, <2>1, <2>2
  <2>4. OwedIn(stack', pending', post', scheduled', flushing')
    BY <1>1, <1>3, <1>4, <2>1 DEF OwedIn
  <2>5. FramesIn(stack', async', prog.flush, c)
    BY <1>2, <1>4, <2>1
  <2>6. ToldIn(stack', prog.flush, c, post', heard', "watch" \in alive', prev')
    BY <1>2, <1>4, <2>1
  <2> QED
    BY <1>4, <2>3, <2>4, <2>5, <2>6, ChainNext
<1>6. CASE SwapBranch(stack, q)
  <2>1. PICK step : stack' = Append(stack, BranchFrame(step))
    BY <1>6 DEF SwapBranch
  <2>2. DisposeBranch(q, {})
    BY <1>6 DEF SwapBranch
  <2>3. /\ "watch" \notin alive' /\ "watch" \notin dirty' /\ prev' = None
        /\ NoneOwn(post') /\ (post = <<>> => post' = <<>>)
        /\ ToldIn(stack, prog.flush, c, post', heard, "watch" \in alive', prev')
    BY <1>1, <1>2, <2>2, DisposedChain
  <2> DEFINE f == BranchFrame(step)
  <2>4. f.op = "branch"
    BY DEF BranchFrame
  <2>5. stack' = Append(stack, f)
    BY <2>1
  <2> HIDE DEF f
  <2>6. FramesIn(Append(stack, f), async, prog.flush, c)
    BY <1>1, <1>2, <1>3, <2>4, FramesPush
  <2>7. ToldIn(Append(stack, f), prog.flush, c, post', heard, "watch" \in alive', prev')
    BY <1>1, <2>3, ToldPush
  <2>8. \A i \in Calls(stack', "notify") : ~Imminent(stack'[i])
    <3> DEFINE t == Append(stack, f)
               k == Len(stack) + 1
    <3>1. /\ t[k] = f /\ \A i \in DOMAIN stack : t[i] = stack[i]
          /\ DOMAIN t = DOMAIN stack \cup {k}
      BY <1>1, PushFrame
    <3> HIDE DEF t, k
    <3>2. \A i \in Calls(t, "notify") : i \in DOMAIN stack /\ t[i] = stack[i]
      BY <2>4, <3>1 DEF Calls
    <3>3. \A i \in Calls(t, "notify") : ~Imminent(t[i])
      BY <1>3, <3>2 DEF Calm
    <3> QED
      BY <2>5, <3>3 DEF t
  <2>9. MarkedIn(stack', prog.flush, Places(pending', "watch") # {}, "watch" \in alive',
                 "watch" \in dirty', items', prev')
    BY <2>3, <2>8 DEF MarkedIn
  <2>10. OwedIn(stack', pending', post', scheduled', flushing')
    <3>1. /\ Obliged(stack) => Obliged(stack')
          /\ Calls(stack, "flush") # {} => Calls(stack', "flush") # {}
      BY <1>1, <2>5, OwedPush
    <3>2. q = <<>> => pending' = <<>>
      BY <2>2, ForgetEmpty DEF DisposeBranch
    <3> QED
      BY <1>1, <1>3, <1>4, <2>3, <3>1, <3>2 DEF OwedIn
  <2>11. FramesIn(stack', async', prog.flush, c)
    BY <1>4, <2>5, <2>6
  <2>12. ToldIn(stack', prog.flush, c, post', heard', "watch" \in alive', prev')
    BY <1>4, <2>5, <2>7
  <2> QED
    BY <1>4, <2>9, <2>10, <2>11, <2>12, ChainNext
<1> QED
  BY <1>3, <1>5, <1>6 DEF RunBranch

LEMMA InitChain ==
  ASSUME Init
  PROVE  ChainInv
<1>1. /\ prog.flush = prog.flush /\ items \in Lists /\ async = FALSE /\ ~scheduled /\ flushing = FALSE
      /\ pending = <<>> /\ post = <<>> /\ alive = {"branch"} /\ dirty = {} /\ stack = <<>>
      /\ prev = None /\ heard = None
  BY DEF Init
<1>2. \A op : Calls(<<>>, op) = {}
  BY NoCalls
<1>3. DOMAIN <<>> = {}
  OBVIOUS
<1>4. FramesIn(<<>>, async, prog.flush, <<>>)
  BY <1>2, <1>3 DEF FramesIn, Takes
<1>5. ToldIn(<<>>, prog.flush, <<>>, <<>>, heard, FALSE, prev)
  BY <1>3, EmptyIsStack, NoneTold DEF ToldIn
<1>6. ToldIn(stack, prog.flush, <<>>, post, heard, "watch" \in alive, prev)
  BY <1>1, <1>5 DEF ToldIn
<1>7. MarkedIn(stack, prog.flush, Places(pending, "watch") # {}, "watch" \in alive,
               "watch" \in dirty, items, prev)
  BY <1>1, <1>2 DEF MarkedIn
<1>8. OwedIn(stack, pending, post, scheduled, flushing)
  BY <1>1 DEF OwedIn
<1> QED
  BY <1>1, <1>4, <1>6, <1>7, <1>8 DEF ChainInv

LEMMA NextChain ==
  ASSUME IInv, PInv, ChainInv, Habits = {}, [Next]_vars
  PROVE  ChainInv'
<1>1. CASE Create \/ FlushBranch
  BY <1>1, BranchChain
<1>2. CASE Mount \/ Event \/ Batch \/ Microtask
  BY <1>2, HostChain
<1>3. CASE HandlerDone \/ NotifyDone \/ CallbackDone \/ FlushDone \/ Place \/ InsertBranch
  BY <1>3, ReturnsChain
<1>4. CASE WriteItems \/ WriteShown
  BY <1>4, WritersChain
<1>5. CASE MakeList \/ FlushList
  BY <1>5, ListsChain
<1>6. CASE FlushSkip \/ FlushRow
  BY <1>6, EffectsChain
<1>7. CASE FlushTake
  BY <1>7, TakeChain
<1>8. CASE FlushCallback
  BY <1>8, CallbackChain
<1>9. CASE Unmount
  BY <1>9, UnmountChain
<1>10. CASE RunSync \/ MakeWatch \/ FlushWatch
  BY <1>10, WatchRunsOn, RunChain
<1>11. CASE UNCHANGED vars
  BY <1>11 DEF vars, queues, ChainInv
<1> QED
  BY <1>1, <1>2, <1>3, <1>4, <1>5, <1>6, <1>7, <1>8, <1>9, <1>10, <1>11 DEF Next

(* At rest, with nothing due, the callback has heard the items.            *)
Heard == stack = <<>> /\ ~scheduled /\ "watch" \in alive => heard = items

LEMMA AllHeard ==
  ASSUME ChainInv
  PROVE  Heard
<1> SUFFICES ASSUME stack = <<>>, ~scheduled, "watch" \in alive
             PROVE  heard = items
  BY DEF Heard
<1>1. \A op : Calls(<<>>, op) = {}
  BY NoCalls
<1>2. PICK c : /\ FramesIn(<<>>, async, prog.flush, c)
               /\ ToldIn(<<>>, prog.flush, c, post, heard, "watch" \in alive, prev)
  BY DEF ChainInv
<1>3. c = <<>>
  BY <1>2, FramesEmpty
<1>4. pending = <<>> /\ post = <<>>
  BY <1>1 DEF ChainInv, OwedIn, Obliged
<1>5. heard = prev
  <2>1. \A last : LastTold(<<>>, last) = last
    BY EmptyIsStack, NoneTold
  <2> QED
    BY <1>2, <1>3, <1>4, <2>1 DEF ToldIn
<1>6. Places(pending, "watch") = {}
  BY <1>4 DEF Places
<1>7. prev = items
  <2>1. MarkedIn(<<>>, prog.flush, FALSE, "watch" \in alive, "watch" \in dirty, items, prev)
    <3>1. Places(pending, "watch") # {} <=> FALSE
      BY <1>6
    <3>2. MarkedIn(<<>>, prog.flush, Places(pending, "watch") # {}, "watch" \in alive,
                   "watch" \in dirty, items, prev)
      BY DEF ChainInv
    <3> QED
      BY <3>1, <3>2
  <2> QED
    BY <1>1, <2>1 DEF MarkedIn
<1> QED
  BY <1>5, <1>7

(* Which steps call a callback.                                            *)
LEMMA TopOf ==
  ASSUME NEW s, IsStack(s), NEW f
  PROVE  Last(Append(s, f)) = f /\ Len(Append(s, f)) = Len(s) + 1
<1> DEFINE t == Append(s, f)
<1>1. t[Len(s) + 1] = f
  BY PushFrame
<1>2. Len(t) = Len(s) + 1
  BY AppendLength
<1> QED
  BY <1>1, <1>2 DEF Last

LEMMA KeepsCalls ==
  ASSUME IsStack(stack), stack' = stack \/ (stack # <<>> /\ stack' = Front(stack))
  PROVE  ~Begins
<1>1. CASE stack' = stack
  <2>1. Len(stack) \in Nat
    BY Lengths
  <2> QED
    BY <1>1, <2>1 DEF Begins
<1>2. CASE stack # <<>> /\ stack' = Front(stack)
  <2> DEFINE t == Front(stack)
             k == Len(stack)
             n == Len(t)
  <2>1. k \in Nat \ {0}
    BY <1>2, Lengths
  <2>2. IsStack(t) /\ k \notin DOMAIN t
    BY <1>2, PopFrame
  <2> HIDE DEF t
  <2>3. n \in Nat /\ k \notin 1 .. n
    BY <2>2, Lengths
  <2> HIDE DEF k, n
  <2>4. ~(n > k)
    BY <2>1, <2>3
  <2> QED
    BY <1>2, <2>4 DEF Begins, t, k, n
<1> QED
  BY <1>1, <1>2

LEMMA CallsOther ==
  ASSUME NEW s, IsStack(s), NEW f, f.op # "callback", stack' = Append(s, f)
  PROVE  ~Begins
  BY TopOf DEF Begins

LEMMA OthersCallNone ==
  ASSUME IInv, PInv,
         \/ Create \/ FlushBranch \/ Mount \/ Event \/ Batch \/ Microtask \/ Unmount
         \/ HandlerDone \/ NotifyDone \/ CallbackDone \/ FlushDone \/ Place \/ InsertBranch
         \/ WriteItems \/ WriteShown \/ MakeList \/ FlushList \/ FlushSkip \/ FlushRow \/ FlushTake
  PROVE  ~Begins
<1>1. IsStack(stack) /\ (stack # <<>> => IsStack(Front(stack)))
  BY Shape, PopFrame
<1>2. FlushFrame.op # "callback"
  BY DEF FlushFrame
<1>3. CASE Mount \/ Unmount \/ CallbackDone \/ FlushDone \/ Place \/ InsertBranch
           \/ FlushSkip \/ FlushRow
  <2>1. stack' = stack \/ (stack # <<>> /\ stack' = Front(stack))
    BY <1>3 DEF Mount, Unmount, CallbackDone, FlushDone, Place, InsertBranch, FlushSkip,
                FlushRow, Rest, In, Step
  <2> QED
    BY <1>1, <2>1, KeepsCalls
<1>4. CASE HandlerDone \/ NotifyDone
  <2>1. stack # <<>> /\ (stack' = Front(stack) \/ stack' = Append(Front(stack), FlushFrame))
    BY <1>4 DEF HandlerDone, NotifyDone, In, Rest, MaybeFlush, ScheduleOrFlush
  <2>2. CASE stack' = Front(stack)
    BY <1>1, <2>1, <2>2, KeepsCalls
  <2>3. CASE stack' = Append(Front(stack), FlushFrame)
    BY <1>1, <1>2, <2>1, <2>3, CallsOther
  <2> QED
    BY <2>1, <2>2, <2>3
<1>5. CASE Event \/ Microtask
  <2>1. PICK f : f.op # "callback" /\ stack' = <<f>>
    BY <1>5 DEF Event, Microtask, HandlerFrame, FlushFrame
  <2>2. stack' = Append(<<>>, f)
    BY <2>1
  <2> QED
    BY <2>1, <2>2, EmptyIsStack, CallsOther
<1>6. CASE Batch \/ WriteItems \/ WriteShown
  <2>1. PICK f : f.op # "callback" /\ stack' = Append(stack, f)
    BY <1>6 DEF Batch, WriteItems, WriteShown, Write, Show, HandlerFrame, NotifyFrame
  <2> QED
    BY <1>1, <2>1, CallsOther
<1>7. CASE FlushTake
  <2>1. PICK f : f.op # "callback" /\ stack' = Append(Front(stack), f)
    <3>1. stack' = Append(Front(stack), [FlushFrame EXCEPT !.cbs = post])
      BY <1>7 DEF FlushTake, Resume, Rest
    <3>2. [FlushFrame EXCEPT !.cbs = post].op # "callback"
      BY DEF FlushFrame
    <3> QED
      BY <3>1, <3>2
  <2>2. stack # <<>>
    BY <1>7 DEF FlushTake, In
  <2> QED
    BY <1>1, <2>1, <2>2, CallsOther
<1>8. CASE Create \/ FlushBranch
  <2>1. SameBranch(stack, pending) \/ stack' = stack \/ \E q : SwapBranch(stack, q)
    BY <1>8 DEF Create, AtRest, FlushBranch, RunBranch, SameBranch
  <2>2. CASE stack' = stack
    BY <1>1, <2>2, KeepsCalls
  <2>3. CASE \E q : SwapBranch(stack, q)
    <3>1. PICK f : f.op # "callback" /\ stack' = Append(stack, f)
      BY <2>3 DEF SwapBranch, BranchFrame
    <3> QED
      BY <1>1, <3>1, CallsOther
  <2> QED
    BY <2>1, <2>2, <2>3 DEF SameBranch
<1>9. CASE MakeList \/ FlushList
  <2>1. PICK s, q : IsStack(s) /\ Reconcile(s, q)
    <3>1. CASE MakeList
      <4> DEFINE g == BranchFrame("insert")
      <4>1. stack # <<>> /\ Reconcile(Append(Front(stack), g), pending)
        BY <3>1 DEF MakeList, Step, In, Resume, Rest
      <4> HIDE DEF g
      <4>2. IsStack(Append(Front(stack), g))
        BY <1>1, <4>1, PushFrame
      <4> QED
        BY <4>1, <4>2
    <3>2. CASE FlushList
      BY <1>1, <3>2 DEF FlushList
    <3> QED
      BY <1>9, <3>1, <3>2
  <2>2. PICK f : f.op # "callback" /\ ScheduleOrFlush(Append(s, f))
    BY <2>1 DEF Reconcile, ListFrame
  <2>3. stack' = Append(s, f) \/ stack' = Append(Append(s, f), FlushFrame)
    BY <2>2 DEF ScheduleOrFlush
  <2>4. IsStack(Append(s, f))
    BY <2>1, PushFrame
  <2>5. CASE stack' = Append(s, f)
    BY <2>1, <2>2, <2>5, CallsOther
  <2>6. CASE stack' = Append(Append(s, f), FlushFrame)
    BY <1>2, <2>4, <2>6, CallsOther
  <2> QED
    BY <2>3, <2>5, <2>6
<1> QED
  BY <1>3, <1>4, <1>5, <1>6, <1>7, <1>8, <1>9

(* The callback that a step calls is told what the one before heard.       *)
Continues ==
  Begins => LET told == Last(stack').told
            IN told.own /\ told.old # None => told.old = heard /\ told.new # told.old

LEMMA WatchContinues ==
  ASSUME IInv, PInv, ChainInv, RunSync \/ MakeWatch \/ FlushWatch
  PROVE  Continues
<1>1. PICK s : /\ Runs(s)
               /\ \/ s = stack
                  \/ stack # <<>> /\ \E f : s = Append(Front(stack), f) /\ f.op = Last(stack).op
  BY WatchRunsOn
<1>2. IsStack(stack) /\ IsStack(s) /\ FramesIn(s, async, prog.flush, <<>>) /\ Calm(s) /\ RunWatch(s)
  BY <1>1, Shape DEF Runs
<1>3. stack' = Append(s, OwnCall) => Linked(Told(items, prev), heard)
  BY <1>1, RunChain
<1>4. stack' = Append(s, OwnCall) \/ stack' = s \/ stack' = Append(s, FlushFrame)
  <2>1. \/ stack' = Append(s, OwnCall)
        \/ MaybeFlush(s)
        \/ stack' = s
    BY <1>2, WatchFrames
  <2> QED
    BY <2>1 DEF MaybeFlush, ScheduleOrFlush
<1>5. CASE stack' = Append(s, OwnCall)
  <2>1. Last(stack') = OwnCall
    BY <1>2, <1>5, TopOf
  <2>2. OwnCall.told = Told(items, prev) /\ Told(items, prev).own = TRUE
    BY DEF OwnCall, CallbackFrame, Told
  <2>3. Linked(Told(items, prev), heard)
    BY <1>3, <1>5
  <2> QED
    BY <2>1, <2>2, <2>3 DEF Continues, Linked
<1>6. CASE stack' = Append(s, FlushFrame)
  <2>1. Last(stack') = FlushFrame /\ FlushFrame.op # "callback"
    BY <1>2, <1>6, TopOf DEF FlushFrame
  <2> QED
    BY <2>1 DEF Continues, Begins
<1>7. CASE stack' = s
  <2>1. ~Begins
    <3>1. CASE s = stack
      <4>1. Len(stack) \in Nat
        BY <1>2, Lengths
      <4> QED
        BY <1>7, <3>1, <4>1 DEF Begins
    <3>2. CASE stack # <<>> /\ \E f : s = Append(Front(stack), f) /\ f.op = Last(stack).op
      <4>1. PICK f : s = Append(Front(stack), f) /\ f.op = Last(stack).op
        BY <3>2
      <4>2. Last(s) = f
        BY <1>2, <3>2, <4>1, TopOf, PopFrame
      <4>3. Last(stack).op # "callback"
        BY DEF RunSync, MakeWatch, FlushWatch, Step, Flushing, In, Top
      <4> QED
        BY <1>7, <4>1, <4>2, <4>3 DEF Begins
    <3> QED
      BY <1>1, <3>1, <3>2
  <2> QED
    BY <2>1 DEF Continues
<1> QED
  BY <1>4, <1>5, <1>6, <1>7

LEMMA StepContinues ==
  ASSUME IInv, PInv, ChainInv, [Next]_vars
  PROVE  Continues
<1>1. CASE RunSync \/ MakeWatch \/ FlushWatch
  BY <1>1, WatchContinues
<1>2. CASE FlushCallback
  <2> DEFINE told == Head(Last(stack).cbs)
             t    == Append(Front(stack), [FlushFrame EXCEPT !.cbs = Tail(Last(stack).cbs)])
             g    == CallbackFrame(told, "flush")
  <2>1. stack' = Append(t, g) /\ stack # <<>>
    BY <1>2 DEF FlushCallback, In, Top, Resume, Rest
  <2>2. told.own => Linked(told, heard)
    BY <1>2, CallbackChain
  <2>3. g.told = told
    BY DEF CallbackFrame
  <2>4. IsStack(t)
    BY <2>1, Shape, PopFrame, PushFrame
  <2> HIDE DEF t, g, told
  <2>5. Last(stack') = g
    BY <2>1, <2>4, TopOf
  <2> QED
    BY <2>2, <2>3, <2>5 DEF Continues, Linked
<1>3. ASSUME ~Begins
      PROVE  Continues
  BY <1>3 DEF Continues
<1>4. CASE UNCHANGED vars
  <2>1. stack' = stack /\ Len(stack) \in Nat
    BY <1>4, Shape, Lengths DEF vars
  <2> QED
    BY <1>3, <2>1 DEF Begins
<1>5. CASE \/ Create \/ FlushBranch \/ Mount \/ Event \/ Batch \/ Microtask \/ Unmount
           \/ HandlerDone \/ NotifyDone \/ CallbackDone \/ FlushDone \/ Place \/ InsertBranch
           \/ WriteItems \/ WriteShown \/ MakeList \/ FlushList \/ FlushSkip \/ FlushRow \/ FlushTake
  BY <1>3, <1>5, OthersCallNone
<1> QED
  BY <1>1, <1>2, <1>4, <1>5 DEF Next

(* For all lists and programs without the three habits, in every mode:     *)
(* each call of a watcher's callback is given as old value the new value   *)
(* of the call before it, and another new value; and when nothing is left  *)
(* to do the callback has heard the items.                                 *)
THEOREM CallbacksChain ==
  ASSUME Habits = {}
  PROVE  Spec => WatchChain
<1>1. Init => PInv /\ ChainInv
  BY InitShape, InitChain
<1>2. IInv /\ PInv /\ ChainInv /\ [Next]_vars => PInv' /\ ChainInv'
  BY NextShape, NextChain
<1>3. ChainInv => Heard
  BY AllHeard
<1>4. IInv /\ PInv /\ ChainInv /\ [Next]_vars /\ Heard' =>
        /\ Begins => LET told == Last(stack').told
                     IN told.own /\ told.old # None => told.old = heard /\ told.new # told.old
        /\ Quiet' /\ "watch" \in alive' => heard' = items'
  <2>1. Heard' /\ Quiet' /\ "watch" \in alive' => heard' = items'
    BY DEF Heard, Quiet
  <2> QED
    BY <2>1, StepContinues DEF Continues
<1> QED
  BY <1>1, <1>2, <1>3, <1>4, BookkeepingInvariant, PTL DEF Spec, WatchChain
=============================================================================
