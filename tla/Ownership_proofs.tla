-------------------------- MODULE Ownership_proofs --------------------------
(***************************************************************************)
(* Proofs about ownership: whatever the callbacks of a teardown create,    *)
(* register, stop or run again, the lists of children stay exact, children *)
(* go before the callbacks of their owner, and every callback is called    *)
(* once, in the right place.                                               *)
(*                                                                         *)
(* Shape says what a step does, seen from the teardowns on the stack.  The *)
(* inductive invariant is the conjunction of                               *)
(*   Tree           types, handles, lists of children, orphans,            *)
(*   GoingBelow     what a teardown has begun to dispose is on its way out *)
(*                  (with Closed: so is what such a node owns),            *)
(*   Distinct, Apart, Remembered, LateCallbacks                            *)
(*                  where the callbacks are that wait to be called,        *)
(*   Untaken, Awaited                                                      *)
(*                  what has become of those that a teardown has to call,  *)
(*   Acyclic, ScopesOwn                                                    *)
(*                  that owners are older, and what a scope has to call.   *)
(***************************************************************************)
EXTENDS OwnershipProperties, TLAPS

-----------------------------------------------------------------------------
(* Parts of the inductive invariant *)

(* The handles that have been issued, the callbacks registered so far, and *)
(* the nodes that are no scopes.                                           *)
Known == Alive \cup gone
Registered == {c \in Callbacks : home[c] # None}
NotRoots == {n \in Nodes : kind[n] # "root"}

(* A frame holds nothing that does not exist yet; a teardown takes the     *)
(* callbacks after the last child, and only an effect runs again.          *)
FrameIn(f, known, registered, notRoots) ==
  /\ f.node \in known /\ f.owner \in known \cup {None}
  /\ ToSet(f.children) \subseteq known /\ f.below \subseteq known
  /\ ToSet(f.cbs) \subseteq registered /\ f.due \subseteq registered
  /\ f.phase = "children" => f.cbs = <<>>
  /\ f.phase = "cleanups" => f.children = <<>>
  /\ f.next = "run" => f.node \in notRoots

FramesIn(s, known, registered, notRoots) ==
  \A i \in DOMAIN s : FrameIn(s[i], known, registered, notRoots)

(* So does everything else; and a node that is gone has nothing. *)
Handles ==
  /\ \A n \in Nodes \ Alive : owned[n] = <<>> /\ cleanups[n] = <<>>
  /\ \A n \in Alive : owner[n] \in Known \cup {None}
  /\ \A n \in Nodes : ToSet(cleanups[n]) \subseteq Registered
  /\ ran \subseteq Registered
  /\ FramesIn(stack, Known, Registered, NotRoots)

(* Going up from owner to owner ends. *)
Acyclic == \A T \in SUBSET Alive : T # {} => \E n \in T : owner[n] \notin T

(* What a scope on its way out owns, or is asked to call, came too late. *)
LateChildren ==
  \A i \in Teardowns : stack[i].next = "remove" => ToSet(owned[stack[i].node]) \subseteq late

LateCallbacks ==
  \A i \in Teardowns :
    stack[i].next = "remove" /\ stack[i].phase = "cleanups"
      => ToSet(cleanups[stack[i].node]) \subseteq late

(* What is on its way out takes with it what it owns, and whatever a       *)
(* teardown found below its node is on its way out until it is gone.       *)
Going == Doomed \cup Late
Closed ==
  \A m \in Alive :
    owner[m] # None /\ (owner[m] \notin Alive \/ owner[m] \in Going) => m \in Going
GoingBelow == \A i \in Teardowns : stack[i].below \cap Alive \subseteq Going

-----------------------------------------------------------------------------
(* Sequences *)

LEMMA PushIndex ==
  ASSUME NEW S, NEW s \in Seq(S), NEW f \in S
  PROVE  LET t == Append(s, f)
         IN /\ t \in Seq(S) /\ t # <<>> /\ Len(t) = Len(s) + 1 /\ Len(s) \in Nat
            /\ DOMAIN s = 1 .. Len(s) /\ DOMAIN t = 1 .. Len(s) + 1
            /\ t[Len(s) + 1] = f
            /\ \A i \in DOMAIN s : i \in DOMAIN t /\ i # Len(s) + 1 /\ t[i] = s[i]
            /\ \A i \in DOMAIN t : i \in DOMAIN s \/ i = Len(s) + 1
  OBVIOUS

LEMMA PopIndex ==
  ASSUME NEW S, NEW s \in Seq(S), s # <<>>
  PROVE  LET t == Front(s)
         IN /\ t \in Seq(S) /\ Len(t) = Len(s) - 1 /\ Len(s) \in Nat \ {0}
            /\ DOMAIN s = 1 .. Len(s) /\ DOMAIN t = 1 .. Len(s) - 1
            /\ Last(s) = s[Len(s)] /\ Last(s) \in S /\ Len(s) \in DOMAIN s
            /\ \A i \in DOMAIN t : i \in DOMAIN s /\ i # Len(s) /\ t[i] = s[i]
            /\ \A i \in DOMAIN s : i \in DOMAIN t \/ i = Len(s)
<1>1. Len(s) \in Nat \ {0} /\ DOMAIN s = 1 .. Len(s) /\ s[Len(s)] \in S
  OBVIOUS
<1>2. /\ Front(s) \in Seq(S) /\ Len(Front(s)) = Len(s) - 1
      /\ \A i \in 1 .. Len(s) - 1 : Front(s)[i] = s[i]
  BY <1>1 DEF Front
<1> QED
  BY <1>1, <1>2 DEF Last

LEMMA TopIndex ==
  ASSUME NEW S, NEW s \in Seq(S), s # <<>>, NEW f \in S
  PROVE  LET t == [s EXCEPT ![Len(s)] = f]
         IN /\ t \in Seq(S) /\ t # <<>> /\ Len(t) = Len(s) /\ DOMAIN t = DOMAIN s
            /\ Last(t) = f /\ t[Len(s)] = f /\ Len(s) \in DOMAIN s
            /\ \A i \in DOMAIN s : i # Len(s) => t[i] = s[i]
<1>1. Len(s) \in Nat \ {0} /\ DOMAIN s = 1 .. Len(s)
  OBVIOUS
<1> QED
  BY <1>1 DEF Last

LEMMA HeadTail ==
  ASSUME NEW S, NEW s \in Seq(S), s # <<>>
  PROVE  /\ Head(s) \in S /\ Tail(s) \in Seq(S) /\ ToSet(Tail(s)) \subseteq ToSet(s)
         /\ ToSet(s) = {Head(s)} \cup ToSet(Tail(s))
<1>1. /\ Len(s) \in Nat \ {0} /\ DOMAIN s = 1 .. Len(s) /\ Head(s) = s[1] /\ Head(s) \in S
      /\ Tail(s) \in Seq(S) /\ DOMAIN Tail(s) = 1 .. Len(s) - 1
      /\ \A i \in 1 .. Len(s) - 1 : Tail(s)[i] = s[i + 1]
  OBVIOUS
<1>2. ASSUME NEW i \in DOMAIN s
      PROVE  s[i] \in {Head(s)} \cup ToSet(Tail(s))
  <2>1. CASE i = 1
    BY <1>1, <2>1
  <2>2. CASE i # 1
    <3>1. i - 1 \in DOMAIN Tail(s) /\ Tail(s)[i - 1] = s[i]
      BY <1>1, <2>2
    <3> QED
      BY <3>1 DEF ToSet
  <2> QED
    BY <2>1, <2>2
<1>3. ASSUME NEW i \in DOMAIN Tail(s)
      PROVE  Tail(s)[i] \in ToSet(s)
  <2>1. i + 1 \in DOMAIN s /\ Tail(s)[i] = s[i + 1]
    BY <1>1
  <2> QED
    BY <2>1 DEF ToSet
<1>4. Head(s) \in ToSet(s)
  BY <1>1 DEF ToSet
<1>5. ToSet(s) \subseteq {Head(s)} \cup ToSet(Tail(s))
  BY <1>2 DEF ToSet
<1>6. ToSet(Tail(s)) \subseteq ToSet(s)
  BY <1>3 DEF ToSet
<1> QED
  BY <1>1, <1>4, <1>5, <1>6

LEMMA FrontLast ==
  ASSUME NEW S, NEW s \in Seq(S), s # <<>>
  PROVE  /\ Front(s) \in Seq(S) /\ Last(s) \in S
         /\ ToSet(s) = ToSet(Front(s)) \cup {Last(s)}
         /\ IsInjective(s) => IsInjective(Front(s)) /\ Last(s) \notin ToSet(Front(s))
<1> DEFINE t == Front(s)
<1>1. /\ t \in Seq(S) /\ Last(s) = s[Len(s)] /\ Last(s) \in S /\ Len(s) \in DOMAIN s
      /\ \A i \in DOMAIN t : i \in DOMAIN s /\ i # Len(s) /\ t[i] = s[i]
      /\ \A i \in DOMAIN s : i \in DOMAIN t \/ i = Len(s)
  BY PopIndex
<1> HIDE DEF t
<1>2. ToSet(s) = ToSet(t) \cup {Last(s)}
  BY <1>1 DEF ToSet
<1>3. IsInjective(s) => IsInjective(t) /\ Last(s) \notin ToSet(t)
  BY <1>1 DEF ToSet, IsInjective
<1> QED
  BY <1>1, <1>2, <1>3 DEF t

LEMMA AppendIs ==
  ASSUME NEW S, NEW s \in Seq(S), NEW e \in S
  PROVE  /\ Append(s, e) \in Seq(S) /\ ToSet(Append(s, e)) = ToSet(s) \cup {e}
         /\ IsInjective(s) /\ e \notin ToSet(s) => IsInjective(Append(s, e))
<1> DEFINE t == Append(s, e)
<1>1. /\ t \in Seq(S) /\ t[Len(s) + 1] = e /\ Len(s) + 1 \in DOMAIN t
      /\ \A i \in DOMAIN s : i \in DOMAIN t /\ i # Len(s) + 1 /\ t[i] = s[i]
      /\ \A i \in DOMAIN t : i \in DOMAIN s \/ i = Len(s) + 1
  OBVIOUS
<1> HIDE DEF t
<1>2. ToSet(t) = ToSet(s) \cup {e}
  BY <1>1 DEF ToSet
<1>3. IsInjective(s) /\ e \notin ToSet(s) => IsInjective(t)
  BY <1>1 DEF ToSet, IsInjective
<1> QED
  BY <1>1, <1>2, <1>3 DEF t

LEMMA ToSetType ==
  ASSUME NEW S, NEW s \in Seq(S)
  PROVE  ToSet(s) \subseteq S /\ (s = <<>> <=> ToSet(s) = {})
<1>1. DOMAIN s = 1 .. Len(s) /\ Len(s) \in Nat /\ \A i \in DOMAIN s : s[i] \in S
  OBVIOUS
<1>2. s = <<>> <=> DOMAIN s = {}
  BY <1>1
<1> QED
  BY <1>1, <1>2 DEF ToSet

LEMMA SeqOfSet ==
  ASSUME NEW S, NEW s \in Seq(S), NEW T, ToSet(s) \subseteq T
  PROVE  s \in Seq(T)
<1>1. \A i \in 1 .. Len(s) : s[i] \in T
  BY DEF ToSet
<1> QED
  BY <1>1

LEMMA ConcatIs ==
  ASSUME NEW S, NEW a \in Seq(S), NEW b \in Seq(S)
  PROVE  /\ a \o b \in Seq(S) /\ Len(a \o b) = Len(a) + Len(b)
         /\ \A i \in 1 .. Len(a) + Len(b) : (a \o b)[i] = IF i <= Len(a) THEN a[i] ELSE b[i - Len(a)]
OBVIOUS

LEMMA RemoveAtIs ==
  ASSUME NEW S, NEW s \in Seq(S), NEW k \in DOMAIN s
  PROVE  LET t == RemoveAt(s, k)
         IN /\ t \in Seq(S) /\ DOMAIN t = 1 .. Len(s) - 1
            /\ \A i \in DOMAIN t : t[i] = IF i < k THEN s[i] ELSE s[i + 1]
<1> DEFINE a == SubSeq(s, 1, k - 1)
           b == SubSeq(s, k + 1, Len(s))
<1>1. Len(s) \in Nat /\ k \in 1 .. Len(s)
  OBVIOUS
<1>2. a \in Seq(S) /\ Len(a) = k - 1 /\ \A i \in 1 .. k - 1 : a[i] = s[i]
  BY <1>1
<1>3. b \in Seq(S) /\ Len(b) = Len(s) - k /\ \A i \in 1 .. Len(s) - k : b[i] = s[i + k]
  BY <1>1
<1>4. RemoveAt(s, k) = a \o b
  BY DEF RemoveAt
<1> HIDE DEF a, b
<1>5. /\ a \o b \in Seq(S) /\ Len(a \o b) = Len(s) - 1
      /\ \A i \in 1 .. Len(s) - 1 : (a \o b)[i] = IF i <= k - 1 THEN a[i] ELSE b[i - (k - 1)]
  <2>1. Len(a) + Len(b) = Len(s) - 1
    BY <1>1, <1>2, <1>3
  <2>2. /\ a \o b \in Seq(S) /\ Len(a \o b) = Len(a) + Len(b)
        /\ \A i \in 1 .. Len(a) + Len(b) : (a \o b)[i] = IF i <= Len(a) THEN a[i] ELSE b[i - Len(a)]
    BY <1>2, <1>3, ConcatIs
  <2>3. Len(a) = k - 1
    BY <1>2
  <2>4. \A i \in 1 .. Len(s) - 1 : (a \o b)[i] = IF i <= Len(a) THEN a[i] ELSE b[i - Len(a)]
    BY <2>1, <2>2
  <2> QED
    BY <2>1, <2>2, <2>3, <2>4
<1>6. \A i \in 1 .. Len(s) - 1 : (a \o b)[i] = IF i < k THEN s[i] ELSE s[i + 1]
  <2> SUFFICES ASSUME NEW i \in 1 .. Len(s) - 1
               PROVE  (a \o b)[i] = IF i < k THEN s[i] ELSE s[i + 1]
    OBVIOUS
  <2>1. CASE i < k
    BY <1>1, <1>2, <1>5, <2>1
  <2>2. CASE ~(i < k)
    <3>1. i - (k - 1) \in 1 .. Len(s) - k /\ i - (k - 1) + k = i + 1
      BY <1>1, <2>2
    <3>2. (a \o b)[i] = b[i - (k - 1)]
      BY <1>1, <1>5, <2>2
    <3> QED
      BY <1>3, <2>2, <3>1, <3>2
  <2> QED
    BY <2>1, <2>2
<1>7. DOMAIN (a \o b) = 1 .. Len(s) - 1
  BY <1>1, <1>5
<1> QED
  BY <1>4, <1>5, <1>6, <1>7

(* From a list that names an element once, it goes without a trace. *)
LEMMA RemoveFirstIs ==
  ASSUME NEW S, NEW s \in Seq(S), IsInjective(s), NEW e
  PROVE  LET t == RemoveFirst(s, e)
         IN t \in Seq(S) /\ ToSet(t) = ToSet(s) \ {e} /\ IsInjective(t)
<1>1. CASE e \notin ToSet(s)
  <2>1. RemoveFirst(s, e) = s
    BY <1>1 DEF RemoveFirst, ToSet
  <2> QED
    BY <1>1, <2>1
<1>2. CASE e \in ToSet(s)
  <2> DEFINE t == RemoveFirst(s, e)
  <2>1. PICK k \in DOMAIN s : s[k] = e
    BY <1>2 DEF ToSet
  <2>2. Len(s) \in Nat /\ DOMAIN s = 1 .. Len(s)
    OBVIOUS
  <2>3. t = RemoveAt(s, k)
    <3> DEFINE I == {i \in 1 .. Len(s) : s[i] = e}
    <3>1. I = {k} /\ k \in Nat
      BY <2>1, <2>2 DEF IsInjective
    <3>2. Min(I) = k
      BY <3>1 DEF Min
    <3>3. t = RemoveAt(s, IF I # {} THEN Min(I) ELSE 0)
      BY <2>1, <2>2 DEF RemoveFirst, SelectInSeq
    <3> QED
      BY <3>1, <3>2, <3>3
  <2>4. t \in Seq(S) /\ DOMAIN t = 1 .. Len(s) - 1
        /\ \A i \in DOMAIN t : t[i] = IF i < k THEN s[i] ELSE s[i + 1]
    BY <2>3, RemoveAtIs
  <2> HIDE DEF t
  <2>5. ASSUME NEW i \in DOMAIN t
        PROVE  \E j \in DOMAIN s : j = (IF i < k THEN i ELSE i + 1) /\ t[i] = s[j] /\ j # k
    BY <2>2, <2>4
  <2>6. ASSUME NEW j \in DOMAIN s, j # k
        PROVE  \E i \in DOMAIN t : t[i] = s[j]
    <3>1. CASE j < k
      BY <2>2, <2>4, <3>1
    <3>2. CASE j > k
      <4>1. j - 1 \in DOMAIN t /\ ~(j - 1 < k) /\ (j - 1) + 1 = j
        BY <2>2, <2>4, <3>2
      <4> QED
        BY <2>4, <4>1
    <3> QED
      BY <2>2, <2>6, <3>1, <3>2
  <2>7. ToSet(t) \subseteq ToSet(s) \ {e}
    BY <2>1, <2>5 DEF ToSet, IsInjective
  <2>8. ToSet(s) \ {e} \subseteq ToSet(t)
    BY <2>1, <2>6 DEF ToSet
  <2>9. ASSUME NEW a \in DOMAIN t, NEW b \in DOMAIN t, t[a] = t[b]
        PROVE  a = b
    <3>1. (IF a < k THEN a ELSE a + 1) = (IF b < k THEN b ELSE b + 1)
      BY <2>5, <2>9 DEF IsInjective
    <3> QED
      BY <2>2, <2>4, <3>1
  <2> QED
    BY <2>4, <2>7, <2>8, <2>9 DEF IsInjective, t
<1> QED
  BY <1>1, <1>2

-----------------------------------------------------------------------------
(* Frames *)

Plain == {"scope", "body", "cleanup"}
Nexts == {"remove", "run"}

(* What is registered with n and below it. *)
DueOf(n) == UNION {ToSet(cleanups[m]) : m \in Below(n) \cup {n}}

TeardownOf(n, next) ==
  [Call("teardown", n, Owner) EXCEPT !.children = owned[n], !.next = next,
                                     !.below = Below(n), !.due = DueOf(n)]

LEMMA CallIs ==
  ASSUME NEW op \in Plain, NEW n \in Nodes, NEW o \in Nodes \cup {None}
  PROVE  /\ Call(op, n, o) \in Frame
         /\ Call(op, n, o).op = op /\ Call(op, n, o).node = n /\ Call(op, n, o).owner = o
         /\ Call(op, n, o).children = <<>> /\ Call(op, n, o).phase = "children"
         /\ Call(op, n, o).cbs = <<>> /\ Call(op, n, o).next = "remove"
         /\ Call(op, n, o).below = {} /\ Call(op, n, o).due = {}
<1>1. <<>> \in Seq(Nodes) /\ <<>> \in Seq(Callbacks)
  OBVIOUS
<1> QED
  BY <1>1 DEF Call, Frame, Plain

LEMMA TeardownIs ==
  ASSUME NEW s, NEW n, NEW next
  PROVE  Teardown(s, n, next) = Append(s, TeardownOf(n, next))
BY DEF Teardown, TeardownOf, DueOf

LEMMA TeardownFields ==
  ASSUME NEW n, NEW next
  PROVE  LET f == TeardownOf(n, next)
         IN /\ f.op = "teardown" /\ f.node = n /\ f.owner = Owner /\ f.children = owned[n]
            /\ f.phase = "children" /\ f.cbs = <<>> /\ f.next = next /\ f.below = Below(n)
            /\ f.due = DueOf(n)
BY DEF TeardownOf, Call

LEMMA BelowAlive == ASSUME NEW n PROVE Below(n) \subseteq Alive /\ Alive \subseteq Nodes
BY DEF Below, Alive

LEMMA DueType ==
  ASSUME TypeOK, NEW n \in Nodes
  PROVE  DueOf(n) \subseteq Callbacks
<1>1. \A m \in Below(n) \cup {n} : m \in Nodes
  BY BelowAlive
<1>2. \A m \in Nodes : ToSet(cleanups[m]) \subseteq Callbacks
  BY ToSetType DEF TypeOK
<1> QED
  BY <1>1, <1>2 DEF DueOf

LEMMA OwnerType == ASSUME TypeOK PROVE Owner \in Nodes \cup {None}
<1>1. CASE stack = <<>>
  BY <1>1 DEF Owner
<1>2. CASE stack # <<>>
  <2>1. Top \in Frame
    BY <1>2, PopIndex DEF TypeOK, Top
  <2> QED
    BY <1>2, <2>1 DEF Owner, Frame
<1> QED
  BY <1>1, <1>2

LEMMA TeardownType ==
  ASSUME TypeOK, NEW n \in Alive, NEW next \in Nexts
  PROVE  TeardownOf(n, next) \in Frame
<1>1. n \in Nodes /\ Below(n) \in SUBSET Nodes /\ DueOf(n) \in SUBSET Callbacks
  BY BelowAlive, DueType
<1>2. Owner \in Nodes \cup {None}
  BY OwnerType
<1>3. owned[n] \in Seq(Nodes) /\ <<>> \in Seq(Callbacks)
  <2>1. owned[n] \in Seq(Alive)
    BY <1>1 DEF TypeOK
  <2>2. ToSet(owned[n]) \subseteq Nodes
    BY <2>1, ToSetType DEF Alive
  <2> QED
    BY <2>1, <2>2, SeqOfSet
<1>4. next \in {"remove", "run"}
  BY DEF Nexts
<1>5. Call("teardown", n, Owner) \in Frame
  BY <1>1, <1>2, <1>3 DEF Call, Frame
<1>6. \A f \in Frame : [f EXCEPT !.children = owned[n], !.next = next, !.below = Below(n),
                                 !.due = DueOf(n)] \in Frame
  BY <1>1, <1>3, <1>4 DEF Frame
<1> QED
  BY <1>5, <1>6 DEF TeardownOf

(* The frames that a step changes in place. *)
Dropped(f) == [f EXCEPT !.children = Tail(f.children)]
Taking(f) == [f EXCEPT !.phase = "cleanups", !.cbs = cleanups[f.node]]
Calling(f) == [f EXCEPT !.cbs = Front(f.cbs)]

LEMMA DroppedIs ==
  ASSUME NEW f \in Frame, f.children # <<>>
  PROVE  /\ Dropped(f) \in Frame /\ Dropped(f).children = Tail(f.children)
         /\ Dropped(f).op = f.op /\ Dropped(f).node = f.node /\ Dropped(f).owner = f.owner
         /\ Dropped(f).phase = f.phase /\ Dropped(f).cbs = f.cbs /\ Dropped(f).next = f.next
         /\ Dropped(f).below = f.below /\ Dropped(f).due = f.due
<1>1. f.children \in Seq(Nodes)
  BY DEF Frame
<1>2. Tail(f.children) \in Seq(Nodes)
  BY <1>1, HeadTail
<1> QED
  BY <1>2 DEF Dropped, Frame

LEMMA TakingIs ==
  ASSUME TypeOK, NEW f \in Frame
  PROVE  /\ Taking(f) \in Frame /\ Taking(f).phase = "cleanups" /\ Taking(f).cbs = cleanups[f.node]
         /\ Taking(f).op = f.op /\ Taking(f).node = f.node /\ Taking(f).owner = f.owner
         /\ Taking(f).children = f.children /\ Taking(f).next = f.next
         /\ Taking(f).below = f.below /\ Taking(f).due = f.due
<1>1. cleanups[f.node] \in Seq(Callbacks)
  BY DEF Frame, TypeOK
<1> QED
  BY <1>1 DEF Taking, Frame

LEMMA CallingIs ==
  ASSUME NEW f \in Frame, f.cbs # <<>>
  PROVE  /\ Calling(f) \in Frame /\ Calling(f).cbs = Front(f.cbs)
         /\ Calling(f).op = f.op /\ Calling(f).node = f.node /\ Calling(f).owner = f.owner
         /\ Calling(f).children = f.children /\ Calling(f).next = f.next
         /\ Calling(f).phase = f.phase /\ Calling(f).below = f.below /\ Calling(f).due = f.due
<1>1. f.cbs \in Seq(Callbacks)
  BY DEF Frame
<1>2. Front(f.cbs) \in Seq(Callbacks)
  BY <1>1, FrontLast
<1> QED
  BY <1>2 DEF Calling, Frame

-----------------------------------------------------------------------------
(* What a step does to the stack.  Only teardowns matter to the            *)
(* invariants; the other frames say who owns what is created.              *)

LEMMA DisposeStack ==
  ASSUME TypeOK, DisposeChild
  PROVE  /\ stack # <<>> /\ Top \in Frame /\ Top.op = "teardown" /\ Top.phase = "children"
         /\ Top.children # <<>> /\ Head(Top.children) \in Nodes
         /\ LET r == [stack EXCEPT ![Len(stack)] = Dropped(Top)]
            IN stack' = IF Head(Top.children) \in Alive
                        THEN Append(r, TeardownOf(Head(Top.children), "remove")) ELSE r
<1>1. stack # <<>> /\ Top.op = "teardown" /\ Top.phase = "children" /\ Top.children # <<>>
  BY DEF DisposeChild, In
<1>2. stack \in Seq(Frame) /\ Top = stack[Len(stack)] /\ Top \in Frame /\ Len(stack) \in DOMAIN stack
  BY <1>1, PopIndex DEF TypeOK, Top
<1>3. Head(Top.children) \in Nodes
  BY <1>1, <1>2 DEF Frame
<1>4. [stack EXCEPT ![Len(stack)].children = Tail(@)] = [stack EXCEPT ![Len(stack)] = Dropped(Top)]
  BY <1>2 DEF Dropped
<1>5. Teardown([stack EXCEPT ![Len(stack)].children = Tail(@)], Head(Top.children), "remove")
        = Append([stack EXCEPT ![Len(stack)] = Dropped(Top)], TeardownOf(Head(Top.children), "remove"))
  BY <1>4, TeardownIs
<1> QED
  BY <1>1, <1>2, <1>3, <1>4, <1>5 DEF DisposeChild

LEMMA TakeStack ==
  ASSUME TypeOK, TakeCleanups
  PROVE  /\ stack # <<>> /\ Top \in Frame /\ Top.op = "teardown" /\ Top.phase = "children"
         /\ Top.children = <<>>
         /\ stack' = [stack EXCEPT ![Len(stack)] = Taking(Top)]
<1>1. stack # <<>> /\ Top.op = "teardown" /\ Top.phase = "children" /\ Top.children = <<>>
  BY DEF TakeCleanups, In
<1>2. stack \in Seq(Frame) /\ Top = stack[Len(stack)] /\ Top \in Frame /\ Len(stack) \in DOMAIN stack
  BY <1>1, PopIndex DEF TypeOK, Top
<1>3. stack' = [stack EXCEPT ![Len(stack)].phase = "cleanups",
                             ![Len(stack)].cbs = cleanups[Top.node]]
  BY DEF TakeCleanups
<1>4. stack' = [stack EXCEPT ![Len(stack)] = Taking(Top)]
  BY <1>2, <1>3 DEF Taking
<1> QED
  BY <1>1, <1>2, <1>4

LEMMA CleanupStack ==
  ASSUME TypeOK, RunCleanup
  PROVE  /\ stack # <<>> /\ Top \in Frame /\ Top.op = "teardown" /\ Top.phase = "cleanups"
         /\ Top.cbs # <<>>
         /\ stack' = Append([stack EXCEPT ![Len(stack)] = Calling(Top)],
                            Call("cleanup", Top.node, Owner))
<1>1. stack # <<>> /\ Top.op = "teardown" /\ Top.phase = "cleanups" /\ Top.cbs # <<>>
  BY DEF RunCleanup, In
<1>2. stack \in Seq(Frame) /\ Top = stack[Len(stack)] /\ Top \in Frame /\ Len(stack) \in DOMAIN stack
  BY <1>1, PopIndex DEF TypeOK, Top
<1>3. stack' = Append([stack EXCEPT ![Len(stack)].cbs = Earlier(@)], Call("cleanup", Top.node, Owner))
  BY DEF RunCleanup
<1>4. [stack EXCEPT ![Len(stack)].cbs = Earlier(@)] = [stack EXCEPT ![Len(stack)] = Calling(Top)]
  BY <1>2 DEF Calling, Earlier
<1> QED
  BY <1>1, <1>2, <1>3, <1>4

LEMMA FinishedStack ==
  ASSUME TypeOK, NEW next, Finished(next)
  PROVE  /\ stack # <<>> /\ Top \in Frame /\ Top.op = "teardown" /\ Top.phase = "cleanups"
         /\ Top.cbs = <<>> /\ Top.next = next /\ Top.node \in Nodes
<1>1. stack # <<>> /\ Top.op = "teardown" /\ Top.phase = "cleanups" /\ Top.cbs = <<>> /\ Top.next = next
  BY DEF Finished, In
<1>2. Top \in Frame
  BY <1>1, PopIndex DEF TypeOK, Top
<1> QED
  BY <1>1, <1>2 DEF Frame

(* The steps, seen from the teardowns. *)
Same == Teardowns' = Teardowns /\ \A i \in Teardowns : stack'[i] = stack[i]

Others(t) == \A i \in Teardowns \ {t} : stack'[i] = stack[i]

Innermost(t) == t \in Teardowns /\ \A i \in Teardowns : i <= t

Drops(f, g, n) ==
  f.phase = "children" /\ f.children # <<>> /\ Head(f.children) = n /\ g = Dropped(f)

Idles == UNCHANGED <<tree, history>> /\ Same

Makes(n, k, o) == NewNode(n, k, o) /\ Same

Registers(c, n) ==
  /\ Register(c, n) /\ Same
  /\ atEnd' = atEnd \/ (n = NearestScope /\ atEnd' = atEnd \cup {c})

Begins(n, next) ==
  /\ TakeChildren(n) /\ UNCHANGED <<kind, owner, cleanups, gone, history>>
  /\ next = "run" => kind[n] # "root"
  /\ \E t \in Nat : /\ Teardowns' = Teardowns \cup {t} /\ \A i \in Teardowns : i < t
                    /\ stack'[t] = TeardownOf(n, next)
  /\ \A i \in Teardowns :
       stack'[i] = stack[i] \/ (next = "remove" /\ Drops(stack[i], stack'[i], n))

Skips(n) ==
  /\ n \notin Alive /\ UNCHANGED <<tree, history>> /\ Teardowns' = Teardowns
  /\ \A i \in Teardowns : stack'[i] = stack[i] \/ Drops(stack[i], stack'[i], n)

Takes(t) ==
  /\ Innermost(t) /\ stack[t].phase = "children" /\ stack[t].children = <<>>
  /\ Teardowns' = Teardowns /\ Others(t) /\ stack'[t] = Taking(stack[t])
  /\ CleanupsTaken(stack[t].node) /\ UNCHANGED <<kind, owner, owned, gone, history>>

CallsBack(t) ==
  /\ Innermost(t) /\ stack[t].phase = "cleanups" /\ stack[t].cbs # <<>>
  /\ Teardowns' = Teardowns /\ Others(t) /\ stack'[t] = Calling(stack[t])
  /\ ran' = ran \cup {Last(stack[t].cbs)} /\ UNCHANGED <<tree, home, atEnd, late>>

Removes(n) ==
  /\ LeavesOwner(n) /\ kind' = [kind EXCEPT ![n] = None] /\ owner' = [owner EXCEPT ![n] = None]
  /\ cleanups' = [cleanups EXCEPT ![n] = <<>>] /\ gone' = gone \cup {n}

Ends(t) ==
  /\ Innermost(t) /\ stack[t].phase = "cleanups" /\ stack[t].cbs = <<>>
  /\ Teardowns' = Teardowns \ {t} /\ Others(t) /\ UNCHANGED history
  /\ \/ UNCHANGED tree /\ (stack[t].next = "run" \/ stack[t].node \notin Alive)
     \/ stack[t].next = "remove" /\ stack[t].node \in Alive /\ Removes(stack[t].node)

Shape ==
  \/ Idles
  \/ \E n \in Nodes, k \in Kinds, o \in {None, Owner} : Makes(n, k, o)
  \/ \E c \in Callbacks, n \in Alive : Registers(c, n)
  \/ \E n \in Alive, next \in Nexts : Begins(n, next)
  \/ \E n \in Nodes : Skips(n)
  \/ \E t \in Teardowns : Takes(t) \/ CallsBack(t) \/ Ends(t)

LEMMA PlainPush ==
  ASSUME TypeOK, NEW op \in Plain, NEW n \in Nodes, NEW o \in Nodes \cup {None},
         stack' = Append(stack, Call(op, n, o))
  PROVE  Same
<1> DEFINE f == Call(op, n, o)
           t == Append(stack, f)
<1>1. f \in Frame /\ f.op # "teardown"
  BY CallIs DEF Plain
<1>2. stack \in Seq(Frame)
  BY DEF TypeOK
<1> HIDE DEF f
<1>3. /\ t[Len(stack) + 1] = f
      /\ \A i \in DOMAIN stack : i \in DOMAIN t /\ i # Len(stack) + 1 /\ t[i] = stack[i]
      /\ \A i \in DOMAIN t : i \in DOMAIN stack \/ i = Len(stack) + 1
  BY <1>1, <1>2, PushIndex
<1>4. stack' = t
  BY DEF f
<1> QED
  BY <1>1, <1>3, <1>4 DEF Same, Teardowns

LEMMA PlainPop ==
  ASSUME TypeOK, stack # <<>>, Top.op # "teardown", stack' = Front(stack)
  PROVE  Same
<1> DEFINE t == Front(stack)
<1>1. /\ Top = stack[Len(stack)] /\ \A i \in DOMAIN t : i \in DOMAIN stack /\ t[i] = stack[i]
      /\ \A i \in DOMAIN stack : i \in DOMAIN t \/ i = Len(stack)
  BY PopIndex DEF TypeOK, Top
<1> QED
  BY <1>1 DEF Same, Teardowns

LEMMA TopTeardown ==
  ASSUME TypeOK, stack # <<>>, Top.op = "teardown"
  PROVE  /\ Innermost(Len(stack)) /\ stack[Len(stack)] = Top /\ Len(stack) \in Nat
         /\ Teardowns \subseteq Nat
<1>1. /\ Top = stack[Len(stack)] /\ Len(stack) \in DOMAIN stack /\ DOMAIN stack = 1 .. Len(stack)
      /\ Len(stack) \in Nat
  BY PopIndex DEF TypeOK, Top
<1> QED
  BY <1>1 DEF Innermost, Teardowns

(* The innermost teardown is changed in place. *)
LEMMA ReplaceTop ==
  ASSUME TypeOK, stack # <<>>, Top.op = "teardown", NEW f \in Frame, f.op = "teardown"
  PROVE  LET t == [stack EXCEPT ![Len(stack)] = f]
         IN /\ t \in Seq(Frame) /\ Len(t) = Len(stack)
            /\ {i \in DOMAIN t : t[i].op = "teardown"} = Teardowns
            /\ t[Len(stack)] = f /\ \A i \in Teardowns \ {Len(stack)} : t[i] = stack[i]
<1> DEFINE t == [stack EXCEPT ![Len(stack)] = f]
<1>1. /\ t \in Seq(Frame) /\ Len(t) = Len(stack) /\ DOMAIN t = DOMAIN stack
      /\ t[Len(stack)] = f /\ Len(stack) \in DOMAIN stack
      /\ \A i \in DOMAIN stack : i # Len(stack) => t[i] = stack[i]
  BY TopIndex DEF TypeOK
<1>2. stack[Len(stack)] = Top
  BY TopTeardown
<1> HIDE DEF t
<1>3. {i \in DOMAIN t : t[i].op = "teardown"} = Teardowns
  BY <1>1, <1>2 DEF Teardowns
<1>4. \A i \in Teardowns \ {Len(stack)} : t[i] = stack[i]
  BY <1>1 DEF Teardowns
<1> QED
  BY <1>1, <1>3, <1>4 DEF t

(* A frame is pushed on a stack with the same teardowns. *)
LEMMA PushOn ==
  ASSUME NEW s \in Seq(Frame), NEW f \in Frame
  PROVE  LET t == Append(s, f)
             Of(u) == {i \in DOMAIN u : u[i].op = "teardown"}
         IN /\ t \in Seq(Frame)
            /\ Of(t) = Of(s) \cup (IF f.op = "teardown" THEN {Len(s) + 1} ELSE {})
            /\ t[Len(s) + 1] = f /\ \A i \in Of(s) : t[i] = s[i] /\ i < Len(s) + 1
            /\ Len(s) \in Nat
<1> DEFINE t == Append(s, f)
<1>1. /\ t \in Seq(Frame) /\ Len(s) \in Nat /\ DOMAIN t = 1 .. Len(s) + 1
      /\ t[Len(s) + 1] = f /\ DOMAIN s = 1 .. Len(s)
      /\ \A i \in DOMAIN s : i \in DOMAIN t /\ i # Len(s) + 1 /\ t[i] = s[i]
      /\ \A i \in DOMAIN t : i \in DOMAIN s \/ i = Len(s) + 1
  BY PushIndex
<1> HIDE DEF t
<1>2. Len(s) + 1 \in DOMAIN t /\ \A i \in DOMAIN s : i < Len(s) + 1
  BY <1>1
<1> QED
  BY <1>1, <1>2 DEF t

LEMMA MakesShape ==
  ASSUME TypeOK, NewScope \/ NewEffect
  PROVE  \E n \in Nodes, k \in Kinds, o \in {None, Owner} : Makes(n, k, o)
<1>1. CASE NewScope
  <2>1. PICK n \in Nodes, detached \in BOOLEAN :
          /\ NewNode(n, "root", IF detached THEN None ELSE Owner)
          /\ stack' \in {stack, Enter("scope", n)}
    BY <1>1 DEF NewScope
  <2>2. Same
    <3>1. CASE stack' = stack
      BY <3>1 DEF Same, Teardowns
    <3>2. CASE stack' = Append(stack, Call("scope", n, n))
      BY <3>2, PlainPush DEF Plain
    <3> QED
      BY <2>1, <3>1, <3>2 DEF Enter
  <2>3. CASE detached
    BY <2>1, <2>2, <2>3 DEF Makes, Kinds
  <2>4. CASE ~detached
    BY <2>1, <2>2, <2>4 DEF Makes, Kinds
  <2> QED
    BY <2>3, <2>4
<1>2. CASE NewEffect
  <2>1. PICK n \in Nodes : NewNode(n, "effect", Owner) /\ stack' = Append(stack, Call("body", n, n))
    BY <1>2 DEF NewEffect, Enter
  <2>2. Same
    BY <2>1, PlainPush DEF Plain
  <2> QED
    BY <2>1, <2>2 DEF Makes, Kinds
<1> QED
  BY <1>1, <1>2

LEMMA RegistersShape ==
  ASSUME TypeOK, OnCleanup \/ OnScopeDispose
  PROVE  \E c \in Callbacks, n \in Alive : Registers(c, n)
<1>1. CASE OnCleanup
  <2>1. PICK c \in Callbacks : Register(c, Owner) /\ atEnd' = atEnd
    BY <1>1 DEF OnCleanup
  <2>2. Owner \in Alive /\ stack' = stack
    BY <2>1 DEF Register
  <2>3. Registers(c, Owner)
    BY <2>1, <2>2 DEF Registers, Same, Teardowns
  <2> QED
    BY <2>2, <2>3
<1>2. CASE OnScopeDispose
  <2>1. PICK c \in Callbacks : Register(c, NearestScope) /\ atEnd' = atEnd \cup {c}
    BY <1>2 DEF OnScopeDispose
  <2>2. NearestScope \in Alive /\ stack' = stack
    BY <2>1 DEF Register
  <2>3. Registers(c, NearestScope)
    BY <2>1, <2>2 DEF Registers, Same, Teardowns
  <2> QED
    BY <2>2, <2>3
<1> QED
  BY <1>1, <1>2

LEMMA IdlesShape ==
  ASSUME TypeOK, RunScope \/ Return \/ UNCHANGED vars
  PROVE  Idles
<1>1. CASE RunScope
  <2>1. PICK n \in Alive : stack' = Append(stack, Call("scope", n, n))
    BY <1>1 DEF RunScope, Enter
  <2>2. Same
    BY <2>1, PlainPush, BelowAlive DEF Plain
  <2> QED
    BY <1>1, <2>2 DEF RunScope, Idles
<1>2. CASE Return
  BY <1>2, PlainPop DEF Return, UserCode, Idles
<1>3. CASE UNCHANGED vars
  BY <1>3 DEF vars, Idles, Same, Teardowns
<1> QED
  BY <1>1, <1>2, <1>3

LEMMA BeginsShape ==
  ASSUME TypeOK, NEW n \in Alive, NEW next \in Nexts, next = "run" => kind[n] # "root",
         TakeChildren(n), UNCHANGED <<kind, owner, cleanups, gone, history>>,
         NEW s \in Seq(Frame), stack' = Append(s, TeardownOf(n, next)),
         {i \in DOMAIN s : s[i].op = "teardown"} = Teardowns,
         \A i \in Teardowns : s[i] = stack[i] \/ (next = "remove" /\ Drops(stack[i], s[i], n))
  PROVE  Begins(n, next)
<1> DEFINE f == TeardownOf(n, next)
           t == Len(s) + 1
<1>1. f \in Frame /\ f.op = "teardown"
  BY TeardownType, TeardownFields
<1> HIDE DEF f
<1>2. /\ Teardowns' = Teardowns \cup {t} /\ stack'[t] = f /\ t \in Nat
      /\ \A i \in Teardowns : stack'[i] = s[i] /\ i < t
  BY <1>1, PushOn DEF Teardowns, f
<1>3. \E u \in Nat : /\ Teardowns' = Teardowns \cup {u} /\ \A i \in Teardowns : i < u
                     /\ stack'[u] = TeardownOf(n, next)
  BY <1>2 DEF f
<1>4. \A i \in Teardowns :
        stack'[i] = stack[i] \/ (next = "remove" /\ Drops(stack[i], stack'[i], n))
  BY <1>2
<1> QED
  BY <1>3, <1>4 DEF Begins

LEMMA CallShape ==
  ASSUME TypeOK, Stop \/ Rerun
  PROVE  \E n \in Alive, next \in Nexts : Begins(n, next)
<1>1. stack \in Seq(Frame) /\ {i \in DOMAIN stack : stack[i].op = "teardown"} = Teardowns
  BY DEF TypeOK, Teardowns
<1>2. CASE Stop
  <2>1. PICK n \in Alive : stack' = Append(stack, TeardownOf(n, "remove")) /\ TakeChildren(n)
    BY <1>2, TeardownIs DEF Stop
  <2>2. UNCHANGED <<kind, owner, cleanups, gone, history>> /\ "remove" \in Nexts
    BY <1>2 DEF Stop, Nexts
  <2> QED
    BY <1>1, <2>1, <2>2, BeginsShape
<1>3. CASE Rerun
  <2>1. PICK n \in Alive : /\ kind[n] = "effect" /\ stack' = Append(stack, TeardownOf(n, "run"))
                           /\ TakeChildren(n)
    BY <1>3, TeardownIs DEF Rerun
  <2>2. UNCHANGED <<kind, owner, cleanups, gone, history>> /\ "run" \in Nexts
    BY <1>3 DEF Rerun, Nexts
  <2> QED
    BY <1>1, <2>1, <2>2, BeginsShape
<1> QED
  BY <1>2, <1>3

LEMMA DisposeShape ==
  ASSUME TypeOK, DisposeChild
  PROVE  \/ \E n \in Alive, next \in Nexts : Begins(n, next)
         \/ \E n \in Nodes : Skips(n)
<1> DEFINE n == Head(Top.children)
           r == [stack EXCEPT ![Len(stack)] = Dropped(Top)]
<1>1. /\ stack # <<>> /\ Top \in Frame /\ Top.op = "teardown" /\ Top.phase = "children"
      /\ Top.children # <<>> /\ n \in Nodes
      /\ stack' = IF n \in Alive THEN Append(r, TeardownOf(n, "remove")) ELSE r
  BY DisposeStack
<1>2. Dropped(Top) \in Frame /\ Dropped(Top).op = "teardown"
  BY <1>1, DroppedIs
<1>3. /\ r \in Seq(Frame) /\ {i \in DOMAIN r : r[i].op = "teardown"} = Teardowns
      /\ r[Len(stack)] = Dropped(Top) /\ \A i \in Teardowns \ {Len(stack)} : r[i] = stack[i]
  BY <1>1, <1>2, ReplaceTop
<1>4. stack[Len(stack)] = Top
  BY <1>1, TopTeardown
<1> HIDE DEF r
<1>5. \A i \in Teardowns : r[i] = stack[i] \/ Drops(stack[i], r[i], n)
  <2>1. Drops(Top, Dropped(Top), n)
    BY <1>1 DEF Drops
  <2> HIDE DEF n
  <2> QED
    BY <1>3, <1>4, <2>1
<1> HIDE DEF n
<1>6. CASE n \in Alive
  <2>1. TakeChildren(n) /\ UNCHANGED <<kind, owner, cleanups, gone, history>>
    BY <1>6 DEF DisposeChild, n
  <2>2. "remove" \in Nexts
    BY DEF Nexts
  <2>3. stack' = Append(r, TeardownOf(n, "remove"))
    BY <1>1, <1>6
  <2> QED
    BY <1>3, <1>5, <1>6, <2>1, <2>2, <2>3, BeginsShape
<1>7. CASE n \notin Alive
  <2>1. UNCHANGED <<tree, history>>
    BY <1>7 DEF DisposeChild, n, tree
  <2>2. stack' = r
    BY <1>1, <1>7
  <2>3. Teardowns' = Teardowns
    BY <1>3, <2>2 DEF Teardowns
  <2> QED
    BY <1>1, <1>5, <1>7, <2>1, <2>2, <2>3 DEF Skips
<1> QED
  BY <1>6, <1>7

LEMMA TakesShape ==
  ASSUME TypeOK, TakeCleanups
  PROVE  \E t \in Teardowns : Takes(t)
<1>1. /\ stack # <<>> /\ Top \in Frame /\ Top.op = "teardown" /\ Top.phase = "children"
      /\ Top.children = <<>> /\ stack' = [stack EXCEPT ![Len(stack)] = Taking(Top)]
  BY TakeStack
<1>2. Taking(Top) \in Frame /\ Taking(Top).op = "teardown"
  BY <1>1, TakingIs
<1>3. Innermost(Len(stack)) /\ stack[Len(stack)] = Top
  BY <1>1, TopTeardown
<1>4. /\ Teardowns' = Teardowns /\ stack'[Len(stack)] = Taking(Top)
      /\ \A i \in Teardowns \ {Len(stack)} : stack'[i] = stack[i]
  BY <1>1, <1>2, ReplaceTop DEF Teardowns
<1>5. CleanupsTaken(Top.node) /\ UNCHANGED <<kind, owner, owned, gone, history>>
  BY DEF TakeCleanups
<1>6. Takes(Len(stack))
  BY <1>1, <1>3, <1>4, <1>5 DEF Takes, Others
<1> QED
  BY <1>3, <1>6 DEF Innermost

LEMMA CallsBackShape ==
  ASSUME TypeOK, RunCleanup
  PROVE  \E t \in Teardowns : CallsBack(t)
<1> DEFINE r == [stack EXCEPT ![Len(stack)] = Calling(Top)]
           f == Call("cleanup", Top.node, Owner)
<1>1. /\ stack # <<>> /\ Top \in Frame /\ Top.op = "teardown" /\ Top.phase = "cleanups"
      /\ Top.cbs # <<>> /\ stack' = Append(r, f)
  BY CleanupStack
<1>2. Calling(Top) \in Frame /\ Calling(Top).op = "teardown"
  BY <1>1, CallingIs
<1>3. Innermost(Len(stack)) /\ stack[Len(stack)] = Top
  BY <1>1, TopTeardown
<1>4. /\ r \in Seq(Frame) /\ {i \in DOMAIN r : r[i].op = "teardown"} = Teardowns
      /\ r[Len(stack)] = Calling(Top) /\ \A i \in Teardowns \ {Len(stack)} : r[i] = stack[i]
  BY <1>1, <1>2, ReplaceTop
<1>5. f \in Frame /\ f.op # "teardown"
  <2>1. Top.node \in Nodes
    BY <1>1 DEF Frame
  <2> QED
    BY <2>1, OwnerType, CallIs DEF Plain
<1> HIDE DEF r, f
<1>6. Teardowns' = Teardowns /\ \A i \in Teardowns : stack'[i] = r[i]
  BY <1>1, <1>4, <1>5, PushOn DEF Teardowns
<1>7. ran' = ran \cup {Last(Top.cbs)} /\ UNCHANGED <<tree, home, atEnd, late>>
  BY DEF RunCleanup
<1>8. CallsBack(Len(stack))
  BY <1>1, <1>3, <1>4, <1>6, <1>7 DEF CallsBack, Others, Innermost
<1> QED
  BY <1>3, <1>8 DEF Innermost

LEMMA EndsShape ==
  ASSUME TypeOK, RemoveNode \/ RunAgain
  PROVE  \E t \in Teardowns : Ends(t)
<1> DEFINE r == Front(stack)
           t == Len(stack)
<1>1. /\ stack # <<>> /\ Top \in Frame /\ Top.op = "teardown" /\ Top.phase = "cleanups"
      /\ Top.cbs = <<>> /\ Top.node \in Nodes
  BY FinishedStack DEF RemoveNode, RunAgain
<1>2. Innermost(t) /\ stack[t] = Top
  BY <1>1, TopTeardown
<1>3. /\ r \in Seq(Frame) /\ {i \in DOMAIN r : r[i].op = "teardown"} = Teardowns \ {t}
      /\ \A i \in Teardowns \ {t} : r[i] = stack[i]
  <2>1. /\ r \in Seq(Frame) /\ \A i \in DOMAIN r : i \in DOMAIN stack /\ i # t /\ r[i] = stack[i]
        /\ \A i \in DOMAIN stack : i \in DOMAIN r \/ i = t
    BY <1>1, PopIndex DEF TypeOK
  <2> HIDE DEF r, t
  <2> QED
    BY <2>1 DEF Teardowns
<1>4. CASE RemoveNode
  <2>1. stack' = r /\ UNCHANGED history /\ Top.next = "remove"
    BY <1>4 DEF RemoveNode, Finished
  <2>2. IF Top.node \notin Alive THEN UNCHANGED tree ELSE Removes(Top.node)
    BY <1>4 DEF RemoveNode, Removes
  <2>3. Teardowns' = Teardowns \ {t} /\ Others(t)
    BY <1>3, <2>1 DEF Teardowns, Others
  <2> HIDE DEF t
  <2>4. Ends(t)
    BY <1>1, <1>2, <2>1, <2>2, <2>3 DEF Ends
  <2> QED
    BY <1>2, <2>4 DEF Innermost
<1>5. CASE RunAgain
  <2> DEFINE f == Call("body", Top.node, Top.node)
  <2>1. stack' = Append(r, f) /\ UNCHANGED history /\ Top.next = "run" /\ UNCHANGED tree
    BY <1>5 DEF RunAgain, Finished
  <2>2. f \in Frame /\ f.op # "teardown"
    BY <1>1, CallIs DEF Plain
  <2> HIDE DEF f, r, t
  <2>3. Teardowns' = Teardowns \ {t} /\ Others(t)
    BY <1>3, <2>1, <2>2, PushOn DEF Teardowns, Others
  <2>4. Ends(t)
    BY <1>1, <1>2, <2>1, <2>3 DEF Ends
  <2> QED
    BY <1>2, <2>4 DEF Innermost
<1> QED
  BY <1>4, <1>5

LEMMA Shapes == ASSUME TypeOK, [Next]_vars PROVE Shape
<1>1. CASE NewScope \/ NewEffect
  BY <1>1, MakesShape DEF Shape
<1>2. CASE OnCleanup \/ OnScopeDispose
  BY <1>2, RegistersShape DEF Shape
<1>3. CASE RunScope \/ Return \/ UNCHANGED vars
  BY <1>3, IdlesShape DEF Shape
<1>4. CASE Stop \/ Rerun
  BY <1>4, CallShape DEF Shape
<1>5. CASE DisposeChild
  BY <1>5, DisposeShape DEF Shape
<1>6. CASE TakeCleanups
  BY <1>6, TakesShape DEF Shape
<1>7. CASE RunCleanup
  BY <1>7, CallsBackShape DEF Shape
<1>8. CASE RemoveNode \/ RunAgain
  BY <1>8, EndsShape DEF Shape
<1> QED
  BY <1>1, <1>2, <1>3, <1>4, <1>5, <1>6, <1>7, <1>8 DEF Next

-----------------------------------------------------------------------------
(* Types *)

LEMMA StackType == ASSUME TypeOK, [Next]_vars PROVE stack' \in Seq(Frame)
<1>1. stack \in Seq(Frame) /\ Alive \subseteq Nodes
  BY BelowAlive DEF TypeOK
<1>2. ASSUME NEW op \in Plain, NEW n \in Nodes, NEW o \in Nodes \cup {None}, NEW s \in Seq(Frame)
      PROVE  Append(s, Call(op, n, o)) \in Seq(Frame)
  <2>1. Call(op, n, o) \in Frame
    BY CallIs
  <2> QED
    BY <2>1, PushIndex
<1>3. ASSUME NEW n \in Alive, NEW next \in Nexts, NEW s \in Seq(Frame)
      PROVE  Append(s, TeardownOf(n, next)) \in Seq(Frame)
  BY TeardownType, PushIndex
<1>4. CASE NewScope
  <2>1. PICK n \in Nodes : stack' = stack \/ stack' = Append(stack, Call("scope", n, n))
    BY <1>4 DEF NewScope, Enter
  <2> QED
    BY <1>1, <1>2, <2>1 DEF Plain
<1>5. CASE NewEffect
  <2>1. PICK n \in Nodes : stack' = Append(stack, Call("body", n, n))
    BY <1>5 DEF NewEffect, Enter
  <2> QED
    BY <1>1, <1>2, <2>1 DEF Plain
<1>6. CASE OnCleanup \/ OnScopeDispose \/ UNCHANGED vars
  BY <1>1, <1>6 DEF OnCleanup, OnScopeDispose, Register, vars
<1>7. CASE RunScope
  <2>1. PICK n \in Alive : stack' = Append(stack, Call("scope", n, n))
    BY <1>7 DEF RunScope, Enter
  <2> QED
    BY <1>1, <1>2, <2>1 DEF Plain
<1>8. CASE Stop
  <2>1. PICK n \in Alive : stack' = Append(stack, TeardownOf(n, "remove"))
    BY <1>8, TeardownIs DEF Stop
  <2> QED
    BY <1>1, <1>3, <2>1 DEF Nexts
<1>9. CASE Rerun
  <2>1. PICK n \in Alive : stack' = Append(stack, TeardownOf(n, "run"))
    BY <1>9, TeardownIs DEF Rerun
  <2> QED
    BY <1>1, <1>3, <2>1 DEF Nexts
<1>10. CASE Return \/ RemoveNode
  <2>1. stack' = Front(stack) /\ stack # <<>>
    BY <1>10 DEF Return, RemoveNode, Finished, In
  <2> QED
    BY <1>1, <2>1, PopIndex
<1>11. CASE DisposeChild
  <2> DEFINE r == [stack EXCEPT ![Len(stack)] = Dropped(Top)]
             n == Head(Top.children)
  <2>1. /\ stack # <<>> /\ Top \in Frame /\ Top.op = "teardown" /\ Top.children # <<>>
        /\ stack' = IF n \in Alive THEN Append(r, TeardownOf(n, "remove")) ELSE r
    BY <1>11, DisposeStack
  <2>2. r \in Seq(Frame)
    BY <2>1, DroppedIs, ReplaceTop
  <2> HIDE DEF r, n
  <2> QED
    BY <1>3, <2>1, <2>2 DEF Nexts
<1>12. CASE TakeCleanups
  <2>1. /\ stack # <<>> /\ Top \in Frame /\ Top.op = "teardown"
        /\ stack' = [stack EXCEPT ![Len(stack)] = Taking(Top)]
    BY <1>12, TakeStack
  <2>2. Taking(Top) \in Frame /\ Taking(Top).op = "teardown"
    BY <2>1, TakingIs
  <2> QED
    BY <2>1, <2>2, ReplaceTop
<1>13. CASE RunCleanup
  <2> DEFINE r == [stack EXCEPT ![Len(stack)] = Calling(Top)]
  <2>1. /\ stack # <<>> /\ Top \in Frame /\ Top.op = "teardown" /\ Top.cbs # <<>>
        /\ stack' = Append(r, Call("cleanup", Top.node, Owner))
    BY <1>13, CleanupStack
  <2>2. Calling(Top) \in Frame /\ Calling(Top).op = "teardown"
    BY <2>1, CallingIs
  <2>3. r \in Seq(Frame)
    BY <2>1, <2>2, ReplaceTop
  <2>4. Top.node \in Nodes /\ Owner \in Nodes \cup {None}
    BY <2>1, OwnerType DEF Frame
  <2> HIDE DEF r
  <2> QED
    BY <1>2, <2>1, <2>3, <2>4 DEF Plain
<1>14. CASE RunAgain
  <2>1. /\ stack # <<>> /\ Top.node \in Nodes
        /\ stack' = Append(Front(stack), Call("body", Top.node, Top.node))
    BY <1>14, FinishedStack DEF RunAgain
  <2>2. Front(stack) \in Seq(Frame)
    BY <1>1, <2>1, PopIndex
  <2> QED
    BY <1>2, <2>1, <2>2 DEF Plain
<1> QED
  BY <1>4, <1>5, <1>6, <1>7, <1>8, <1>9, <1>10, <1>11, <1>12, <1>13, <1>14 DEF Next

LEMMA CallsType == ASSUME TypeOK, [Next]_vars PROVE calls' \in Nat
<1>1. calls \in Nat
  BY DEF TypeOK
<1>2. calls' = calls \/ Spend
  BY DEF Next, NewScope, NewEffect, NewNode, OnCleanup, OnScopeDispose, Register, RunScope, Stop,
         Rerun, Return, DisposeChild, TakeCleanups, RunCleanup, RemoveNode, RunAgain, vars
<1> QED
  BY <1>1, <1>2 DEF Spend

(* The frames of active teardowns. *)
LEMMA InTeardowns ==
  ASSUME TypeOK, NEW i \in Teardowns
  PROVE  /\ stack[i] \in Frame /\ stack[i].node \in Nodes /\ stack[i].children \in Seq(Nodes)
         /\ stack[i].cbs \in Seq(Callbacks) /\ stack[i].below \subseteq Nodes
         /\ stack[i].due \subseteq Callbacks /\ i \in Nat
         /\ stack[i].phase \in {"children", "cleanups"}
<1>1. i \in DOMAIN stack /\ stack \in Seq(Frame) /\ DOMAIN stack = 1 .. Len(stack)
  BY DEF TypeOK, Teardowns
<1>2. stack[i] \in Frame /\ i \in Nat
  BY <1>1
<1> QED
  BY <1>2 DEF Frame

(* The types of the variables other than stack and calls. *)
TreeTypes ==
  /\ kind \in [Nodes -> Kinds \cup {None}] /\ owner \in [Nodes -> Nodes \cup {None}]
  /\ owned \in [Nodes -> Seq(Alive)] /\ cleanups \in [Nodes -> Seq(Callbacks)]
  /\ gone \subseteq Nodes \ Alive
  /\ home \in [Callbacks -> Nodes \cup {None}] /\ ran \subseteq Callbacks
  /\ atEnd \subseteq Callbacks /\ late \subseteq Nodes \cup Callbacks

LEMMA KindsAreNot == None \notin Kinds /\ None \notin Nodes
BY OwnershipAssumption

(* After new_node. *)
LEMMA MakesIs ==
  ASSUME TypeOK, NEW n \in Nodes, NEW k \in Kinds, NEW o \in Nodes \cup {None}, NewNode(n, k, o)
  PROVE  /\ Alive' = Alive \cup {n} /\ n \notin Alive /\ n \notin gone
         /\ kind'[n] = k /\ owner'[n] = o
         /\ \A m \in Nodes \ {n} : kind'[m] = kind[m] /\ owner'[m] = owner[m]
         /\ \A m \in Nodes \ {o} : owned'[m] = owned[m]
         /\ o \in Alive => owned'[o] = Append(owned[o], n)
         /\ o \notin Alive => owned' = owned
<1>1. kind \in [Nodes -> Kinds \cup {None}] /\ owner \in [Nodes -> Nodes \cup {None}]
      /\ DOMAIN owned = Nodes
  BY DEF TypeOK
<1>2. kind' = [kind EXCEPT ![n] = k] /\ owner' = [owner EXCEPT ![n] = o] /\ kind[n] = None
      /\ n \notin gone /\ owned' = IF o \in Alive THEN [owned EXCEPT ![o] = Append(@, n)] ELSE owned
  BY DEF NewNode
<1>3. Alive' = Alive \cup {n} /\ n \notin Alive
  BY <1>1, <1>2, KindsAreNot DEF Alive
<1>4. o \in Alive => o \in Nodes
  BY DEF Alive
<1> QED
  BY <1>1, <1>2, <1>3, <1>4

(* After the rest of dispose_node. *)
LEMMA RemovesIs ==
  ASSUME TypeOK, OwnedExactly, NEW n \in Alive, Removes(n)
  PROVE  /\ Alive' = Alive \ {n} /\ gone' = gone \cup {n}
         /\ kind'[n] = None
         /\ \A m \in Nodes \ {n} : /\ kind'[m] = kind[m] /\ owner'[m] = owner[m]
                                   /\ cleanups'[m] = cleanups[m]
         /\ owned'[n] = <<>> /\ cleanups'[n] = <<>> /\ n \in Nodes
         /\ \A m \in Alive \ {n} : /\ owned'[m] \in Seq(Alive') /\ IsInjective(owned'[m])
                                   /\ ToSet(owned'[m]) = ToSet(owned[m]) \ {n}
         /\ \A m \in Nodes \ Alive : owned[m] = <<>> => owned'[m] = <<>>
<1>1. kind \in [Nodes -> Kinds \cup {None}] /\ owner \in [Nodes -> Nodes \cup {None}]
      /\ DOMAIN cleanups = Nodes /\ n \in Nodes /\ Alive \subseteq Nodes
      /\ \A m \in Nodes : owned[m] \in Seq(Alive)
  BY BelowAlive DEF TypeOK
<1>2. kind' = [kind EXCEPT ![n] = None] /\ owner' = [owner EXCEPT ![n] = None]
      /\ cleanups' = [cleanups EXCEPT ![n] = <<>>] /\ gone' = gone \cup {n}
  BY DEF Removes
<1>3. Alive' = Alive \ {n}
  BY <1>1, <1>2 DEF Alive
<1>4. owned'[n] = <<>>
  BY <1>1 DEF Removes, LeavesOwner
<1>5. ASSUME NEW m \in Alive \ {n}
      PROVE  /\ owned'[m] \in Seq(Alive') /\ IsInjective(owned'[m])
             /\ ToSet(owned'[m]) = ToSet(owned[m]) \ {n}
  <2>1. owned[m] \in Seq(Alive) /\ IsInjective(owned[m]) /\ ToSet(owned[m]) \subseteq Alive
    BY <1>1, ToSetType DEF OwnedExactly
  <2>2. \A c \in ToSet(owned[m]) : owner[c] = m
    BY DEF OwnedExactly
  <2>3. owned'[m] = IF m = owner[n] THEN RemoveFirst(owned[m], n) ELSE owned[m]
    BY <1>1 DEF Removes, LeavesOwner
  <2>4. CASE m = owner[n]
    <3>1. /\ RemoveFirst(owned[m], n) \in Seq(Alive) /\ IsInjective(RemoveFirst(owned[m], n))
          /\ ToSet(RemoveFirst(owned[m], n)) = ToSet(owned[m]) \ {n}
      BY <2>1, RemoveFirstIs
    <3>2. ToSet(RemoveFirst(owned[m], n)) \subseteq Alive'
      BY <1>3, <2>1, <3>1
    <3> QED
      BY <2>3, <2>4, <3>1, <3>2, SeqOfSet
  <2>5. CASE m # owner[n]
    <3>1. n \notin ToSet(owned[m]) /\ owned'[m] = owned[m]
      BY <2>2, <2>3, <2>5
    <3>2. ToSet(owned[m]) \subseteq Alive'
      BY <1>3, <2>1, <3>1
    <3> QED
      BY <2>1, <3>1, <3>2, SeqOfSet
  <2> QED
    BY <2>4, <2>5
<1>6. ASSUME NEW m \in Nodes \ Alive, owned[m] = <<>>
      PROVE  owned'[m] = <<>>
  <2>1. RemoveFirst(<<>>, n) = <<>>
    BY DEF RemoveFirst
  <2> QED
    BY <1>6, <2>1 DEF Removes, LeavesOwner
<1> QED
  BY <1>1, <1>2, <1>3, <1>4, <1>5, <1>6

LEMMA EmptyType == ASSUME NEW S PROVE <<>> \in Seq(S)
OBVIOUS

LEMMA TreeTypesIs == TypeOK <=> TreeTypes /\ stack \in Seq(Frame) /\ calls \in Nat
BY DEF TypeOK, TreeTypes

LEMMA IdleTypes ==
  ASSUME TreeTypes, UNCHANGED tree, home' = home, atEnd' = atEnd, ran' \subseteq Callbacks, late' = late
  PROVE  TreeTypes'
BY DEF TreeTypes, tree, Alive

LEMMA MakesTypes ==
  ASSUME TypeOK, NEW n \in Nodes, NEW k \in Kinds, NEW o \in Nodes \cup {None}, NewNode(n, k, o)
  PROVE  TreeTypes'
<1>1. TreeTypes
  BY TreeTypesIs
<1>2. /\ Alive' = Alive \cup {n} /\ n \notin Alive /\ n \notin gone
      /\ \A m \in Nodes \ {o} : owned'[m] = owned[m]
      /\ o \in Alive => owned'[o] = Append(owned[o], n)
      /\ o \notin Alive => owned' = owned
  BY MakesIs
<1>8. Alive' = Alive \cup {n} /\ n \notin Alive /\ n \notin gone
  BY <1>2
<1>3. kind' \in [Nodes -> Kinds \cup {None}] /\ owner' \in [Nodes -> Nodes \cup {None}]
  BY <1>1 DEF TreeTypes, NewNode
<1>4. ASSUME NEW m \in Nodes
      PROVE  owned'[m] \in Seq(Alive')
  <2>1. owned[m] \in Seq(Alive)
    BY <1>1 DEF TreeTypes
  <2>2. owned[m] \in Seq(Alive') /\ n \in Alive'
    <3>1. ToSet(owned[m]) \subseteq Alive
      BY <2>1, ToSetType
    <3>2. ToSet(owned[m]) \subseteq Alive' /\ n \in Alive'
      BY <1>8, <3>1
    <3>3. owned[m] \in Seq(Alive')
      BY <2>1, <3>2, SeqOfSet
    <3> QED
      BY <3>2, <3>3
  <2>3. Append(owned[m], n) \in Seq(Alive')
    BY <2>2, AppendIs
  <2> QED
    BY <1>2, <2>2, <2>3
<1>5. owned' \in [Nodes -> Seq(Alive')]
  <2>1. DOMAIN owned' = Nodes /\ owned' = [m \in Nodes |-> owned'[m]]
    BY <1>1 DEF NewNode, TreeTypes
  <2> QED
    BY <1>4, <2>1
<1>6. gone' \subseteq Nodes \ Alive'
  <2>1. gone' = gone /\ gone \subseteq Nodes \ Alive
    BY <1>1 DEF TreeTypes, NewNode
  <2> QED
    BY <1>8, <2>1
<1>7. late' \subseteq Nodes \cup Callbacks
  BY <1>1 DEF TreeTypes, NewNode
<1> QED
  BY <1>1, <1>3, <1>5, <1>6, <1>7 DEF TreeTypes, NewNode

LEMMA RegistersTypes ==
  ASSUME TreeTypes, NEW c \in Callbacks, NEW n \in Alive, Registers(c, n)
  PROVE  TreeTypes'
<1>1. n \in Nodes
  BY BelowAlive
<1>2. Register(c, n) /\ atEnd' \subseteq Callbacks
  BY DEF TreeTypes, Registers
<1>3. home' \in [Callbacks -> Nodes \cup {None}] /\ late' \subseteq Nodes \cup Callbacks
  BY <1>1, <1>2 DEF TreeTypes, Register
<1>4. cleanups' \in [Nodes -> Seq(Callbacks)]
  <2>1. cleanups' = [cleanups EXCEPT ![n] = Append(@, c)] /\ Append(cleanups[n], c) \in Seq(Callbacks)
    BY <1>1, <1>2 DEF TreeTypes, Register
  <2> QED
    BY <2>1 DEF TreeTypes
<1>5. Alive' = Alive
  BY <1>2 DEF Register, Alive
<1> QED
  BY <1>2, <1>3, <1>4, <1>5 DEF TreeTypes, Register

LEMMA RemovesTypes ==
  ASSUME TypeOK, Handles, OwnedExactly, NEW n \in Alive, Removes(n), UNCHANGED history
  PROVE  TreeTypes'
<1>1. TreeTypes
  BY TreeTypesIs
<1>2. /\ Alive' = Alive \ {n} /\ gone' = gone \cup {n} /\ n \in Nodes /\ owned'[n] = <<>>
      /\ \A m \in Alive \ {n} : owned'[m] \in Seq(Alive')
      /\ \A m \in Nodes \ Alive : owned[m] = <<>> => owned'[m] = <<>>
  BY RemovesIs
<1>3. \A m \in Nodes : owned'[m] \in Seq(Alive')
  <2>1. <<>> \in Seq(Alive')
    OBVIOUS
  <2> QED
    BY <1>2, <2>1 DEF Handles
<1>4. owned' \in [Nodes -> Seq(Alive')]
  <2>1. DOMAIN owned' = Nodes /\ owned' = [m \in Nodes |-> owned'[m]]
    BY DEF Removes, LeavesOwner
  <2> QED
    BY <1>3, <2>1
<1>5. /\ kind' \in [Nodes -> Kinds \cup {None}] /\ owner' \in [Nodes -> Nodes \cup {None}]
      /\ cleanups' \in [Nodes -> Seq(Callbacks)]
  BY <1>1, EmptyType DEF TreeTypes, Removes
<1>6. gone' \subseteq Nodes \ Alive'
  BY <1>1, <1>2 DEF TreeTypes
<1> QED
  BY <1>1, <1>4, <1>5, <1>6 DEF TreeTypes, history

LEMMA TypeNext == ASSUME TypeOK, Handles, OwnedExactly, [Next]_vars PROVE TypeOK'
<1>1. TreeTypes /\ Shape
  BY TreeTypesIs, Shapes
<1>2. CASE Idles \/ \E n \in Nodes : Skips(n)
  <2>1. UNCHANGED tree /\ UNCHANGED history
    BY <1>2 DEF Idles, Skips
  <2>2. ran \subseteq Callbacks
    BY <1>1 DEF TreeTypes
  <2>3. TreeTypes'
    BY <1>1, <2>1, <2>2, IdleTypes DEF history
  <2> QED
    BY <2>3, StackType, CallsType DEF TreeTypes, TypeOK
<1>3. CASE \E n \in Nodes, k \in Kinds, o \in {None, Owner} : Makes(n, k, o)
  <2>1. PICK n \in Nodes, k \in Kinds, o \in {None, Owner} : NewNode(n, k, o)
    BY <1>3 DEF Makes
  <2>2. o \in Nodes \cup {None}
    BY <2>1, OwnerType
  <2>3. TreeTypes'
    BY <2>1, <2>2, MakesTypes
  <2> QED
    BY <2>3, StackType, CallsType DEF TreeTypes, TypeOK
<1>4. CASE \E c \in Callbacks, n \in Alive : Registers(c, n)
  <2>1. TreeTypes'
    BY <1>1, <1>4, RegistersTypes
  <2> QED
    BY <2>1, StackType, CallsType DEF TreeTypes, TypeOK
<1>5. CASE \E n \in Alive, next \in Nexts : Begins(n, next)
  <2>1. PICK n \in Alive : TakeChildren(n) /\ UNCHANGED <<kind, owner, cleanups, gone, history>>
    BY <1>5 DEF Begins
  <2>2. Alive' = Alive
    BY <2>1 DEF Alive
  <2>3. owned' \in [Nodes -> Seq(Alive)]
    BY <1>1, <2>1, EmptyType DEF TakeChildren, TreeTypes
  <2>4. TreeTypes'
    BY <1>1, <2>1, <2>2, <2>3 DEF TreeTypes, history
  <2> QED
    BY <2>4, StackType, CallsType DEF TreeTypes, TypeOK
<1>6. ASSUME NEW t \in Teardowns, Takes(t) \/ CallsBack(t) \/ Ends(t)
      PROVE  TypeOK'
  <2>1. CASE Takes(t)
    <3>1. cleanups' \in [Nodes -> Seq(Callbacks)] /\ UNCHANGED <<kind, owner, owned, gone, history>>
      BY <1>1, <2>1, EmptyType DEF Takes, CleanupsTaken, TreeTypes
    <3>2. Alive' = Alive
      BY <3>1 DEF Alive
    <3>3. TreeTypes'
      BY <1>1, <3>1, <3>2 DEF TreeTypes, history
    <3> QED
      BY <3>3, StackType, CallsType DEF TreeTypes, TypeOK
  <2>2. CASE CallsBack(t)
    <3>1. Last(stack[t].cbs) \in Callbacks
      BY <2>2, InTeardowns, FrontLast DEF CallsBack
    <3>2. ran' \subseteq Callbacks /\ UNCHANGED tree /\ home' = home /\ atEnd' = atEnd /\ late' = late
      BY <1>1, <2>2, <3>1 DEF CallsBack, TreeTypes
    <3>3. TreeTypes'
      BY <1>1, <3>2, IdleTypes
    <3> QED
      BY <3>3, StackType, CallsType DEF TreeTypes, TypeOK
  <2>3. CASE Ends(t)
    <3>1. TreeTypes'
      <4>1. CASE UNCHANGED tree
        <5>1. ran' \subseteq Callbacks /\ home' = home /\ atEnd' = atEnd /\ late' = late
          BY <1>1, <2>3 DEF Ends, TreeTypes, history
        <5> QED
          BY <1>1, <4>1, <5>1, IdleTypes
      <4>2. CASE stack[t].node \in Alive /\ Removes(stack[t].node)
        BY <2>3, <4>2, RemovesTypes DEF Ends
      <4> QED
        BY <2>3, <4>1, <4>2 DEF Ends
    <3> QED
      BY <3>1, StackType, CallsType DEF TreeTypes, TypeOK
  <2> QED
    BY <1>6, <2>1, <2>2, <2>3
<1> QED
  BY <1>1, <1>2, <1>3, <1>4, <1>5, <1>6 DEF Shape

-----------------------------------------------------------------------------
(* Handles *)

LEMMA FramesGrow ==
  ASSUME NEW s, NEW K, NEW R, NEW N, FramesIn(s, K, R, N), NEW K2, NEW R2, NEW N2,
         K \subseteq K2, R \subseteq R2, N \cap K \subseteq N2
  PROVE  FramesIn(s, K2, R2, N2)
BY DEF FramesIn, FrameIn

LEMMA FramesPush ==
  ASSUME NEW s \in Seq(Frame), NEW f \in Frame, NEW K, NEW R, NEW N, FramesIn(s, K, R, N),
         FrameIn(f, K, R, N)
  PROVE  FramesIn(Append(s, f), K, R, N)
<1> DEFINE t == Append(s, f)
<1>1. /\ t[Len(s) + 1] = f /\ \A i \in DOMAIN s : t[i] = s[i]
      /\ \A i \in DOMAIN t : i \in DOMAIN s \/ i = Len(s) + 1
  BY PushIndex
<1> HIDE DEF t
<1>2. FramesIn(t, K, R, N)
  BY <1>1 DEF FramesIn
<1> QED
  BY <1>2 DEF t

LEMMA FramesPop ==
  ASSUME NEW s \in Seq(Frame), s # <<>>, NEW K, NEW R, NEW N, FramesIn(s, K, R, N)
  PROVE  FramesIn(Front(s), K, R, N) /\ FrameIn(Last(s), K, R, N)
<1>1. /\ \A i \in DOMAIN Front(s) : i \in DOMAIN s /\ Front(s)[i] = s[i]
      /\ Last(s) = s[Len(s)] /\ Len(s) \in DOMAIN s
  BY PopIndex
<1> QED
  BY <1>1 DEF FramesIn

LEMMA FramesTop ==
  ASSUME NEW s \in Seq(Frame), s # <<>>, NEW f \in Frame, NEW K, NEW R, NEW N, FramesIn(s, K, R, N),
         FrameIn(f, K, R, N)
  PROVE  FramesIn([s EXCEPT ![Len(s)] = f], K, R, N)
<1> DEFINE t == [s EXCEPT ![Len(s)] = f]
<1>1. /\ DOMAIN t = DOMAIN s /\ t[Len(s)] = f /\ \A i \in DOMAIN s : i # Len(s) => t[i] = s[i]
  BY TopIndex
<1> HIDE DEF t
<1>2. FramesIn(t, K, R, N)
  BY <1>1 DEF FramesIn
<1> QED
  BY <1>2 DEF t

LEMMA PlainIn ==
  ASSUME NEW op \in Plain, NEW K \in SUBSET Nodes, NEW R, NEW N, NEW n \in K, NEW o \in K \cup {None}
  PROVE  FrameIn(Call(op, n, o), K, R, N) /\ Call(op, n, o) \in Frame
<1> DEFINE f == Call(op, n, o)
<1>1. /\ f.node = n /\ f.owner = o /\ f.children = <<>> /\ f.phase = "children"
      /\ f.cbs = <<>> /\ f.next = "remove" /\ f.below = {} /\ f.due = {} /\ f \in Frame
  BY CallIs
<1>2. ToSet(<<>>) = {}
  BY DEF ToSet
<1> HIDE DEF f
<1>3. FrameIn(f, K, R, N)
  BY <1>1, <1>2 DEF FrameIn
<1> QED
  BY <1>1, <1>3 DEF f

LEMMA KnownType == ASSUME TypeOK PROVE Known \subseteq Nodes /\ Alive \subseteq Known
BY DEF TypeOK, Known, Alive

LEMMA OwnerKnown == ASSUME TypeOK, Handles PROVE Owner \in Known \cup {None}
<1>1. CASE stack = <<>>
  BY <1>1 DEF Owner
<1>2. CASE stack # <<>>
  <2>1. FrameIn(Last(stack), Known, Registered, NotRoots)
    BY <1>2, FramesPop DEF TypeOK, Handles
  <2> QED
    BY <1>2, <2>1 DEF Owner, Top, FrameIn
<1> QED
  BY <1>1, <1>2

LEMMA TeardownIn ==
  ASSUME TypeOK, Handles, NEW n \in Alive, NEW next \in Nexts, next = "run" => kind[n] # "root"
  PROVE  FrameIn(TeardownOf(n, next), Known, Registered, NotRoots)
<1> DEFINE f == TeardownOf(n, next)
<1>1. /\ f.node = n /\ f.owner = Owner /\ f.children = owned[n] /\ f.phase = "children"
      /\ f.cbs = <<>> /\ f.next = next /\ f.below = Below(n) /\ f.due = DueOf(n)
  BY TeardownFields
<1> HIDE DEF f
<1>2. n \in Nodes /\ n \in Known /\ Below(n) \subseteq Known /\ Owner \in Known \cup {None}
  BY BelowAlive, KnownType, OwnerKnown
<1>3. ToSet(owned[n]) \subseteq Known
  <2>1. owned[n] \in Seq(Alive)
    BY <1>2 DEF TypeOK
  <2> QED
    BY <2>1, ToSetType, KnownType
<1>4. DueOf(n) \subseteq Registered
  <2>1. \A m \in Below(n) \cup {n} : m \in Nodes
    BY <1>2, BelowAlive
  <2> QED
    BY <2>1 DEF DueOf, Handles
<1>5. next = "run" => n \in NotRoots
  BY <1>2 DEF NotRoots
<1>6. ToSet(<<>>) \subseteq Registered
  BY DEF ToSet
<1> QED
  BY <1>1, <1>2, <1>3, <1>4, <1>5, <1>6 DEF FrameIn, f

LEMMA DroppedIn ==
  ASSUME NEW f \in Frame, f.children # <<>>, NEW K, NEW R, NEW N, FrameIn(f, K, R, N)
  PROVE  FrameIn(Dropped(f), K, R, N)
<1>1. f.children \in Seq(Nodes)
  BY DEF Frame
<1>2. ToSet(Tail(f.children)) \subseteq ToSet(f.children)
  BY <1>1, HeadTail
<1> QED
  BY <1>2, DroppedIs DEF FrameIn

LEMMA TakingIn ==
  ASSUME TypeOK, Handles, NEW f \in Frame, f.children = <<>>,
         FrameIn(f, Known, Registered, NotRoots)
  PROVE  FrameIn(Taking(f), Known, Registered, NotRoots)
<1>1. ToSet(cleanups[f.node]) \subseteq Registered
  BY DEF Handles, Frame
<1> QED
  BY <1>1, TakingIs DEF FrameIn

LEMMA CallingIn ==
  ASSUME NEW f \in Frame, f.cbs # <<>>, f.phase = "cleanups", NEW K, NEW R, NEW N, FrameIn(f, K, R, N)
  PROVE  FrameIn(Calling(f), K, R, N)
<1>1. f.cbs \in Seq(Callbacks)
  BY DEF Frame
<1>2. ToSet(Front(f.cbs)) \subseteq ToSet(f.cbs)
  BY <1>1, FrontLast
<1> QED
  BY <1>2, CallingIs DEF FrameIn

(* Nodes stay known, callbacks registered, and nothing becomes a root. *)
Grows ==
  /\ Known \subseteq Known' /\ Registered \subseteq Registered' /\ NotRoots \cap Known \subseteq NotRoots'

LEMMA GrowsSame ==
  ASSUME UNCHANGED <<kind, gone>>, Registered \subseteq Registered'
  PROVE  Grows /\ Alive' = Alive /\ Known' = Known
<1>1. Alive' = Alive /\ NotRoots' = NotRoots
  BY DEF Alive, NotRoots
<1>2. Known' = Known
  BY <1>1 DEF Known
<1> QED
  BY <1>1, <1>2 DEF Grows

LEMMA RegisteredSame == ASSUME home' = home PROVE Registered' = Registered
BY DEF Registered

LEMMA GrowsNext == ASSUME TypeOK, Handles, OwnedExactly, [Next]_vars PROVE Grows
<1>1. Shape /\ TreeTypes
  BY Shapes, TreeTypesIs
<1>2. CASE Idles \/ \E n \in Nodes : Skips(n)
  <2>1. UNCHANGED <<kind, gone>> /\ home' = home
    BY <1>2 DEF Idles, Skips, tree, history
  <2> QED
    BY <2>1, GrowsSame, RegisteredSame
<1>3. CASE \E n \in Nodes, k \in Kinds, o \in {None, Owner} : Makes(n, k, o)
  <2>1. PICK n \in Nodes, k \in Kinds, o \in {None, Owner} : NewNode(n, k, o)
    BY <1>3 DEF Makes
  <2>2. o \in Nodes \cup {None}
    BY <2>1, OwnerType
  <2>3. Alive' = Alive \cup {n} /\ n \notin Alive /\ n \notin gone
        /\ \A m \in Nodes \ {n} : kind'[m] = kind[m]
    BY <2>1, <2>2, MakesIs
  <2>4. gone' = gone /\ home' = home
    BY <2>1 DEF NewNode
  <2>5. Known \subseteq Known' /\ n \notin Known
    BY <2>3, <2>4 DEF Known
  <2>6. NotRoots \cap Known \subseteq NotRoots'
    BY <2>3, <2>5 DEF NotRoots
  <2> QED
    BY <2>4, <2>5, <2>6, RegisteredSame DEF Grows
<1>4. CASE \E c \in Callbacks, n \in Alive : Registers(c, n)
  <2>1. PICK c \in Callbacks, n \in Alive : Register(c, n)
    BY <1>4 DEF Registers
  <2>2. UNCHANGED <<kind, gone>> /\ home' = [home EXCEPT ![c] = n] /\ home[c] = None
    BY <2>1 DEF Register
  <2>3. Registered \subseteq Registered'
    BY <1>1, <2>2 DEF Registered, TreeTypes
  <2> QED
    BY <2>2, <2>3, GrowsSame
<1>5. CASE \E n \in Alive, next \in Nexts : Begins(n, next)
  <2>1. UNCHANGED <<kind, gone>> /\ home' = home
    BY <1>5 DEF Begins, history
  <2> QED
    BY <2>1, GrowsSame, RegisteredSame
<1>6. ASSUME NEW t \in Teardowns, Takes(t) \/ CallsBack(t)
      PROVE  Grows
  <2>1. UNCHANGED <<kind, gone>> /\ home' = home
    BY <1>6 DEF Takes, CallsBack, tree, history
  <2> QED
    BY <2>1, GrowsSame, RegisteredSame
<1>7. ASSUME NEW t \in Teardowns, Ends(t)
      PROVE  Grows
  <2>1. home' = home
    BY <1>7 DEF Ends, history
  <2>2. CASE UNCHANGED tree
    BY <2>1, <2>2, GrowsSame, RegisteredSame DEF tree
  <2>3. CASE stack[t].node \in Alive /\ Removes(stack[t].node)
    <3> DEFINE n == stack[t].node
    <3>1. Alive' = Alive \ {n} /\ gone' = gone \cup {n} /\ kind'[n] = None /\ n \in Nodes
          /\ \A m \in Nodes \ {n} : kind'[m] = kind[m]
      BY <2>3, RemovesIs
    <3> HIDE DEF n
    <3>2. Known \subseteq Known'
      BY <3>1 DEF Known
    <3>3. NotRoots \subseteq NotRoots'
      BY <3>1, KindsAreNot DEF NotRoots, Kinds
    <3> QED
      BY <2>1, <3>2, <3>3, RegisteredSame DEF Grows
  <2> QED
    BY <1>7, <2>2, <2>3 DEF Ends
<1> QED
  BY <1>1, <1>2, <1>3, <1>4, <1>5, <1>6, <1>7 DEF Shape

LEMMA NewKnown ==
  ASSUME TypeOK, NewScope \/ NewEffect
  PROVE  \/ stack' = stack
         \/ \E op \in Plain, n \in Nodes : stack' = Append(stack, Call(op, n, n)) /\ n \in Known'
<1>1. CASE NewScope
  <2>1. PICK n \in Nodes, detached \in BOOLEAN :
          /\ NewNode(n, "root", IF detached THEN None ELSE Owner)
          /\ stack' = stack \/ stack' = Append(stack, Call("scope", n, n))
    BY <1>1 DEF NewScope, Enter
  <2> DEFINE o == IF detached THEN None ELSE Owner
  <2>2. "root" \in Kinds /\ o \in Nodes \cup {None} /\ "scope" \in Plain
    BY OwnerType DEF Kinds, Plain
  <2>3. n \in Alive'
    BY <2>1, <2>2, MakesIs
  <2> QED
    BY <2>1, <2>2, <2>3 DEF Known
<1>2. CASE NewEffect
  <2>1. PICK n \in Nodes : NewNode(n, "effect", Owner) /\ stack' = Append(stack, Call("body", n, n))
    BY <1>2 DEF NewEffect, Enter
  <2>2. "effect" \in Kinds /\ Owner \in Nodes \cup {None} /\ "body" \in Plain
    BY OwnerType DEF Kinds, Plain
  <2>3. n \in Alive'
    BY <2>1, <2>2, MakesIs
  <2> QED
    BY <2>1, <2>2, <2>3 DEF Known
<1> QED
  BY <1>1, <1>2

LEMMA FramesOn ==
  ASSUME TypeOK, TypeOK', Handles, OwnedExactly, [Next]_vars
  PROVE  FramesIn(stack', Known', Registered', NotRoots')
<1> DEFINE Good(s) == FramesIn(s, Known, Registered, NotRoots)
<1>1. /\ Grows /\ stack \in Seq(Frame) /\ Good(stack) /\ Alive \subseteq Known
      /\ Known \subseteq Nodes /\ Known' \subseteq Nodes /\ Owner \in Known \cup {None}
  <2>1. Known' \subseteq Nodes
    BY DEF TypeOK, Known, Alive
  <2> QED
    BY <2>1, GrowsNext, KnownType, OwnerKnown DEF TypeOK, Handles
<1>2. ASSUME Good(stack')
      PROVE  FramesIn(stack', Known', Registered', NotRoots')
  BY <1>1, <1>2, FramesGrow DEF Grows
<1>3. ASSUME NEW op \in Plain, NEW n \in Known, NEW o \in Known \cup {None},
             NEW s \in Seq(Frame), Good(s), stack' = Append(s, Call(op, n, o))
      PROVE  Good(stack')
  <2>1. FrameIn(Call(op, n, o), Known, Registered, NotRoots) /\ Call(op, n, o) \in Frame
    BY <1>1, PlainIn
  <2> QED
    BY <1>3, <2>1, FramesPush
<1>4. ASSUME NEW n \in Alive, NEW next \in Nexts, next = "run" => kind[n] # "root",
             NEW s \in Seq(Frame), Good(s), stack' = Append(s, TeardownOf(n, next))
      PROVE  Good(stack')
  <2>1. FrameIn(TeardownOf(n, next), Known, Registered, NotRoots) /\ TeardownOf(n, next) \in Frame
    BY <1>4, TeardownIn, TeardownType
  <2> QED
    BY <1>4, <2>1, FramesPush
<1>5. ASSUME stack # <<>>
      PROVE  /\ Good(Front(stack)) /\ Front(stack) \in Seq(Frame) /\ Top \in Frame
             /\ FrameIn(Top, Known, Registered, NotRoots)
  <2>1. Good(Front(stack)) /\ FrameIn(Last(stack), Known, Registered, NotRoots)
    BY <1>1, <1>5, FramesPop
  <2>2. Front(stack) \in Seq(Frame) /\ Last(stack) \in Frame
    BY <1>1, <1>5, PopIndex
  <2> QED
    BY <2>1, <2>2 DEF Top
<1>6. ASSUME stack # <<>>, NEW f \in Frame, FrameIn(f, Known, Registered, NotRoots),
             f.op = "teardown", Top.op = "teardown"
      PROVE  Good([stack EXCEPT ![Len(stack)] = f]) /\ [stack EXCEPT ![Len(stack)] = f] \in Seq(Frame)
  <2>1. Good([stack EXCEPT ![Len(stack)] = f])
    BY <1>1, <1>6, FramesTop
  <2>2. [stack EXCEPT ![Len(stack)] = f] \in Seq(Frame)
    BY <1>6, ReplaceTop
  <2> QED
    BY <2>1, <2>2
<1> HIDE DEF Good
<1>10. CASE NewScope \/ NewEffect
  <2>1. CASE stack' = stack
    BY <1>1, <1>2, <2>1
  <2>2. CASE \E op \in Plain, n \in Nodes : stack' = Append(stack, Call(op, n, n)) /\ n \in Known'
    <3>1. PICK op \in Plain, n \in Nodes : stack' = Append(stack, Call(op, n, n)) /\ n \in Known'
      BY <2>2
    <3>2. FramesIn(stack, Known', Registered', NotRoots')
      BY <1>1, FramesGrow DEF Grows, Good
    <3>3. /\ FrameIn(Call(op, n, n), Known', Registered', NotRoots') /\ Call(op, n, n) \in Frame
      BY <1>1, <3>1, PlainIn
    <3> QED
      BY <1>1, <3>1, <3>2, <3>3, FramesPush
  <2> QED
    BY <1>10, <2>1, <2>2, NewKnown
<1>11. CASE OnCleanup \/ OnScopeDispose \/ UNCHANGED vars
  <2>1. stack' = stack
    BY <1>11 DEF OnCleanup, OnScopeDispose, Register, vars
  <2> QED
    BY <1>1, <1>2, <2>1
<1>12. CASE RunScope
  <2>1. PICK n \in Alive : stack' = Append(stack, Call("scope", n, n))
    BY <1>12 DEF RunScope, Enter
  <2>2. "scope" \in Plain /\ n \in Known
    BY <1>1 DEF Plain
  <2> QED
    BY <1>1, <1>2, <1>3, <2>1, <2>2
<1>13. CASE Stop
  <2>1. PICK n \in Alive : stack' = Append(stack, TeardownOf(n, "remove"))
    BY <1>13, TeardownIs DEF Stop
  <2>2. "remove" \in Nexts
    BY DEF Nexts
  <2> QED
    BY <1>1, <1>2, <1>4, <2>1, <2>2
<1>14. CASE Rerun
  <2>1. PICK n \in Alive : stack' = Append(stack, TeardownOf(n, "run")) /\ kind[n] = "effect"
    BY <1>14, TeardownIs DEF Rerun
  <2>2. "run" \in Nexts
    BY DEF Nexts
  <2> QED
    BY <1>1, <1>2, <1>4, <2>1, <2>2
<1>15. CASE Return \/ RemoveNode
  <2>1. stack' = Front(stack) /\ stack # <<>>
    BY <1>15 DEF Return, RemoveNode, Finished, In
  <2> QED
    BY <1>2, <1>5, <2>1
<1>16. CASE DisposeChild
  <2> DEFINE r == [stack EXCEPT ![Len(stack)] = Dropped(Top)]
             n == Head(Top.children)
  <2>1. /\ stack # <<>> /\ Top \in Frame /\ Top.op = "teardown" /\ Top.children # <<>>
        /\ stack' = IF n \in Alive THEN Append(r, TeardownOf(n, "remove")) ELSE r
    BY <1>16, DisposeStack
  <2>2. /\ Dropped(Top) \in Frame /\ Dropped(Top).op = "teardown"
        /\ FrameIn(Dropped(Top), Known, Registered, NotRoots)
    BY <1>5, <2>1, DroppedIs, DroppedIn
  <2>3. r \in Seq(Frame) /\ Good(r)
    BY <1>6, <2>1, <2>2
  <2>4. "remove" \in Nexts
    BY DEF Nexts
  <2> HIDE DEF r, n
  <2> QED
    BY <1>2, <1>4, <2>1, <2>3, <2>4
<1>17. CASE TakeCleanups
  <2>1. /\ stack # <<>> /\ Top \in Frame /\ Top.op = "teardown" /\ Top.children = <<>>
        /\ stack' = [stack EXCEPT ![Len(stack)] = Taking(Top)]
    BY <1>17, TakeStack
  <2>2. /\ Taking(Top) \in Frame /\ Taking(Top).op = "teardown"
        /\ FrameIn(Taking(Top), Known, Registered, NotRoots)
    BY <1>5, <2>1, TakingIs, TakingIn
  <2> QED
    BY <1>2, <1>6, <2>1, <2>2
<1>18. CASE RunCleanup
  <2> DEFINE r == [stack EXCEPT ![Len(stack)] = Calling(Top)]
  <2>1. /\ stack # <<>> /\ Top \in Frame /\ Top.op = "teardown" /\ Top.cbs # <<>>
        /\ Top.phase = "cleanups" /\ stack' = Append(r, Call("cleanup", Top.node, Owner))
    BY <1>18, CleanupStack
  <2>2. /\ Calling(Top) \in Frame /\ Calling(Top).op = "teardown"
        /\ FrameIn(Calling(Top), Known, Registered, NotRoots)
    BY <1>5, <2>1, CallingIs, CallingIn
  <2>3. r \in Seq(Frame) /\ Good(r)
    BY <1>6, <2>1, <2>2
  <2>4. Top.node \in Known /\ "cleanup" \in Plain
    BY <1>5, <2>1 DEF FrameIn, Plain
  <2> HIDE DEF r
  <2> QED
    BY <1>1, <1>2, <1>3, <2>1, <2>3, <2>4
<1>19. CASE RunAgain
  <2>1. /\ stack # <<>> /\ stack' = Append(Front(stack), Call("body", Top.node, Top.node))
    BY <1>19, FinishedStack DEF RunAgain
  <2>2. /\ Top.node \in Known /\ "body" \in Plain /\ Good(Front(stack))
        /\ Front(stack) \in Seq(Frame)
    BY <1>5, <2>1 DEF FrameIn, Plain
  <2> QED
    BY <1>2, <1>3, <2>1, <2>2
<1> QED
  BY <1>10, <1>11, <1>12, <1>13, <1>14, <1>15, <1>16, <1>17, <1>18, <1>19 DEF Next

(* Handles, without the frames. *)
Listed ==
  /\ \A n \in Nodes \ Alive : owned[n] = <<>> /\ cleanups[n] = <<>>
  /\ \A n \in Alive : owner[n] \in Known \cup {None}
  /\ \A n \in Nodes : ToSet(cleanups[n]) \subseteq Registered
  /\ ran \subseteq Registered

LEMMA ListedSame ==
  ASSUME Listed, UNCHANGED tree, home' = home, ran' \subseteq Registered
  PROVE  Listed'
<1>1. Alive' = Alive /\ Known' = Known /\ Registered' = Registered
  BY DEF tree, Alive, Known, Registered
<1> QED
  BY <1>1 DEF Listed, tree

LEMMA ListedNext == ASSUME TypeOK, Handles, OwnedExactly, [Next]_vars PROVE Listed'
<1>1. Shape /\ Listed /\ Grows /\ TreeTypes /\ Alive \subseteq Nodes
  BY Shapes, GrowsNext, TreeTypesIs, BelowAlive DEF Handles, Listed
<1>2. CASE Idles \/ \E n \in Nodes : Skips(n)
  <2>1. UNCHANGED tree /\ home' = home /\ ran' \subseteq Registered
    BY <1>1, <1>2 DEF Idles, Skips, history, Listed
  <2> QED
    BY <1>1, <2>1, ListedSame
<1>3. CASE \E n \in Nodes, k \in Kinds, o \in {None, Owner} : Makes(n, k, o)
  <2>1. PICK n \in Nodes, k \in Kinds, o \in {None, Owner} : NewNode(n, k, o)
    BY <1>3 DEF Makes
  <2>2. o \in Nodes \cup {None} /\ o \in Known \cup {None}
    BY <2>1, OwnerType, OwnerKnown
  <2>3. /\ Alive' = Alive \cup {n} /\ n \notin Alive /\ owner'[n] = o
        /\ \A m \in Nodes \ {n} : owner'[m] = owner[m]
        /\ \A m \in Nodes \ {o} : owned'[m] = owned[m]
        /\ o \notin Alive => owned' = owned
    BY <2>1, <2>2, MakesIs
  <2>4. cleanups' = cleanups /\ ran' = ran /\ home' = home
    BY <2>1 DEF NewNode
  <2>5. Registered' = Registered
    BY <2>4, RegisteredSame
  <2>6. \A m \in Nodes \ Alive' : owned'[m] = <<>> /\ cleanups'[m] = <<>>
    BY <1>1, <2>3, <2>4 DEF Listed
  <2>7. \A m \in Alive' : owner'[m] \in Known' \cup {None}
    BY <1>1, <2>2, <2>3 DEF Listed, Grows
  <2> QED
    BY <1>1, <2>4, <2>5, <2>6, <2>7 DEF Listed
<1>4. CASE \E c \in Callbacks, n \in Alive : Registers(c, n)
  <2>1. PICK c \in Callbacks, n \in Alive : Register(c, n)
    BY <1>4 DEF Registers
  <2>2. /\ UNCHANGED <<kind, owner, owned, gone, ran>> /\ home' = [home EXCEPT ![c] = n]
        /\ cleanups' = [cleanups EXCEPT ![n] = Append(@, c)] /\ n \in Nodes /\ n # None
    BY <1>1, <2>1, KindsAreNot DEF Register
  <2>3. Alive' = Alive /\ Known' = Known
    BY <2>2 DEF Alive, Known
  <2>4. c \in Registered'
    BY <1>1, <2>2 DEF Registered, TreeTypes
  <2>5. ASSUME NEW m \in Nodes
        PROVE  ToSet(cleanups'[m]) \subseteq Registered'
    <3>1. ToSet(cleanups[m]) \subseteq Registered'
      BY <1>1 DEF Listed, Grows
    <3>2. cleanups[m] \in Seq(Callbacks)
      BY <1>1 DEF TreeTypes
    <3>3. ToSet(Append(cleanups[m], c)) \subseteq Registered'
      BY <2>4, <3>1, <3>2, AppendIs
    <3>4. cleanups'[m] = cleanups[m] \/ cleanups'[m] = Append(cleanups[m], c)
      BY <1>1, <2>2 DEF TreeTypes
    <3> QED
      BY <3>1, <3>3, <3>4
  <2>6. \A m \in Nodes \ Alive' : owned'[m] = <<>> /\ cleanups'[m] = <<>>
    BY <1>1, <2>2, <2>3 DEF Listed, TreeTypes
  <2> QED
    BY <1>1, <2>2, <2>3, <2>5, <2>6 DEF Listed, Grows
<1>5. CASE \E n \in Alive, next \in Nexts : Begins(n, next)
  <2>1. PICK n \in Alive : TakeChildren(n) /\ UNCHANGED <<kind, owner, cleanups, gone, history>>
    BY <1>5 DEF Begins
  <2>2. Alive' = Alive /\ Known' = Known /\ Registered' = Registered /\ ran' = ran
    BY <2>1 DEF Alive, Known, Registered, history
  <2>3. \A m \in Nodes \ Alive' : owned'[m] = <<>>
    BY <1>1, <2>1, <2>2 DEF TakeChildren, Listed, TreeTypes
  <2> QED
    BY <1>1, <2>1, <2>2, <2>3 DEF Listed
<1>6. ASSUME NEW t \in Teardowns, Takes(t)
      PROVE  Listed'
  <2>1. CleanupsTaken(stack[t].node) /\ UNCHANGED <<kind, owner, owned, gone, history>>
    BY <1>6 DEF Takes
  <2>2. Alive' = Alive /\ Known' = Known /\ Registered' = Registered /\ ran' = ran
    BY <2>1 DEF Alive, Known, Registered, history
  <2>3. ToSet(<<>>) = {}
    BY DEF ToSet
  <2>4. \A m \in Nodes : cleanups'[m] = cleanups[m] \/ cleanups'[m] = <<>>
    BY <1>1, <2>1 DEF CleanupsTaken, TreeTypes
  <2> QED
    BY <1>1, <2>1, <2>2, <2>3, <2>4 DEF Listed
<1>7. ASSUME NEW t \in Teardowns, CallsBack(t)
      PROVE  Listed'
  <2>1. /\ stack[t].cbs # <<>> /\ stack[t].cbs \in Seq(Callbacks)
        /\ ran' = ran \cup {Last(stack[t].cbs)} /\ UNCHANGED <<tree, home>>
    BY <1>7, InTeardowns DEF CallsBack
  <2>2. ToSet(stack[t].cbs) \subseteq Registered
    BY DEF Handles, FramesIn, FrameIn, Teardowns
  <2>3. Last(stack[t].cbs) \in ToSet(stack[t].cbs)
    <3>1. ToSet(stack[t].cbs) = ToSet(Front(stack[t].cbs)) \cup {Last(stack[t].cbs)}
      BY <2>1, FrontLast
    <3> QED
      BY <3>1
  <2>4. ran' \subseteq Registered
    BY <1>1, <2>1, <2>2, <2>3 DEF Listed
  <2> QED
    BY <1>1, <2>1, <2>4, ListedSame
<1>8. ASSUME NEW t \in Teardowns, Ends(t)
      PROVE  Listed'
  <2>1. home' = home /\ ran' = ran
    BY <1>8 DEF Ends, history
  <2>2. CASE UNCHANGED tree
    BY <1>1, <2>1, <2>2, ListedSame DEF Listed
  <2>3. CASE stack[t].node \in Alive /\ Removes(stack[t].node)
    <3> DEFINE n == stack[t].node
    <3>1. /\ Alive' = Alive \ {n} /\ n \in Nodes /\ owned'[n] = <<>> /\ cleanups'[n] = <<>>
          /\ \A m \in Nodes \ {n} : owner'[m] = owner[m] /\ cleanups'[m] = cleanups[m]
          /\ \A m \in Nodes \ Alive : owned[m] = <<>> => owned'[m] = <<>>
      BY <2>3, RemovesIs
    <3> HIDE DEF n
    <3>2. Registered' = Registered
      BY <2>1, RegisteredSame
    <3>3. \A m \in Nodes \ Alive' : owned'[m] = <<>> /\ cleanups'[m] = <<>>
      BY <1>1, <3>1 DEF Listed
    <3>4. \A m \in Alive' : owner'[m] \in Known' \cup {None}
      BY <1>1, <3>1 DEF Listed, Grows
    <3>5. \A m \in Nodes : ToSet(cleanups'[m]) \subseteq Registered'
      <4>1. ToSet(<<>>) = {}
        BY DEF ToSet
      <4> QED
        BY <1>1, <3>1, <3>2, <4>1 DEF Listed
    <3> QED
      BY <1>1, <2>1, <3>2, <3>3, <3>4, <3>5 DEF Listed
  <2> QED
    BY <1>8, <2>2, <2>3 DEF Ends
<1> QED
  BY <1>1, <1>2, <1>3, <1>4, <1>5, <1>6, <1>7, <1>8 DEF Shape

LEMMA HandlesNext ==
  ASSUME TypeOK, TypeOK', Handles, OwnedExactly, [Next]_vars
  PROVE  Handles'
BY FramesOn, ListedNext DEF Handles, Listed

-----------------------------------------------------------------------------
(* What is being disposed *)

LEMMA TeardownsIn ==
  ASSUME Handles, NEW i \in Teardowns
  PROVE  FrameIn(stack[i], Known, Registered, NotRoots)
BY DEF Handles, FramesIn, Teardowns

LEMMA SameBeing == ASSUME Same PROVE Pending' = Pending /\ Disposing' = Disposing
BY DEF Same, Pending, Disposing

(* A teardown that goes on may have one child less to dispose. *)
LEMMA DropsIs ==
  ASSUME TypeOK, NEW i \in Teardowns, NEW g, NEW n, Drops(stack[i], g, n)
  PROVE  /\ g.node = stack[i].node /\ g.next = stack[i].next /\ g.phase = stack[i].phase
         /\ g.cbs = stack[i].cbs /\ g.below = stack[i].below /\ g.due = stack[i].due
         /\ ToSet(stack[i].children) = {n} \cup ToSet(g.children)
<1>1. /\ stack[i] \in Frame /\ stack[i].children \in Seq(Nodes) /\ stack[i].children # <<>>
      /\ Head(stack[i].children) = n /\ g = Dropped(stack[i])
  BY InTeardowns DEF Drops
<1>2. ToSet(stack[i].children) = {Head(stack[i].children)} \cup ToSet(Tail(stack[i].children))
  BY <1>1, HeadTail
<1> QED
  BY <1>1, <1>2, DroppedIs

(* What is being disposed stays so until it is gone. *)
LEMMA BeingOn ==
  ASSUME TypeOK, Handles, OwnedExactly, Shape
  PROVE  (Pending \cup Disposing) \cap Alive' \subseteq Pending' \cup Disposing'
<1>1. CASE Same
  BY <1>1, SameBeing
<1>2. ASSUME NEW n \in Alive, NEW next \in Nexts, Begins(n, next)
      PROVE  Pending \cup Disposing \subseteq Pending' \cup Disposing'
  <2>1. PICK t \in Nat : Teardowns' = Teardowns \cup {t} /\ stack'[t] = TeardownOf(n, next)
    BY <1>2 DEF Begins
  <2>2. \A i \in Teardowns : stack'[i] = stack[i] \/ (next = "remove" /\ Drops(stack[i], stack'[i], n))
    BY <1>2 DEF Begins
  <2>3. next = "remove" => n \in Disposing'
    <3>1. stack'[t].node = n /\ stack'[t].next = next
      BY <2>1, TeardownFields
    <3> QED
      BY <2>1, <3>1 DEF Disposing
  <2>4. ASSUME NEW i \in Teardowns
        PROVE  /\ i \in Teardowns' /\ stack'[i].node = stack[i].node /\ stack'[i].next = stack[i].next
               /\ ToSet(stack[i].children) \subseteq Disposing' \cup ToSet(stack'[i].children)
    <3>1. CASE stack'[i] = stack[i]
      BY <2>1, <3>1
    <3>2. CASE next = "remove" /\ Drops(stack[i], stack'[i], n)
      <4>1. /\ stack'[i].node = stack[i].node /\ stack'[i].next = stack[i].next
            /\ ToSet(stack[i].children) = {n} \cup ToSet(stack'[i].children)
        BY <3>2, DropsIs
      <4> QED
        BY <2>1, <2>3, <3>2, <4>1
    <3> QED
      BY <2>2, <3>1, <3>2
  <2>5. Disposing \subseteq Disposing'
    BY <2>4 DEF Disposing
  <2>6. Pending \subseteq Disposing' \cup Pending'
    BY <2>4 DEF Pending
  <2> QED
    BY <2>5, <2>6
<1>3. ASSUME NEW n \in Nodes, Skips(n)
      PROVE  (Pending \cup Disposing) \cap Alive' \subseteq Pending' \cup Disposing'
  <2>1. n \notin Alive' /\ Teardowns' = Teardowns
    BY <1>3 DEF Skips, tree, Alive
  <2>2. ASSUME NEW i \in Teardowns
        PROVE  /\ stack'[i].node = stack[i].node /\ stack'[i].next = stack[i].next
               /\ ToSet(stack[i].children) \subseteq {n} \cup ToSet(stack'[i].children)
    <3>1. stack'[i] = stack[i] \/ Drops(stack[i], stack'[i], n)
      BY <1>3 DEF Skips
    <3> QED
      BY <3>1, DropsIs
  <2>3. Disposing \subseteq Disposing'
    BY <2>1, <2>2 DEF Disposing
  <2>4. Pending \subseteq {n} \cup Pending'
    BY <2>1, <2>2 DEF Pending
  <2> QED
    BY <2>1, <2>3, <2>4
<1>4. ASSUME NEW t \in Teardowns, Takes(t) \/ CallsBack(t)
      PROVE  Pending' = Pending /\ Disposing' = Disposing
  <2>1. Teardowns' = Teardowns
    BY <1>4 DEF Takes, CallsBack
  <2>2. \A i \in Teardowns : /\ stack'[i].node = stack[i].node /\ stack'[i].next = stack[i].next
                             /\ stack'[i].children = stack[i].children
    <3>1. stack[t] \in Frame
      BY InTeardowns
    <3>2. /\ stack'[t].node = stack[t].node /\ stack'[t].next = stack[t].next
          /\ stack'[t].children = stack[t].children
      BY <1>4, <3>1, TakingIs, CallingIs DEF Takes, CallsBack
    <3>3. \A i \in Teardowns \ {t} : stack'[i] = stack[i]
      BY <1>4 DEF Takes, CallsBack, Others
    <3> QED
      BY <3>2, <3>3
  <2> QED
    BY <2>1, <2>2 DEF Pending, Disposing
<1>5. ASSUME NEW t \in Teardowns, Ends(t)
      PROVE  (Pending \cup Disposing) \cap Alive' \subseteq Pending' \cup Disposing'
  <2>1. Teardowns' = Teardowns \ {t} /\ \A i \in Teardowns \ {t} : stack'[i] = stack[i]
    BY <1>5 DEF Ends, Others
  <2>2. ToSet(stack[t].children) = {}
    <3>1. stack[t].children = <<>>
      BY <1>5, TeardownsIn DEF Ends, FrameIn
    <3> QED
      BY <3>1 DEF ToSet
  <2>3. stack[t].next = "remove" => stack[t].node \notin Alive'
    <3>1. CASE UNCHANGED tree /\ (stack[t].next = "run" \/ stack[t].node \notin Alive)
      BY <3>1 DEF tree, Alive
    <3>2. CASE stack[t].node \in Alive /\ Removes(stack[t].node)
      BY <3>2, RemovesIs
    <3> QED
      BY <1>5, <3>1, <3>2 DEF Ends
  <2>4. Pending \subseteq Pending'
    BY <2>1, <2>2 DEF Pending
  <2>5. Disposing \cap Alive' \subseteq Disposing'
    BY <2>1, <2>3 DEF Disposing
  <2> QED
    BY <2>4, <2>5
<1> QED
  BY <1>1, <1>2, <1>3, <1>4, <1>5 DEF Shape, Idles, Makes, Registers

LEMMA LateOn == ASSUME Shape PROVE late \subseteq late'
<1>1. ASSUME NEW n, NEW k, NEW o, NewNode(n, k, o)
      PROVE  late \subseteq late'
  BY <1>1 DEF NewNode
<1>2. ASSUME NEW c, NEW n, Register(c, n)
      PROVE  late \subseteq late'
  BY <1>2 DEF Register
<1> QED
  BY <1>1, <1>2 DEF Shape, Idles, Makes, Registers, Begins, Skips, Takes, CallsBack, Ends, history

-----------------------------------------------------------------------------
(* Who lists whom *)

ChildrenOf(n) == {m \in Alive : owner[m] = n}

OwnsExactly(n) ==
  /\ IsInjective(owned[n]) /\ ToSet(owned[n]) \subseteq ChildrenOf(n)
  /\ ChildrenOf(n) \ (Pending \cup Disposing) \subseteq ToSet(owned[n])

LEMMA OwnedIs == OwnedExactly <=> \A n \in Alive : OwnsExactly(n)
BY DEF OwnedExactly, OwnsExactly, ChildrenOf

LEMMA EmptyIs == IsInjective(<<>>) /\ ToSet(<<>>) = {}
BY DEF IsInjective, ToSet

LEMMA OwnedNext ==
  ASSUME TypeOK, Handles, OwnedExactly, Shape
  PROVE  OwnedExactly'
<1> DEFINE Kids(n) == {m \in Alive' : owner'[m] = n}
           Fine(n) == /\ IsInjective(owned'[n]) /\ ToSet(owned'[n]) \subseteq Kids(n)
                      /\ Kids(n) \ (Pending' \cup Disposing') \subseteq ToSet(owned'[n])
<1>1. /\ (Pending \cup Disposing) \cap Alive' \subseteq Pending' \cup Disposing'
      /\ \A n \in Alive : OwnsExactly(n)
      /\ Alive \subseteq Nodes
  BY BeingOn, OwnedIs, BelowAlive
<1>2. SUFFICES \A n \in Alive' : Fine(n)
  BY DEF OwnedExactly
<1>3. ASSUME NEW n \in Alive, NEW G, IsInjective(owned'[n]), ToSet(owned'[n]) = ToSet(owned[n]) \ G,
             Kids(n) = ChildrenOf(n) \ G
      PROVE  Fine(n)
  BY <1>1, <1>3 DEF OwnsExactly
<1>4. ASSUME UNCHANGED <<kind, owner, owned>>, NEW n \in Alive'
      PROVE  Fine(n)
  <2>1. n \in Alive /\ Kids(n) = ChildrenOf(n) \ {} /\ owned'[n] = owned[n]
    BY <1>4 DEF Alive, ChildrenOf
  <2>2. IsInjective(owned'[n]) /\ ToSet(owned'[n]) = ToSet(owned[n]) \ {}
    BY <1>1, <2>1 DEF OwnsExactly
  <2> QED
    BY <1>3, <2>1, <2>2
<1>5. ASSUME NEW x \in Nodes, NEW k \in Kinds, NEW o \in {None, Owner}, Makes(x, k, o), NEW n \in Alive'
      PROVE  Fine(n)
  <2>1. NewNode(x, k, o) /\ o \in Nodes \cup {None} /\ o \in Known \cup {None}
    BY <1>5, OwnerType, OwnerKnown DEF Makes
  <2>2. /\ Alive' = Alive \cup {x} /\ x \notin Alive /\ x \notin gone /\ owner'[x] = o
        /\ \A m \in Nodes \ {x} : owner'[m] = owner[m]
        /\ \A m \in Nodes \ {o} : owned'[m] = owned[m]
        /\ o \in Alive => owned'[o] = Append(owned[o], x)
        /\ o \notin Alive => owned' = owned
    BY <2>1, MakesIs
  <2>3. x \notin Known /\ x # None
    BY <2>2, KindsAreNot DEF Known
  <2>4. CASE n = x
    <3>1. owned[x] = <<>>
      BY <2>2 DEF Handles
    <3>2. Kids(x) = {}
      BY <1>1, <2>1, <2>2, <2>3 DEF Handles
    <3>3. owned'[x] = <<>>
      BY <2>1, <2>2, <2>3, <3>1
    <3> QED
      BY <2>4, <3>2, <3>3, EmptyIs
  <2>5. CASE n # x /\ n # o
    <3>1. n \in Alive /\ n \in Nodes /\ owned'[n] = owned[n] /\ Kids(n) = ChildrenOf(n) \ {}
      BY <1>1, <2>2, <2>5 DEF ChildrenOf
    <3>2. IsInjective(owned'[n]) /\ ToSet(owned'[n]) = ToSet(owned[n]) \ {}
      BY <1>1, <3>1 DEF OwnsExactly
    <3> QED
      BY <1>3, <3>1, <3>2
  <2>6. CASE n # x /\ n = o
    <3>1. n \in Alive /\ n \in Nodes /\ owned'[n] = Append(owned[n], x)
          /\ Kids(n) = ChildrenOf(n) \cup {x}
      BY <1>1, <2>2, <2>6 DEF ChildrenOf
    <3>2. owned[n] \in Seq(Nodes) /\ OwnsExactly(n) /\ x \notin ToSet(owned[n])
      <4>1. owned[n] \in Seq(Alive)
        BY <3>1 DEF TypeOK
      <4>2. ToSet(owned[n]) \subseteq Alive
        BY <4>1, ToSetType
      <4> QED
        BY <1>1, <2>2, <3>1, <4>1, <4>2, SeqOfSet
    <3>3. IsInjective(owned'[n]) /\ ToSet(owned'[n]) = ToSet(owned[n]) \cup {x}
      <4>1. IsInjective(owned[n])
        BY <3>2 DEF OwnsExactly
      <4> QED
        BY <3>1, <3>2, <4>1, AppendIs
    <3>4. ChildrenOf(n) \subseteq Alive'
      BY <2>2 DEF ChildrenOf
    <3> QED
      BY <1>1, <3>1, <3>2, <3>3, <3>4 DEF OwnsExactly
  <2> QED
    BY <2>4, <2>5, <2>6
<1>6. ASSUME NEW x \in Alive, NEW next \in Nexts, Begins(x, next), NEW n \in Alive'
      PROVE  Fine(n)
  <2>1. TakeChildren(x) /\ UNCHANGED <<kind, owner>>
    BY <1>6 DEF Begins
  <2>2. /\ n \in Alive /\ x \in Nodes /\ Alive' = Alive /\ Kids(n) = ChildrenOf(n)
        /\ owned'[n] = IF n = x THEN <<>> ELSE owned[n]
    BY <1>1, <2>1 DEF Alive, ChildrenOf, TakeChildren, TypeOK
  <2>3. CASE n = x
    <3>1. ToSet(owned[x]) \subseteq Pending'
      <4>1. PICK t \in Nat : Teardowns' = Teardowns \cup {t} /\ stack'[t] = TeardownOf(x, next)
        BY <1>6 DEF Begins
      <4>2. stack'[t].children = owned[x]
        BY <4>1, TeardownFields
      <4> QED
        BY <4>1, <4>2 DEF Pending
    <3>2. ChildrenOf(x) \subseteq Pending' \cup Disposing'
      <4>1. ChildrenOf(x) \subseteq Alive'
        BY <2>2 DEF ChildrenOf
      <4> QED
        BY <1>1, <3>1, <4>1 DEF OwnsExactly
    <3> QED
      BY <2>2, <2>3, <3>2, EmptyIs
  <2>4. CASE n # x
    <3>1. /\ IsInjective(owned'[n]) /\ ToSet(owned'[n]) = ToSet(owned[n]) \ {}
          /\ Kids(n) = ChildrenOf(n) \ {}
      BY <1>1, <2>2, <2>4 DEF OwnsExactly
    <3> QED
      BY <1>3, <2>2, <3>1
  <2> QED
    BY <2>3, <2>4
<1>7. ASSUME NEW t \in Teardowns, Ends(t), NEW n \in Alive'
      PROVE  Fine(n)
  <2>1. CASE UNCHANGED tree
    BY <1>4, <2>1 DEF tree
  <2>2. CASE stack[t].node \in Alive /\ Removes(stack[t].node)
    <3> DEFINE x == stack[t].node
    <3>1. /\ Alive' = Alive \ {x} /\ \A m \in Nodes \ {x} : owner'[m] = owner[m]
          /\ \A m \in Alive \ {x} : IsInjective(owned'[m]) /\ ToSet(owned'[m]) = ToSet(owned[m]) \ {x}
      BY <2>2, RemovesIs
    <3> HIDE DEF x
    <3>2. n \in Alive \ {x} /\ Kids(n) = ChildrenOf(n) \ {x}
      BY <1>1, <3>1 DEF ChildrenOf
    <3> QED
      BY <1>3, <3>1, <3>2
  <2> QED
    BY <1>7, <2>1, <2>2 DEF Ends
<1>8. ASSUME UNCHANGED tree
      PROVE  \A n \in Alive' : Fine(n)
  BY <1>4, <1>8 DEF tree
<1> HIDE DEF Fine
<1>9. CASE Idles \/ \E n \in Nodes : Skips(n)
  BY <1>8, <1>9 DEF Idles, Skips
<1>10. CASE \E c \in Callbacks, n \in Alive : Registers(c, n)
  BY <1>4, <1>10 DEF Registers, Register
<1>11. CASE \E t \in Teardowns : Takes(t) \/ CallsBack(t)
  BY <1>4, <1>11 DEF Takes, CallsBack, tree
<1> QED
  BY <1>5, <1>6, <1>7, <1>9, <1>10, <1>11 DEF Shape

(* What a teardown is for does not change while it is active. *)
LEMMA TeardownsOn ==
  ASSUME TypeOK, Shape, NEW i \in Teardowns, i \in Teardowns'
  PROVE  /\ stack'[i].node = stack[i].node /\ stack'[i].next = stack[i].next
         /\ stack'[i].below = stack[i].below /\ stack'[i].due = stack[i].due
         /\ stack'[i].phase = "children" => stack[i].phase = "children"
<1>1. stack[i] \in Frame
  BY InTeardowns
<1>2. CASE stack'[i] = stack[i]
  BY <1>2
<1>3. CASE \E n : Drops(stack[i], stack'[i], n)
  BY <1>3, DropsIs
<1>4. CASE \E t \in Teardowns : Takes(t) \/ CallsBack(t)
  <2>1. PICK t \in Teardowns : Takes(t) \/ CallsBack(t)
    BY <1>4
  <2>2. CASE i = t
    BY <1>1, <2>1, <2>2, TakingIs, CallingIs DEF Takes, CallsBack
  <2>3. CASE i # t
    BY <2>1, <2>3 DEF Takes, CallsBack, Others
  <2> QED
    BY <2>2, <2>3
<1>5. CASE \E t \in Teardowns : Ends(t)
  BY <1>5 DEF Ends, Others
<1> QED
  BY <1>2, <1>3, <1>4, <1>5 DEF Shape, Idles, Makes, Registers, Same, Begins, Skips

(* The teardowns that a step starts. *)
LEMMA NewTeardown ==
  ASSUME TypeOK, Shape, NEW i \in Teardowns', i \notin Teardowns
  PROVE  \E n \in Alive, next \in Nexts : Begins(n, next) /\ stack'[i] = TeardownOf(n, next)
BY DEF Shape, Idles, Makes, Registers, Same, Begins, Skips, Takes, CallsBack, Ends

LEMMA LateChildrenNext ==
  ASSUME TypeOK, Handles, OwnedExactly, LateChildren, Shape
  PROVE  LateChildren'
<1>1. late \subseteq late' /\ Alive \subseteq Nodes
  BY LateOn, BelowAlive
<1> SUFFICES ASSUME NEW i \in Teardowns', stack'[i].next = "remove"
             PROVE  ToSet(owned'[stack'[i].node]) \subseteq late'
  BY DEF LateChildren
<1>2. CASE i \notin Teardowns
  <2>1. PICK n \in Alive, next \in Nexts : Begins(n, next) /\ stack'[i] = TeardownOf(n, next)
    BY <1>2, NewTeardown
  <2>2. stack'[i].node = n
    BY <2>1, TeardownFields
  <2>3. owned'[n] = <<>>
    BY <1>1, <2>1 DEF Begins, TakeChildren, TypeOK
  <2> QED
    BY <2>2, <2>3, EmptyIs
<1>3. CASE i \in Teardowns
  <2> DEFINE n == stack[i].node
  <2>1. stack'[i].node = n /\ stack[i].next = "remove"
    BY <1>3, TeardownsOn
  <2>2. n \in Nodes /\ ToSet(owned[n]) \subseteq late /\ stack[i].op = "teardown" /\ i \in DOMAIN stack
    BY <1>3, <2>1, InTeardowns DEF LateChildren, Teardowns
  <2>3. Ending(n)
    BY <2>1, <2>2 DEF Ending
  <2> HIDE DEF n
  <2>4. ASSUME NEW x \in Nodes, NEW k \in Kinds, NEW o \in {None, Owner}, Makes(x, k, o)
        PROVE  ToSet(owned'[n]) \subseteq late'
    <3>1. NewNode(x, k, o) /\ o \in Nodes \cup {None}
      BY <2>4, OwnerType DEF Makes
    <3>2. /\ \A m \in Nodes \ {o} : owned'[m] = owned[m]
          /\ o \in Alive => owned'[o] = Append(owned[o], x)
          /\ o \notin Alive => owned' = owned
      BY <3>1, MakesIs
    <3>3. n = o => late' = late \cup {x}
      BY <2>2, <2>3, <3>1, KindsAreNot DEF NewNode
    <3>4. CASE n = o /\ o \in Alive
      <4>1. owned[n] \in Seq(Nodes)
        <5>1. owned[n] \in Seq(Alive)
          BY <2>2 DEF TypeOK
        <5>2. ToSet(owned[n]) \subseteq Nodes
          BY <1>1, <5>1, ToSetType
        <5> QED
          BY <5>1, <5>2, SeqOfSet
      <4>2. ToSet(Append(owned[n], x)) = ToSet(owned[n]) \cup {x}
        BY <4>1, AppendIs
      <4> QED
        BY <2>2, <3>2, <3>3, <3>4, <4>2
    <3>5. CASE ~(n = o /\ o \in Alive)
      <4>1. owned'[n] = owned[n]
        BY <2>2, <3>2, <3>5
      <4> QED
        BY <1>1, <2>2, <4>1
    <3> QED
      BY <3>4, <3>5
  <2>5. ASSUME NEW x \in Alive, NEW next \in Nexts, Begins(x, next)
        PROVE  ToSet(owned'[n]) \subseteq late'
    <3>1. owned'[n] = <<>> \/ owned'[n] = owned[n]
      BY <1>1, <2>2, <2>5 DEF Begins, TakeChildren, TypeOK
    <3> QED
      BY <1>1, <2>2, <3>1, EmptyIs
  <2>6. ASSUME NEW t \in Teardowns, Ends(t), ~UNCHANGED tree
        PROVE  ToSet(owned'[n]) \subseteq late'
    <3>1. PICK x \in Alive : Removes(x)
      BY <2>6 DEF Ends
    <3>2. /\ owned'[x] = <<>>
          /\ \A m \in Alive \ {x} : ToSet(owned'[m]) = ToSet(owned[m]) \ {x}
          /\ \A m \in Nodes \ Alive : owned[m] = <<>> => owned'[m] = <<>>
      BY <3>1, RemovesIs
    <3>3. ToSet(owned'[n]) \subseteq ToSet(owned[n])
      BY <2>2, <3>2, EmptyIs DEF Handles
    <3> QED
      BY <1>1, <2>2, <3>3
  <2>7. owned' = owned => ToSet(owned'[n]) \subseteq late'
    BY <1>1, <2>2
  <2>8. (\E t \in Teardowns : Ends(t)) => ToSet(owned'[n]) \subseteq late'
    BY <2>6, <2>7 DEF tree
  <2>10. (\E c \in Callbacks, m \in Alive : Registers(c, m)) => owned' = owned
    BY DEF Registers, Register
  <2>11. (\E t \in Teardowns : Takes(t) \/ CallsBack(t)) => owned' = owned
    BY DEF Takes, CallsBack, tree
  <2>12. Idles \/ (\E m \in Nodes : Skips(m)) => owned' = owned
    BY DEF Idles, Skips, tree
  <2>13. ToSet(owned'[n]) \subseteq late'
    BY <2>4, <2>5, <2>7, <2>8, <2>10, <2>11, <2>12 DEF Shape
  <2> QED
    BY <2>1, <2>13
<1> QED
  BY <1>2, <1>3

LEMMA NoOrphansNext ==
  ASSUME TypeOK, Handles, OwnedExactly, LateChildren, NoOrphans, Shape
  PROVE  NoOrphans'
<1>1. /\ late \subseteq late' /\ Alive \subseteq Nodes
      /\ (Pending \cup Disposing) \cap Alive' \subseteq Pending' \cup Disposing'
  BY LateOn, BelowAlive, BeingOn
<1> SUFFICES ASSUME NEW m \in Alive', owner'[m] # None, owner'[m] \notin Alive'
             PROVE  m \in Pending' \cup Disposing' \cup late'
  BY DEF NoOrphans
<1>2. ASSUME m \in Alive, owner[m] # None, owner[m] \notin Alive
      PROVE  m \in Pending' \cup Disposing' \cup late'
  BY <1>1, <1>2 DEF NoOrphans
<1>3. CASE kind' = kind /\ owner' = owner
  BY <1>2, <1>3 DEF Alive
<1>4. CASE \E x \in Nodes, k \in Kinds, o \in {None, Owner} : Makes(x, k, o)
  <2>1. PICK x \in Nodes, k \in Kinds, o \in {None, Owner} : NewNode(x, k, o)
    BY <1>4 DEF Makes
  <2>2. o \in Nodes \cup {None}
    BY <2>1, OwnerType
  <2>3. /\ Alive' = Alive \cup {x} /\ owner'[x] = o /\ \A n \in Nodes \ {x} : owner'[n] = owner[n]
    BY <2>1, <2>2, MakesIs
  <2>4. CASE m = x
    <3>1. Ending(o) /\ o # None
      BY <2>3, <2>4 DEF Ending
    <3> QED
      BY <2>1, <2>4, <3>1 DEF NewNode
  <2>5. CASE m # x
    BY <1>1, <1>2, <2>3, <2>5
  <2> QED
    BY <2>4, <2>5
<1>5. CASE \E t \in Teardowns : Ends(t)
  <2>1. PICK t \in Teardowns : Ends(t)
    BY <1>5
  <2>2. CASE UNCHANGED tree
    BY <1>3, <2>2 DEF tree
  <2>3. CASE stack[t].next = "remove" /\ stack[t].node \in Alive /\ Removes(stack[t].node)
    <3> DEFINE x == stack[t].node
    <3>1. Alive' = Alive \ {x} /\ \A n \in Nodes \ {x} : owner'[n] = owner[n]
      BY <2>3, RemovesIs
    <3>2. ToSet(owned[x]) \subseteq late
      BY <2>3 DEF LateChildren
    <3>3. OwnsExactly(x)
      BY <2>3, OwnedIs
    <3> HIDE DEF x
    <3>4. CASE owner[m] = x
      BY <1>1, <3>1, <3>2, <3>3, <3>4 DEF OwnsExactly, ChildrenOf
    <3>5. CASE owner[m] # x
      BY <1>1, <1>2, <3>1, <3>5
    <3> QED
      BY <3>4, <3>5
  <2> QED
    BY <2>1, <2>2, <2>3 DEF Ends
<1>6. CASE \E c \in Callbacks, n \in Alive : Registers(c, n)
  BY <1>3, <1>6 DEF Registers, Register
<1>7. CASE \E t \in Teardowns : Takes(t) \/ CallsBack(t)
  BY <1>3, <1>7 DEF Takes, CallsBack, tree
<1>8. CASE Idles \/ \E n \in Nodes : Skips(n)
  BY <1>3, <1>8 DEF Idles, Skips, tree
<1>9. CASE \E n \in Alive, next \in Nexts : Begins(n, next)
  BY <1>3, <1>9 DEF Begins
<1> QED
  BY <1>4, <1>5, <1>6, <1>7, <1>8, <1>9 DEF Shape

-----------------------------------------------------------------------------
(* The invariant of the tree *)

Tree == TypeOK /\ Handles /\ OwnedExactly /\ LateChildren /\ NoOrphans

LEMMA TreeInit == Init => Tree
<1> SUFFICES ASSUME Init
             PROVE  Tree
  OBVIOUS
<1>1. Alive = {}
  BY DEF Init, Alive
<1>2. TypeOK
  <2>1. <<>> \in Seq(Alive) /\ <<>> \in Seq(Callbacks) /\ <<>> \in Seq(Frame)
    OBVIOUS
  <2>2. calls \in Nat
    BY OwnershipAssumption DEF Init
  <2> QED
    BY <1>1, <2>1, <2>2 DEF Init, TypeOK
<1>3. DOMAIN stack = {}
  BY DEF Init
<1>4. Handles
  BY <1>1, <1>3, EmptyIs DEF Init, Handles, FramesIn
<1>5. Teardowns = {}
  BY <1>3 DEF Teardowns
<1> QED
  BY <1>1, <1>2, <1>4, <1>5 DEF Tree, OwnedExactly, LateChildren, NoOrphans

LEMMA TreeNext == Tree /\ [Next]_vars => Tree'
<1> SUFFICES ASSUME Tree, [Next]_vars
             PROVE  Tree'
  OBVIOUS
<1>1. TypeOK /\ Handles /\ OwnedExactly /\ LateChildren /\ NoOrphans
  BY DEF Tree
<1>2. TypeOK' /\ Shape
  BY <1>1, TypeNext, Shapes
<1>3. Handles'
  BY <1>1, <1>2, HandlesNext
<1>4. OwnedExactly' /\ LateChildren' /\ NoOrphans'
  BY <1>1, <1>2, OwnedNext, LateChildrenNext, NoOrphansNext
<1> QED
  BY <1>2, <1>3, <1>4 DEF Tree

LEMMA TreeHolds == Spec => []Tree
BY TreeInit, TreeNext, PTL DEF Spec

(* Every variable keeps its type. *)
THEOREM TypeCorrect == Spec => []TypeOK
<1>1. Tree => TypeOK
  BY DEF Tree
<1> QED
  BY <1>1, TreeHolds, PTL

(* new_node puts a node into the list of its owner, run_owner_teardown     *)
(* takes the list, and dispose_node takes the node out of it: whatever the *)
(* callbacks in between do, a list names the children that no teardown has *)
(* taken, once each, and no node that is gone or owned by another.         *)
THEOREM ListsAreExact == Spec => []OwnedExactly
<1>1. Tree => OwnedExactly
  BY DEF Tree
<1> QED
  BY <1>1, TreeHolds, PTL

(* dispose_node removes a node only when its children are gone or about to *)
(* be, except for those that were created in it after its teardown had     *)
(* taken the children.                                                     *)
THEOREM OrphansAreLate == Spec => []NoOrphans
<1>1. Tree => NoOrphans
  BY DEF Tree
<1> QED
  BY <1>1, TreeHolds, PTL

-----------------------------------------------------------------------------
(* What is doomed *)

(* Below(n) is the least set that is closed under ownership. *)
LEMMA BelowLeast ==
  ASSUME NEW n, NEW A \in SUBSET Alive,
         \A m \in Alive : owner[m] = n \/ owner[m] \in A => m \in A
  PROVE  Below(n) \subseteq A
BY DEF Below

LEMMA BelowStep ==
  ASSUME NEW n, NEW m \in Alive, owner[m] = n \/ owner[m] \in Below(n)
  PROVE  m \in Below(n)
<1> SUFFICES ASSUME NEW A \in SUBSET Alive,
                    {k \in Alive : owner[k] \in {n}} \cup {k \in Alive : owner[k] \in A} \subseteq A
             PROVE  m \in A
  BY DEF Below
<1>1. Below(n) \subseteq A
  BY BelowLeast
<1> QED
  BY <1>1

LEMMA GoingIs ==
  /\ Pending \cup Disposing \cup late \subseteq Going
  /\ \A p \in Pending : Below(p) \subseteq Going
  /\ \A p \in late \cap Alive : Below(p) \subseteq Going
BY DEF Going, Doomed, Late

(* What a doomed node or one that is gone owns is doomed. *)
LEMMA ClosedHolds == Tree => Closed
<1> SUFFICES ASSUME Tree, NEW m \in Alive, owner[m] # None,
                    owner[m] \notin Alive \/ owner[m] \in Going
             PROVE  m \in Going
  BY DEF Closed
<1>1. CASE owner[m] \notin Alive
  BY <1>1, GoingIs DEF Tree, NoOrphans
<1> DEFINE q == owner[m]
<1>2. CASE q \in Alive /\ q \in Going
  <2>1. CASE q \in Pending \/ q \in late
    <3>1. m \in Below(q)
      BY BelowStep
    <3> QED
      BY <1>2, <2>1, <3>1, GoingIs
  <2>2. CASE q \in Disposing
    <3>1. PICK i \in Teardowns : stack[i].next = "remove" /\ stack[i].node = q
      BY <2>2 DEF Disposing
    <3>2. ToSet(owned[q]) \subseteq late
      BY <3>1 DEF Tree, LateChildren
    <3>3. OwnsExactly(q)
      BY <1>2, OwnedIs DEF Tree
    <3>4. m \in Pending \cup Disposing \cup late
      BY <3>2, <3>3 DEF OwnsExactly, ChildrenOf
    <3> QED
      BY <3>4, GoingIs
  <2>3. CASE \E p \in Pending \cup (late \cap Alive) : q \in Below(p)
    <3>1. PICK p \in Pending \cup (late \cap Alive) : q \in Below(p)
      BY <2>3
    <3>2. m \in Below(p)
      BY <3>1, BelowStep
    <3> QED
      BY <3>1, <3>2, GoingIs
  <2>4. q \in Pending \cup late \cup Disposing \/ \E p \in Pending \cup (late \cap Alive) : q \in Below(p)
    BY <1>2 DEF Going, Doomed, Late
  <2> QED
    BY <2>1, <2>2, <2>3, <2>4
<1> QED
  BY <1>1, <1>2

(* Owners stay, and handles are not issued again. *)
LEMMA OwnersOn ==
  ASSUME TypeOK, Handles, OwnedExactly, Shape
  PROVE  /\ \A m \in Alive : m \in Alive' => owner'[m] = owner[m]
         /\ Alive' \cap Known \subseteq Alive
<1>1. Alive \subseteq Nodes /\ gone \cap Alive = {}
  BY BelowAlive DEF TypeOK
<1>2. CASE kind' = kind /\ owner' = owner
  BY <1>2 DEF Alive
<1>3. CASE \E x \in Nodes, k \in Kinds, o \in {None, Owner} : Makes(x, k, o)
  <2>1. PICK x \in Nodes, k \in Kinds, o \in {None, Owner} : NewNode(x, k, o)
    BY <1>3 DEF Makes
  <2>2. o \in Nodes \cup {None}
    BY <2>1, OwnerType
  <2>3. /\ Alive' = Alive \cup {x} /\ x \notin Alive /\ x \notin gone
        /\ \A n \in Nodes \ {x} : owner'[n] = owner[n]
    BY <2>1, <2>2, MakesIs
  <2> QED
    BY <1>1, <2>3 DEF Known
<1>4. CASE \E t \in Teardowns : Ends(t)
  <2>1. PICK t \in Teardowns : Ends(t)
    BY <1>4
  <2>2. CASE UNCHANGED tree
    BY <1>2, <2>2 DEF tree
  <2>3. CASE stack[t].node \in Alive /\ Removes(stack[t].node)
    <3> DEFINE x == stack[t].node
    <3>1. Alive' = Alive \ {x} /\ \A n \in Nodes \ {x} : owner'[n] = owner[n]
      BY <2>3, RemovesIs
    <3> HIDE DEF x
    <3> QED
      BY <1>1, <3>1
  <2> QED
    BY <2>1, <2>2, <2>3 DEF Ends
<1>5. CASE \E c \in Callbacks, n \in Alive : Registers(c, n)
  BY <1>2, <1>5 DEF Registers, Register
<1>6. CASE \E t \in Teardowns : Takes(t) \/ CallsBack(t)
  BY <1>2, <1>6 DEF Takes, CallsBack, tree
<1>7. CASE Idles \/ \E n \in Nodes : Skips(n)
  BY <1>2, <1>7 DEF Idles, Skips, tree
<1>8. CASE \E n \in Alive, next \in Nexts : Begins(n, next)
  BY <1>2, <1>8 DEF Begins
<1> QED
  BY <1>3, <1>4, <1>5, <1>6, <1>7, <1>8 DEF Shape

(* Once doomed, a node is doomed until it is gone. *)
LEMMA GoingOn ==
  ASSUME Tree, Closed', Shape
  PROVE  Going \cap Alive' \subseteq Going'
<1> DEFINE A == {m \in Alive : m \in Alive' => m \in Going'}
<1>1. /\ (Pending \cup Disposing) \cap Alive' \subseteq Pending' \cup Disposing'
      /\ late \subseteq late' /\ \A m \in Alive : m \in Alive' => owner'[m] = owner[m]
      /\ Alive \subseteq Nodes /\ None \notin Nodes
  BY BeingOn, LateOn, OwnersOn, BelowAlive, KindsAreNot DEF Tree
<1>2. Pending' \cup Disposing' \cup late' \subseteq Going'
  BY DEF Going, Doomed, Late
<1>3. ASSUME NEW p \in Nodes, p \in Alive' => p \in Going'
      PROVE  Below(p) \subseteq A
  <2>1. ASSUME NEW m \in Alive, owner[m] = p \/ owner[m] \in A
        PROVE  m \in A
    <3>1. owner[m] # None /\ (owner[m] \notin Alive' \/ owner[m] \in Going')
      BY <1>1, <1>3, <2>1
    <3> QED
      BY <1>1, <3>1 DEF Closed
  <2> HIDE DEF A
  <2>2. A \in SUBSET Alive
    BY DEF A
  <2> QED
    BY <2>1, <2>2, BelowLeast
<1>4. \A p \in Pending \cup (late \cap Alive) : p \in Nodes /\ (p \in Alive' => p \in Going')
  <2>1. Pending \subseteq Nodes
    <3>1. \A i \in Teardowns : ToSet(stack[i].children) \subseteq Nodes
      BY InTeardowns, ToSetType DEF Tree
    <3> QED
      BY <3>1 DEF Pending
  <2> QED
    BY <1>1, <1>2, <2>1
<1>5. ASSUME NEW m \in Going, m \in Alive'
      PROVE  m \in Going'
  <2>1. CASE m \in Pending \cup Disposing \cup late
    BY <1>1, <1>2, <1>5, <2>1
  <2>2. CASE \E p \in Pending \cup (late \cap Alive) : m \in Below(p)
    <3>1. PICK p \in Pending \cup (late \cap Alive) : m \in Below(p)
      BY <2>2
    <3>2. Below(p) \subseteq A
      BY <1>3, <1>4
    <3> QED
      BY <1>5, <3>1, <3>2
  <2> QED
    BY <2>1, <2>2 DEF Going, Doomed, Late
<1> QED
  BY <1>5

LEMMA GoingBelowNext ==
  ASSUME Tree, OwnedExactly', Closed', GoingBelow, Shape
  PROVE  GoingBelow'
<1>1. /\ Going \cap Alive' \subseteq Going' /\ Alive' \cap Known \subseteq Alive
      /\ TypeOK /\ Handles
  BY GoingOn, OwnersOn DEF Tree
<1> SUFFICES ASSUME NEW i \in Teardowns'
             PROVE  stack'[i].below \cap Alive' \subseteq Going'
  BY DEF GoingBelow
<1>2. CASE i \in Teardowns
  <2>1. stack'[i].below = stack[i].below
    BY <1>1, <1>2, TeardownsOn
  <2>2. stack[i].below \subseteq Known /\ stack[i].below \cap Alive \subseteq Going
    BY <1>1, <1>2, TeardownsIn DEF FrameIn, GoingBelow
  <2> QED
    BY <1>1, <2>1, <2>2
<1>3. CASE i \notin Teardowns
  <2>1. PICK n \in Alive, next \in Nexts : Begins(n, next) /\ stack'[i] = TeardownOf(n, next)
    BY <1>1, <1>3, NewTeardown
  <2>2. stack'[i].below = Below(n)
    BY <2>1, TeardownFields
  <2>3. kind' = kind /\ owner' = owner /\ owned' = [owned EXCEPT ![n] = <<>>]
    BY <2>1 DEF Begins, TakeChildren
  <2>4. Alive' = Alive /\ n \in Nodes /\ owned'[n] = <<>> /\ None \notin Alive
    BY <1>1, <2>3, BelowAlive, KindsAreNot DEF Alive, TypeOK
  <2>5. \A m \in Alive : owner[m] = n => m \in Pending' \cup Disposing'
    BY <2>3, <2>4, EmptyIs DEF OwnedExactly
  <2>6. Pending' \cup Disposing' \subseteq Going'
    BY DEF Going, Doomed
  <2> DEFINE A == Alive \cap Going'
  <2>7. ASSUME NEW m \in Alive, owner[m] = n \/ owner[m] \in A
        PROVE  m \in A
    <3>1. CASE owner[m] = n
      BY <2>5, <2>6, <3>1
    <3>2. CASE owner[m] \in A
      <4>1. owner'[m] # None /\ owner'[m] \in Going' /\ m \in Alive'
        BY <2>3, <2>4, <3>2
      <4> QED
        BY <4>1 DEF Closed
    <3> QED
      BY <2>7, <3>1, <3>2
  <2>8. A \in SUBSET Alive
    OBVIOUS
  <2> HIDE DEF A
  <2>9. Below(n) \subseteq A
    BY <2>7, <2>8, BelowLeast
  <2> QED
    BY <2>2, <2>9 DEF A
<1> QED
  BY <1>2, <1>3

LEMMA GoingBelowHolds == Spec => []GoingBelow
<1>1. Init => GoingBelow
  <2>1. Init => Teardowns = {}
    BY DEF Init, Teardowns
  <2> QED
    BY <2>1 DEF GoingBelow
<1>2. Tree /\ Tree' /\ Closed' /\ GoingBelow /\ [Next]_vars => GoingBelow'
  <2> SUFFICES ASSUME Tree, Tree', Closed', GoingBelow, [Next]_vars
               PROVE  GoingBelow'
    OBVIOUS
  <2>1. TypeOK /\ OwnedExactly'
    BY DEF Tree
  <2>2. Shape
    BY <2>1, Shapes
  <2> QED
    BY <2>1, <2>2, GoingBelowNext
<1> QED
  BY <1>1, <1>2, TreeHolds, ClosedHolds, PTL DEF Spec

(* run_owner_teardown disposes what it has taken before it calls the       *)
(* callbacks of the node: by then all that was below it is gone, or its    *)
(* disposal is certain, whatever the callbacks of the children have done.  *)
THEOREM ChildrenGoFirst == Spec => []ChildrenFirst
<1>1. GoingBelow => ChildrenFirst
  BY DEF GoingBelow, ChildrenFirst, Going
<1> QED
  BY <1>1, GoingBelowHolds, PTL

-----------------------------------------------------------------------------
(* Where callbacks wait *)

(* The callbacks that wait in a node, and those in the hands of a teardown. *)
Kept(n) == ToSet(cleanups[n])
Left(i) == ToSet(stack[i].cbs)

(* A list names a callback once, no two lists name the same, and none that *)
(* has been called.                                                        *)
Distinct ==
  /\ \A n \in Nodes : IsInjective(cleanups[n])
  /\ \A i \in Teardowns : IsInjective(stack[i].cbs)

Apart ==
  /\ \A n, m \in Nodes : n # m => Kept(n) \cap Kept(m) = {}
  /\ \A n \in Nodes : \A i \in Teardowns : Kept(n) \cap Left(i) = {}
  /\ \A i, k \in Teardowns : i # k => Left(i) \cap Left(k) = {}
  /\ \A n \in Nodes : Kept(n) \cap ran = {}
  /\ \A i \in Teardowns : Left(i) \cap ran = {}

(* A callback that was registered waits, has been called, or came too late. *)
Accounted(c) == c \in ran \cup late \/ (\E n \in Nodes : c \in Kept(n)) \/ (\E i \in Teardowns : c \in Left(i))
Remembered == \A c \in Registered : Accounted(c)

LEMMA ContainsIs ==
  ASSUME NEW S, NEW s \in Seq(S), NEW e
  PROVE  Contains(s, e) <=> e \in ToSet(s)
<1>1. DOMAIN s = 1 .. Len(s)
  OBVIOUS
<1> QED
  BY <1>1 DEF Contains, ToSet

LEMMA PlacesAre ==
  ASSUME Tree, NEW c
  PROVE  /\ InNode(c) = {n \in Nodes : c \in Kept(n)}
         /\ InTeardown(c) = {i \in Teardowns : c \in Left(i)}
<1>1. \A n \in Nodes : cleanups[n] \in Seq(Callbacks) /\ (n \notin Alive => cleanups[n] = <<>>)
  BY DEF Tree, TypeOK, Handles
<1>2. \A i \in Teardowns : stack[i].cbs \in Seq(Callbacks)
  BY InTeardowns DEF Tree
<1>3. \A n \in Nodes : Contains(cleanups[n], c) <=> c \in Kept(n)
  BY <1>1, ContainsIs DEF Kept
<1>4. \A i \in Teardowns : Contains(stack[i].cbs, c) <=> c \in Left(i)
  BY <1>2, ContainsIs DEF Left
<1>5. \A n \in Nodes : n \notin Alive => c \notin Kept(n)
  BY <1>1, EmptyIs DEF Kept
<1>6. InNode(c) = {n \in Nodes : c \in Kept(n)}
  BY <1>3, <1>5, BelowAlive DEF InNode
<1>7. InTeardown(c) = {i \in Teardowns : c \in Left(i)}
  BY <1>4 DEF InTeardown
<1> QED
  BY <1>6, <1>7

(* Steps that leave the callbacks where they are. *)
Quiet ==
  /\ UNCHANGED <<cleanups, home, ran, atEnd>> /\ Teardowns \subseteq Teardowns'
  /\ \A n \in Known : kind'[n] = kind[n]
  /\ \A i \in Teardowns : stack'[i].cbs = stack[i].cbs /\ stack'[i].phase = stack[i].phase
  /\ \A i \in Teardowns' \ Teardowns : /\ stack'[i].cbs = <<>> /\ stack'[i].phase = "children"
                                       /\ i \in Nat /\ \A k \in Teardowns : k < i

LEMMA QuietIs ==
  ASSUME TypeOK, Shape
  PROVE  \/ Quiet
         \/ \E c \in Callbacks, n \in Alive : Registers(c, n)
         \/ \E t \in Teardowns : Takes(t) \/ CallsBack(t) \/ Ends(t)
<1>1. CASE Idles
  <2>1. Same /\ UNCHANGED <<cleanups, home, ran, atEnd, kind>>
    BY <1>1 DEF Idles, tree, history
  <2> QED
    BY <2>1 DEF Same, Quiet
<1>2. CASE \E n \in Nodes, k \in Kinds, o \in {None, Owner} : Makes(n, k, o)
  <2>1. PICK n \in Nodes, k \in Kinds, o \in {None, Owner} : NewNode(n, k, o) /\ Same
    BY <1>2 DEF Makes
  <2>2. o \in Nodes \cup {None}
    BY <2>1, OwnerType
  <2>3. \A m \in Known : kind'[m] = kind[m]
    BY <2>1, <2>2, MakesIs, KnownType DEF Known
  <2> QED
    BY <2>1, <2>3 DEF Same, Quiet, NewNode
<1>3. CASE \E n \in Alive, next \in Nexts : Begins(n, next)
  <2>1. PICK n \in Alive, next \in Nexts : Begins(n, next)
    BY <1>3
  <2>2. /\ UNCHANGED <<cleanups, home, ran, atEnd, kind>>
        /\ \A i \in Teardowns : stack'[i] = stack[i] \/ Drops(stack[i], stack'[i], n)
    BY <2>1 DEF Begins, history
  <2>3. PICK t \in Nat : /\ Teardowns' = Teardowns \cup {t} /\ \A i \in Teardowns : i < t
                         /\ stack'[t] = TeardownOf(n, next)
    BY <2>1 DEF Begins
  <2>4. stack'[t].cbs = <<>> /\ stack'[t].phase = "children"
    BY <2>3, TeardownFields
  <2>5. \A i \in Teardowns : stack'[i].cbs = stack[i].cbs /\ stack'[i].phase = stack[i].phase
    BY <2>2, DropsIs
  <2> QED
    BY <2>2, <2>3, <2>4, <2>5 DEF Quiet
<1>4. CASE \E n \in Nodes : Skips(n)
  <2>1. PICK n \in Nodes : Skips(n)
    BY <1>4
  <2>2. /\ UNCHANGED <<cleanups, home, ran, atEnd, kind>> /\ Teardowns' = Teardowns
        /\ \A i \in Teardowns : stack'[i] = stack[i] \/ Drops(stack[i], stack'[i], n)
    BY <2>1 DEF Skips, tree, history
  <2>3. \A i \in Teardowns : stack'[i].cbs = stack[i].cbs /\ stack'[i].phase = stack[i].phase
    BY <2>2, DropsIs
  <2> QED
    BY <2>2, <2>3 DEF Quiet
<1> QED
  BY <1>1, <1>2, <1>3, <1>4 DEF Shape

LEMMA QuietPlaces ==
  ASSUME Quiet
  PROVE  /\ \A n : Kept(n)' = Kept(n) /\ \A i \in Teardowns : Left(i)' = Left(i)
         /\ \A i \in Teardowns' \ Teardowns : Left(i)' = {}
BY EmptyIs DEF Quiet, Kept, Left


(* Registering puts a callback that is nowhere into one list. *)
LEMMA RegisterPlaces ==
  ASSUME TypeOK, Handles, NEW c \in Callbacks, NEW n \in Alive, Registers(c, n)
  PROVE  /\ c \notin Registered /\ Registered' = Registered \cup {c} /\ n \in Nodes
         /\ c \notin ran /\ ran' = ran /\ late \subseteq late' /\ Teardowns' = Teardowns
         /\ \A m \in Nodes : c \notin Kept(m)
         /\ \A i \in Teardowns : c \notin Left(i) /\ Left(i)' = Left(i) /\ stack'[i] = stack[i]
         /\ Kept(n)' = Kept(n) \cup {c} /\ (IsInjective(cleanups[n]) => IsInjective(cleanups'[n]))
         /\ \A m \in Nodes \ {n} : Kept(m)' = Kept(m) /\ cleanups'[m] = cleanups[m]
<1>1. /\ home[c] = None /\ home' = [home EXCEPT ![c] = n]
      /\ cleanups' = [cleanups EXCEPT ![n] = Append(@, c)]
      /\ Same /\ ran' = ran /\ late \subseteq late' /\ n \in Nodes
  BY DEF Registers, Register, Alive
<1>2. /\ cleanups \in [Nodes -> Seq(Callbacks)] /\ home \in [Callbacks -> Nodes \cup {None}]
  BY DEF TypeOK
<1>3. c \notin Registered /\ Registered' = Registered \cup {c}
  BY <1>1, <1>2, KindsAreNot DEF Registered
<1>4. /\ \A m \in Nodes : c \notin Kept(m) /\ c \notin ran
      /\ \A i \in Teardowns : c \notin Left(i)
  BY <1>3, TeardownsIn DEF Handles, FrameIn, Kept, Left
<1>5. \A i \in Teardowns : Left(i)' = Left(i) /\ stack'[i] = stack[i]
  BY <1>1 DEF Same, Left
<1>6. \A m \in Nodes \ {n} : Kept(m)' = Kept(m) /\ cleanups'[m] = cleanups[m]
  BY <1>1, <1>2 DEF Kept
<1>7. cleanups'[n] = Append(cleanups[n], c) /\ cleanups[n] \in Seq(Callbacks)
  BY <1>1, <1>2
<1>8. Kept(n)' = Kept(n) \cup {c}
  BY <1>7, AppendIs DEF Kept
<1>9. IsInjective(cleanups[n]) => IsInjective(cleanups'[n])
  BY <1>1, <1>4, <1>7, AppendIs DEF Kept
<1> QED
  BY <1>1, <1>3, <1>4, <1>5, <1>6, <1>8, <1>9 DEF Same

(* Taking them moves the callbacks of a node into its teardown. *)
LEMMA TakePlaces ==
  ASSUME TypeOK, Handles, NEW t \in Teardowns, Takes(t), NEW n, n = stack[t].node
  PROVE  /\ UNCHANGED <<home, ran, late>> /\ Teardowns' = Teardowns /\ n \in Nodes
         /\ Kept(n)' = {} /\ IsInjective(cleanups'[n])
         /\ \A m \in Nodes \ {n} : Kept(m)' = Kept(m) /\ cleanups'[m] = cleanups[m]
         /\ Left(t) = {} /\ Left(t)' = Kept(n) /\ stack'[t].cbs = cleanups[n]
         /\ stack'[t].node = n /\ stack'[t].next = stack[t].next /\ stack'[t].phase = "cleanups"
         /\ \A i \in Teardowns \ {t} : Left(i)' = Left(i) /\ stack'[i] = stack[i]
<1>1. /\ UNCHANGED <<home, ran, late>> /\ Teardowns' = Teardowns
      /\ \A i \in Teardowns \ {t} : Left(i)' = Left(i) /\ stack'[i] = stack[i]
  BY DEF Takes, history, Others, Left
<1>2. n \in Nodes /\ cleanups' = [cleanups EXCEPT ![n] = <<>>] /\ DOMAIN cleanups = Nodes
  BY InTeardowns DEF Takes, CleanupsTaken, TypeOK
<1>3. /\ stack'[t].cbs = cleanups[n] /\ stack'[t].node = n
      /\ stack'[t].next = stack[t].next /\ stack'[t].phase = "cleanups"
  BY InTeardowns, TakingIs DEF Takes
<1>4. Left(t) = {}
  BY TeardownsIn, EmptyIs DEF Takes, FrameIn, Left
<1>5. Kept(n)' = {} /\ IsInjective(cleanups'[n])
  BY <1>2, EmptyIs DEF Kept
<1>6. \A m \in Nodes \ {n} : Kept(m)' = Kept(m) /\ cleanups'[m] = cleanups[m]
  BY <1>2 DEF Kept
<1>7. Left(t)' = Kept(n)
  BY <1>3 DEF Left, Kept
<1> QED
  BY <1>1, <1>2, <1>3, <1>4, <1>5, <1>6, <1>7

(* Calling one takes it out of the teardown. *)
LEMMA CallPlaces ==
  ASSUME TypeOK, Distinct, NEW t \in Teardowns, CallsBack(t)
  PROVE  \E c \in Callbacks :
            /\ UNCHANGED <<cleanups, home, late>> /\ Teardowns' = Teardowns
            /\ c \in Left(t) /\ Left(t)' = Left(t) \ {c} /\ ran' = ran \cup {c}
            /\ IsInjective(stack'[t].cbs) /\ \A m : Kept(m)' = Kept(m)
            /\ \A i \in Teardowns \ {t} : Left(i)' = Left(i) /\ stack'[i] = stack[i]
<1> DEFINE s == stack[t].cbs
<1>1. /\ UNCHANGED <<cleanups, home, late>> /\ Teardowns' = Teardowns /\ ran' = ran \cup {Last(s)}
      /\ \A i \in Teardowns \ {t} : Left(i)' = Left(i) /\ stack'[i] = stack[i]
  BY DEF CallsBack, tree, Others, Left
<1>2. s \in Seq(Callbacks) /\ s # <<>> /\ IsInjective(s)
  BY InTeardowns DEF CallsBack, Distinct
<1>3. stack'[t].cbs = Front(s)
  BY InTeardowns, CallingIs DEF CallsBack
<1>4. /\ ToSet(s) = ToSet(Front(s)) \cup {Last(s)} /\ Last(s) \in Callbacks
      /\ IsInjective(Front(s)) /\ Last(s) \notin ToSet(Front(s))
  BY <1>2, FrontLast
<1>5. Left(t) = ToSet(s) /\ Left(t)' = ToSet(Front(s))
  BY <1>3 DEF Left
<1>6. \A m : Kept(m)' = Kept(m)
  BY <1>1 DEF Kept
<1> HIDE DEF s
<1> QED
  BY <1>1, <1>3, <1>4, <1>5, <1>6

(* At the end of a teardown its node may go, with what was registered late. *)
LEMMA EndPlaces ==
  ASSUME Tree, LateCallbacks, NEW t \in Teardowns, Ends(t)
  PROVE  /\ UNCHANGED <<home, ran, late>> /\ Teardowns' = Teardowns \ {t} /\ Left(t) = {}
         /\ \A m \in Nodes : \/ Kept(m)' = Kept(m) /\ cleanups'[m] = cleanups[m]
                             \/ /\ Kept(m)' = {} /\ Kept(m) \subseteq late
                                /\ IsInjective(cleanups'[m]) /\ m = stack[t].node
         /\ \A i \in Teardowns \ {t} : Left(i)' = Left(i) /\ stack'[i] = stack[i]
<1>1. /\ UNCHANGED <<home, ran, late>> /\ Teardowns' = Teardowns \ {t}
      /\ \A i \in Teardowns \ {t} : Left(i)' = Left(i) /\ stack'[i] = stack[i]
  BY DEF Ends, history, Others, Left
<1>2. Left(t) = {}
  BY EmptyIs DEF Ends, Left
<1>3. CASE UNCHANGED tree
  <2>1. \A m \in Nodes : Kept(m)' = Kept(m) /\ cleanups'[m] = cleanups[m]
    BY <1>3 DEF tree, Kept
  <2> QED
    BY <1>1, <1>2, <2>1
<1>4. CASE stack[t].next = "remove" /\ stack[t].node \in Alive /\ Removes(stack[t].node)
  <2> SUFFICES ASSUME NEW n, n = stack[t].node
               PROVE  \A m \in Nodes : \/ Kept(m)' = Kept(m) /\ cleanups'[m] = cleanups[m]
                                       \/ /\ Kept(m)' = {} /\ Kept(m) \subseteq late
                                          /\ IsInjective(cleanups'[m]) /\ m = n
    BY <1>1, <1>2
  <2>1. n \in Nodes /\ cleanups'[n] = <<>> /\ \A m \in Nodes \ {n} : cleanups'[m] = cleanups[m]
    BY <1>4, RemovesIs DEF Tree
  <2>2. Kept(n) \subseteq late
    BY <1>4 DEF LateCallbacks, Kept, Ends
  <2>3. Kept(n)' = {} /\ IsInjective(cleanups'[n]) /\ \A m \in Nodes \ {n} : Kept(m)' = Kept(m)
    BY <2>1, EmptyIs DEF Kept
  <2> QED
    BY <1>1, <1>2, <2>1, <2>2, <2>3
<1> QED
  BY <1>3, <1>4 DEF Ends

(* What is registered with a scope that is calling its callbacks is late. *)
LEMMA LateCallbacksNext ==
  ASSUME Tree, Distinct, LateCallbacks, Shape
  PROVE  LateCallbacks'
<1> DEFINE Leaves(i) == stack[i].next = "remove" /\ stack[i].phase = "cleanups"
<1>1. TypeOK /\ Handles /\ late \subseteq late'
  BY LateOn DEF Tree
<1> SUFFICES ASSUME NEW i \in Teardowns', stack'[i].next = "remove", stack'[i].phase = "cleanups",
                    NEW n, n = stack'[i].node
             PROVE  Kept(n)' \subseteq late'
  BY DEF LateCallbacks, Kept
<1>2. ASSUME i \in Teardowns, stack[i].phase = "cleanups"
      PROVE  stack[i].node = n /\ n \in Nodes /\ stack[i].next = "remove" /\ Kept(n) \subseteq late
  <2>1. stack[i].node = n /\ stack[i].next = "remove"
    BY <1>1, <1>2, TeardownsOn
  <2> QED
    BY <1>1, <1>2, <2>1, InTeardowns DEF LateCallbacks, Kept
<1>3. CASE Quiet
  <2>1. i \in Teardowns /\ stack[i].phase = "cleanups"
    BY <1>3 DEF Quiet
  <2>2. Kept(n)' = Kept(n)
    BY <1>3, QuietPlaces
  <2> QED
    BY <1>1, <1>2, <2>1, <2>2
<1>4. CASE \E c \in Callbacks, m \in Alive : Registers(c, m)
  <2>1. PICK c \in Callbacks, m \in Alive : Registers(c, m)
    BY <1>4
  <2>2. /\ i \in Teardowns /\ stack'[i] = stack[i] /\ Kept(m)' = Kept(m) \cup {c}
        /\ \A x \in Nodes \ {m} : Kept(x)' = Kept(x)
    BY <1>1, <2>1, RegisterPlaces
  <2>3. n = m => c \in late'
    BY <1>2, <2>1, <2>2 DEF Registers, Register, Teardowns
  <2> QED
    BY <1>1, <1>2, <2>2, <2>3
<1>5. CASE \E t \in Teardowns : Takes(t)
  <2>1. PICK t \in Teardowns : Takes(t)
    BY <1>5
  <2>2. PICK m : m = stack[t].node
    OBVIOUS
  <2>3. /\ Teardowns' = Teardowns /\ Kept(m)' = {} /\ stack'[t].node = m
        /\ \A x \in Nodes \ {m} : Kept(x)' = Kept(x)
        /\ \A k \in Teardowns \ {t} : stack'[k] = stack[k]
    BY <1>1, <2>1, <2>2, TakePlaces
  <2> QED
    BY <1>1, <1>2, <2>3
<1>6. CASE \E t \in Teardowns : CallsBack(t)
  <2>1. PICK t \in Teardowns : CallsBack(t)
    BY <1>6
  <2>2. Teardowns' = Teardowns /\ Kept(n)' = Kept(n) /\ \A k \in Teardowns \ {t} : stack'[k] = stack[k]
    BY <1>1, <2>1, CallPlaces
  <2>3. stack[t].phase = "cleanups"
    BY <2>1 DEF CallsBack
  <2> QED
    BY <1>1, <1>2, <2>2, <2>3
<1>7. CASE \E t \in Teardowns : Ends(t)
  <2>1. PICK t \in Teardowns : Ends(t)
    BY <1>7
  <2>2. /\ Teardowns' = Teardowns \ {t} /\ \A k \in Teardowns \ {t} : stack'[k] = stack[k]
        /\ \A m \in Nodes : Kept(m)' = Kept(m) \/ Kept(m)' = {}
    BY <2>1, EndPlaces
  <2> QED
    BY <1>1, <1>2, <2>2
<1> QED
  BY <1>1, <1>3, <1>4, <1>5, <1>6, <1>7, QuietIs

(* A callback is in a list once. *)
LEMMA DistinctNext ==
  ASSUME Tree, Distinct, LateCallbacks, Shape
  PROVE  Distinct'
<1>1. TypeOK /\ Handles
  BY DEF Tree
<1> DEFINE Node(n) == IsInjective(cleanups'[n])
           Frame1(i) == IsInjective(stack'[i].cbs)
<1> SUFFICES (\A n \in Nodes : Node(n)) /\ (\A i \in Teardowns' : Frame1(i))
  BY DEF Distinct
<1>2. CASE Quiet
  BY <1>2, EmptyIs DEF Quiet, Distinct
<1>3. CASE \E c \in Callbacks, m \in Alive : Registers(c, m)
  <2>1. PICK c \in Callbacks, m \in Alive : Registers(c, m)
    BY <1>3
  <2> QED
    BY <1>1, <2>1, RegisterPlaces DEF Distinct
<1>4. CASE \E t \in Teardowns : Takes(t)
  <2>1. PICK t \in Teardowns, m \in Nodes : Takes(t) /\ m = stack[t].node
    BY <1>1, <1>4, InTeardowns
  <2> QED
    BY <1>1, <2>1, TakePlaces DEF Distinct
<1>5. CASE \E t \in Teardowns : CallsBack(t)
  <2>1. PICK t \in Teardowns : CallsBack(t)
    BY <1>5
  <2> QED
    BY <1>1, <2>1, CallPlaces DEF Distinct
<1>6. CASE \E t \in Teardowns : Ends(t)
  <2>1. PICK t \in Teardowns : Ends(t)
    BY <1>6
  <2> QED
    BY <1>1, <2>1, EndPlaces DEF Distinct
<1> QED
  BY <1>1, <1>2, <1>3, <1>4, <1>5, <1>6, QuietIs

(* A callback is in one list, and only until it has been called. *)
LEMMA ApartNext ==
  ASSUME Tree, Distinct, LateCallbacks, Apart, Shape
  PROVE  Apart'
<1>1. TypeOK /\ Handles
  BY DEF Tree
<1>2. CASE Quiet
  <2>1. /\ \A n : Kept(n)' = Kept(n) /\ \A i \in Teardowns : Left(i)' = Left(i)
        /\ \A i \in Teardowns' \ Teardowns : Left(i)' = {}
        /\ ran' = ran
    BY <1>2, QuietPlaces DEF Quiet
  <2> QED
    BY <2>1 DEF Apart
<1>3. CASE \E c \in Callbacks, m \in Alive : Registers(c, m)
  <2>1. PICK c \in Callbacks, m \in Alive : Registers(c, m)
    BY <1>3
  <2> QED
    BY <1>1, <2>1, RegisterPlaces DEF Apart
<1>4. CASE \E t \in Teardowns : Takes(t)
  <2>1. PICK t \in Teardowns, m \in Nodes : Takes(t) /\ m = stack[t].node
    BY <1>1, <1>4, InTeardowns
  <2> QED
    BY <1>1, <2>1, TakePlaces DEF Apart
<1>5. CASE \E t \in Teardowns : CallsBack(t)
  <2>1. PICK t \in Teardowns : CallsBack(t)
    BY <1>5
  <2> QED
    BY <1>1, <2>1, CallPlaces DEF Apart
<1>6. CASE \E t \in Teardowns : Ends(t)
  <2>1. PICK t \in Teardowns : Ends(t)
    BY <1>6
  <2> QED
    BY <1>1, <2>1, EndPlaces DEF Apart
<1> QED
  BY <1>1, <1>2, <1>3, <1>4, <1>5, <1>6, QuietIs

(* No callback is lost, but the late ones. *)
LEMMA RememberedNext ==
  ASSUME Tree, Distinct, LateCallbacks, Remembered, Shape
  PROVE  Remembered'
<1>1. TypeOK /\ Handles /\ late \subseteq late'
  BY LateOn DEF Tree
<1>2. CASE Quiet
  <2>1. /\ \A n : Kept(n)' = Kept(n) /\ \A i \in Teardowns : Left(i)' = Left(i)
        /\ ran' = ran /\ Teardowns \subseteq Teardowns' /\ Registered' = Registered
    BY <1>2, QuietPlaces, RegisteredSame DEF Quiet
  <2> QED
    BY <1>1, <2>1 DEF Remembered, Accounted
<1>3. CASE \E c \in Callbacks, m \in Alive : Registers(c, m)
  <2>1. PICK c \in Callbacks, m \in Alive : Registers(c, m)
    BY <1>3
  <2> QED
    BY <1>1, <2>1, RegisterPlaces DEF Remembered, Accounted
<1>4. CASE \E t \in Teardowns : Takes(t)
  <2>1. PICK t \in Teardowns, m \in Nodes : Takes(t) /\ m = stack[t].node
    BY <1>1, <1>4, InTeardowns
  <2>2. Registered' = Registered
    BY <1>1, <2>1, TakePlaces, RegisteredSame
  <2> QED
    BY <1>1, <2>1, <2>2, TakePlaces DEF Remembered, Accounted
<1>5. CASE \E t \in Teardowns : CallsBack(t)
  <2>1. PICK t \in Teardowns : CallsBack(t)
    BY <1>5
  <2>2. Registered' = Registered
    BY <1>1, <2>1, CallPlaces, RegisteredSame
  <2> QED
    BY <1>1, <2>1, <2>2, CallPlaces DEF Remembered, Accounted
<1>6. CASE \E t \in Teardowns : Ends(t)
  <2>1. PICK t \in Teardowns : Ends(t)
    BY <1>6
  <2>2. Registered' = Registered
    BY <1>1, <2>1, EndPlaces, RegisteredSame
  <2> QED
    BY <1>1, <2>1, <2>2, EndPlaces DEF Remembered, Accounted
<1> QED
  BY <1>1, <1>2, <1>3, <1>4, <1>5, <1>6, QuietIs

LEMMA PlacesHold == Spec => [](Distinct /\ Apart /\ Remembered /\ LateCallbacks)
<1> DEFINE I == Distinct /\ Apart /\ Remembered /\ LateCallbacks
<1>1. Init => I
  <2> SUFFICES ASSUME Init
               PROVE  I
    OBVIOUS
  <2>1. Teardowns = {} /\ Registered = {} /\ ran = {} /\ \A n \in Nodes : cleanups[n] = <<>>
    BY DEF Init, Teardowns, Registered
  <2> QED
    BY <2>1, EmptyIs DEF Distinct, Apart, Remembered, LateCallbacks, Kept
<1>2. Tree /\ I /\ [Next]_vars => I'
  <2> SUFFICES ASSUME Tree, Distinct, Apart, Remembered, LateCallbacks, [Next]_vars
               PROVE  I'
    OBVIOUS
  <2>1. Shape
    BY Shapes DEF Tree
  <2> QED
    BY <2>1, LateCallbacksNext, DistinctNext, ApartNext, RememberedNext
<1> QED
  BY <1>1, <1>2, TreeHolds, PTL DEF Spec

(* A callback waits in the node it was registered with or in the teardown  *)
(* that has taken it, never in two places; once called, it is nowhere.     *)
(* run_owner_teardown takes the callbacks out of the node before it calls  *)
(* the first: a callback that disposes the node again finds none.          *)
THEOREM CleanupsRunOnce == Spec => []CleanupsOnce
<1>1. Tree /\ Apart /\ Remembered => CleanupsOnce
  <2> SUFFICES ASSUME Tree, Apart, Remembered, NEW c \in Callbacks
               PROVE  /\ \A n \in InNode(c) : InNode(c) = {n} /\ InTeardown(c) = {} /\ c \notin ran
                      /\ \A i \in InTeardown(c) : InTeardown(c) = {i} /\ c \notin ran
                      /\ home[c] # None /\ c \notin ran \cup late => InNode(c) \cup InTeardown(c) # {}
    BY DEF CleanupsOnce
  <2>1. /\ InNode(c) = {n \in Nodes : c \in Kept(n)}
        /\ InTeardown(c) = {i \in Teardowns : c \in Left(i)}
    BY PlacesAre
  <2>2. home[c] # None => c \in Registered
    BY DEF Registered
  <2> QED
    BY <2>1, <2>2 DEF Apart, Remembered, Accounted
<1> QED
  BY <1>1, TreeHolds, PlacesHold, PTL

-----------------------------------------------------------------------------
(* What a teardown has to call *)

(* What a teardown has to call is not left behind in a node whose          *)
(* callbacks have been taken since.                                        *)
Untaken ==
  \A i, k \in Teardowns :
    i <= k /\ stack[k].phase = "cleanups" => stack[i].due \cap Kept(stack[k].node) = {}

(* It has been called, a teardown is about to call it, it is in a node on  *)
(* its way out, or in the node itself, whose turn has not come.            *)
Awaits(i, c) ==
  \/ c \in ran \/ \E k \in Teardowns : c \in Left(k)
  \/ \E m \in Nodes : c \in Kept(m) /\ (m \in Going \/ (m = stack[i].node /\ stack[i].phase = "children"))

Awaited == \A i \in Teardowns : \A c \in stack[i].due : Awaits(i, c)

(* Only new callbacks are found in a node after its teardown has taken the *)
(* callbacks.                                                              *)
LEMMA UntakenNext ==
  ASSUME Tree, Distinct, LateCallbacks, Untaken, Shape
  PROVE  Untaken'
<1>1. TypeOK /\ Handles
  BY DEF Tree
<1> SUFFICES ASSUME NEW i \in Teardowns', NEW k \in Teardowns', i <= k, stack'[k].phase = "cleanups",
                    NEW n, n = stack'[k].node
             PROVE  stack'[i].due \cap Kept(n)' = {}
  BY DEF Untaken, Kept
<1>2. ASSUME i \in Teardowns, k \in Teardowns, stack[k].phase = "cleanups"
      PROVE  /\ n \in Nodes /\ stack[k].node = n /\ stack'[i].due = stack[i].due
             /\ stack[i].due \cap Kept(n) = {} /\ stack[i].due \subseteq Registered
  <2>1. stack[k].node = n /\ stack'[i].due = stack[i].due /\ stack[k].node \in Nodes
    BY <1>1, <1>2, TeardownsOn, InTeardowns
  <2>2. stack[i].due \subseteq Registered
    BY <1>1, <1>2, TeardownsIn DEF FrameIn
  <2> QED
    BY <1>2, <2>1, <2>2 DEF Untaken
<1>3. CASE Quiet
  <2>1. k \in Teardowns /\ stack[k].phase = "cleanups"
    BY <1>3 DEF Quiet
  <2>2. i \in Teardowns
    <3>1. k \in Nat
      BY <1>1, <2>1, InTeardowns
    <3> QED
      BY <1>3, <2>1, <3>1 DEF Quiet
  <2> QED
    BY <1>2, <1>3, <2>1, <2>2, QuietPlaces
<1>4. CASE \E c \in Callbacks, m \in Alive : Registers(c, m)
  <2>1. PICK c \in Callbacks, m \in Alive : Registers(c, m)
    BY <1>4
  <2> QED
    BY <1>1, <1>2, <2>1, RegisterPlaces
<1>5. CASE \E t \in Teardowns : Takes(t)
  <2>1. PICK t \in Teardowns, m \in Nodes : Takes(t) /\ m = stack[t].node
    BY <1>1, <1>5, InTeardowns
  <2> QED
    BY <1>1, <1>2, <2>1, TakePlaces
<1>6. CASE \E t \in Teardowns : CallsBack(t)
  <2>1. PICK t \in Teardowns : CallsBack(t)
    BY <1>6
  <2>2. stack[t].phase = "cleanups"
    BY <2>1 DEF CallsBack
  <2> QED
    BY <1>1, <1>2, <2>1, <2>2, CallPlaces
<1>7. CASE \E t \in Teardowns : Ends(t)
  <2>1. PICK t \in Teardowns : Ends(t)
    BY <1>7
  <2> QED
    BY <1>1, <1>2, <2>1, EndPlaces
<1> QED
  BY <1>1, <1>3, <1>4, <1>5, <1>6, <1>7, QuietIs

LEMMA AwaitedNext ==
  ASSUME Tree, Tree', Closed', GoingBelow', Distinct, LateCallbacks, Untaken, Awaited, Shape
  PROVE  Awaited'
<1>1. /\ TypeOK /\ Handles /\ Going \cap Alive' \subseteq Going'
      /\ \A m \in Nodes : Kept(m)' # {} => m \in Alive'
  <2>1. \A m \in Nodes : cleanups'[m] # <<>> => m \in Alive'
    BY DEF Tree, Handles
  <2> QED
    BY <2>1, GoingOn, EmptyIs DEF Tree, Kept
<1> SUFFICES ASSUME NEW i \in Teardowns', NEW c \in stack'[i].due
             PROVE  Awaits(i, c)'
  BY DEF Awaited
<1>2. ASSUME NEW m \in Nodes, c \in Kept(m)', m \in Going
      PROVE  Awaits(i, c)'
  BY <1>1, <1>2 DEF Awaits
<1>3. ASSUME i \in Teardowns
      PROVE  /\ c \in stack[i].due /\ Awaits(i, c) /\ stack'[i].node = stack[i].node
             /\ c \in Registered
  <2>1. stack'[i].due = stack[i].due /\ stack'[i].node = stack[i].node
    BY <1>1, <1>3, TeardownsOn
  <2>2. stack[i].due \subseteq Registered
    BY <1>1, <1>3, TeardownsIn DEF FrameIn
  <2> QED
    BY <1>3, <2>1, <2>2 DEF Awaited
<1>4. CASE i \notin Teardowns
  <2>1. PICK n \in Alive, next \in Nexts : Begins(n, next) /\ stack'[i] = TeardownOf(n, next)
    BY <1>1, <1>4, NewTeardown
  <2>2. /\ stack'[i].node = n /\ stack'[i].below = Below(n) /\ stack'[i].due = DueOf(n)
        /\ stack'[i].phase = "children"
    BY <2>1, TeardownFields
  <2>3. cleanups' = cleanups /\ \A m : Kept(m)' = Kept(m)
    BY <2>1 DEF Begins, Kept
  <2>4. PICK m \in Below(n) \cup {n} : c \in Kept(m)
    BY <2>2 DEF DueOf, Kept
  <2>5. m \in Nodes
    BY BelowAlive
  <2>6. CASE m = n
    BY <2>2, <2>3, <2>4, <2>5, <2>6 DEF Awaits
  <2>7. CASE m \in Below(n)
    <3>1. m \in Alive' /\ c \in Kept(m)'
      BY <1>1, <2>3, <2>4, <2>5
    <3>2. m \in Going'
      BY <2>2, <2>7, <3>1 DEF GoingBelow
    <3> QED
      BY <2>5, <3>1, <3>2 DEF Awaits
  <2> QED
    BY <2>6, <2>7
<1>5. CASE i \in Teardowns /\ Quiet
  <2>1. /\ \A m : Kept(m)' = Kept(m) /\ \A k \in Teardowns : Left(k)' = Left(k)
        /\ ran' = ran /\ Teardowns \subseteq Teardowns' /\ stack'[i].phase = stack[i].phase
    BY <1>5, QuietPlaces DEF Quiet
  <2> QED
    BY <1>2, <1>3, <1>5, <2>1 DEF Awaits
<1>6. CASE i \in Teardowns /\ \E d \in Callbacks, m \in Alive : Registers(d, m)
  <2>1. PICK d \in Callbacks, m \in Alive : Registers(d, m)
    BY <1>6
  <2>2. /\ \A k \in Nodes : Kept(k) \subseteq Kept(k)'
        /\ \A k \in Teardowns : Left(k)' = Left(k) /\ stack'[k] = stack[k]
        /\ ran' = ran /\ Teardowns' = Teardowns
    BY <1>1, <2>1, RegisterPlaces
  <2> QED
    BY <1>2, <1>3, <1>6, <2>2 DEF Awaits
<1>7. CASE i \in Teardowns /\ \E t \in Teardowns : Takes(t)
  <2>1. PICK t \in Teardowns, m \in Nodes : Takes(t) /\ m = stack[t].node
    BY <1>1, <1>7, InTeardowns
  <2>2. /\ ran' = ran /\ Teardowns' = Teardowns
        /\ \A x \in Nodes \ {m} : Kept(x)' = Kept(x)
        /\ Left(t) = {} /\ Left(t)' = Kept(m)
        /\ \A k \in Teardowns \ {t} : Left(k)' = Left(k) /\ stack'[k] = stack[k]
    BY <1>1, <2>1, TakePlaces
  <2>3. CASE c \in ran \/ \E k \in Teardowns : c \in Left(k)
    BY <2>2, <2>3 DEF Awaits
  <2>4. ASSUME NEW x \in Nodes, c \in Kept(x),
               x \in Going \/ (x = stack[i].node /\ stack[i].phase = "children")
        PROVE  Awaits(i, c)'
    <3>1. CASE x = m
      BY <2>2, <2>4, <3>1 DEF Awaits
    <3>2. CASE x # m /\ x \in Going
      BY <1>2, <2>2, <2>4, <3>2
    <3>3. CASE x # m /\ x = stack[i].node /\ stack[i].phase = "children"
      <4>1. i # t /\ stack'[i] = stack[i] /\ c \in Kept(x)'
        BY <1>7, <2>1, <2>2, <2>4, <3>3
      <4> QED
        BY <3>3, <4>1 DEF Awaits
    <3> QED
      BY <2>4, <3>1, <3>2, <3>3
  <2> QED
    BY <1>3, <1>7, <2>3, <2>4 DEF Awaits
<1>8. CASE i \in Teardowns /\ \E t \in Teardowns : CallsBack(t)
  <2>1. PICK t \in Teardowns : CallsBack(t)
    BY <1>8
  <2>2. PICK d \in Callbacks :
          /\ Teardowns' = Teardowns /\ Left(t)' = Left(t) \ {d} /\ ran' = ran \cup {d}
          /\ \A m : Kept(m)' = Kept(m)
          /\ \A k \in Teardowns \ {t} : Left(k)' = Left(k) /\ stack'[k] = stack[k]
    BY <1>1, <2>1, CallPlaces
  <2>3. stack[t].phase = "cleanups"
    BY <2>1 DEF CallsBack
  <2> QED
    BY <1>2, <1>3, <1>8, <2>2, <2>3 DEF Awaits
<1>9. CASE i \in Teardowns /\ \E t \in Teardowns : Ends(t)
  <2>1. PICK t \in Teardowns : Ends(t)
    BY <1>9
  <2>2. /\ ran' = ran /\ Teardowns' = Teardowns \ {t} /\ Left(t) = {}
        /\ \A m \in Nodes : Kept(m)' = Kept(m) \/ m = stack[t].node
        /\ \A k \in Teardowns \ {t} : Left(k)' = Left(k) /\ stack'[k] = stack[k]
    BY <2>1, EndPlaces
  <2>3. stack[i].due \cap Kept(stack[t].node) = {}
    BY <1>9, <2>1 DEF Ends, Innermost, Untaken
  <2>4. \A m \in Nodes : c \in Kept(m) => c \in Kept(m)'
    BY <1>3, <1>9, <2>2, <2>3
  <2> QED
    BY <1>2, <1>3, <1>9, <2>2, <2>4 DEF Awaits
<1> QED
  BY <1>1, <1>4, <1>5, <1>6, <1>7, <1>8, <1>9, QuietIs

LEMMA AwaitedHolds == Spec => [](Untaken /\ Awaited)
<1>1. Init => Untaken /\ Awaited
  <2>1. Init => Teardowns = {}
    BY DEF Init, Teardowns
  <2> QED
    BY <2>1 DEF Untaken, Awaited
<1> DEFINE P == Distinct /\ Apart /\ Remembered /\ LateCallbacks
<1>2. Tree /\ Tree' /\ Closed' /\ GoingBelow' /\ P /\ Untaken /\ Awaited /\ [Next]_vars
        => Untaken' /\ Awaited'
  <2> SUFFICES ASSUME Tree, Tree', Closed', GoingBelow', P, Untaken, Awaited, [Next]_vars
               PROVE  Untaken' /\ Awaited'
    OBVIOUS
  <2>1. Shape
    BY Shapes DEF Tree
  <2> QED
    BY <2>1, UntakenNext, AwaitedNext
<1> QED
  BY <1>1, <1>2, TreeHolds, ClosedHolds, GoingBelowHolds, PlacesHold, PTL DEF Spec

(* run_owner_teardown forgets no callback: when it has called the last of  *)
(* its own, those of the node and of everything below it that were there   *)
(* at its start have been called, or are in the hands of a teardown, or in *)
(* a node that is certain to be disposed.                                  *)
THEOREM NoneForgotten == Spec => []AllCleanedUp
<1>1. Tree /\ Untaken /\ Awaited => AllCleanedUp
  <2> SUFFICES ASSUME Tree, Untaken, Awaited, NEW i \in Teardowns, stack[i].phase = "cleanups",
                      NEW c \in stack[i].due
               PROVE  \/ c \in ran \/ InTeardown(c) # {}
                      \/ InNode(c) \cap ((Doomed \ {stack[i].node}) \cup Late) # {}
    BY DEF AllCleanedUp
  <2>1. /\ InNode(c) = {n \in Nodes : c \in Kept(n)}
        /\ InTeardown(c) = {k \in Teardowns : c \in Left(k)}
    BY PlacesAre
  <2>2. \A m \in Nodes : c \in Kept(m) => m # stack[i].node
    <3>1. i \in Nat
      BY InTeardowns DEF Tree
    <3> QED
      BY <3>1 DEF Untaken
  <2>3. Awaits(i, c)
    BY DEF Awaited
  <2> QED
    BY <2>1, <2>2, <2>3 DEF Awaits, Going
<1> QED
  BY <1>1, TreeHolds, AwaitedHolds, PTL

-----------------------------------------------------------------------------
(* nearest_scope *)

(* nearest_scope goes on from n to its owner. *)
Climbs(n) == n \in Alive /\ kind[n] # "root"

(* The equation of the function in NearestScope. *)
IsScope(f) ==
  f = [n \in Nodes \cup {None} |->
         IF n \notin Alive THEN None ELSE IF kind[n] = "root" THEN n ELSE f[owner[n]]]

LEMMA NearestIs == NearestScope = (CHOOSE f : IsScope(f))[Owner]
BY DEF NearestScope, IsScope

(* The nodes on the way up from n, and the scopes among them. *)
Upward(A) == \A m \in A : Climbs(m) => owner[m] \in A
Up(n) == {m \in Nodes \cup {None} : \A A \in SUBSET (Nodes \cup {None}) : n \in A /\ Upward(A) => m \in A}
Roots(n) == {r \in Up(n) \cap Alive : kind[r] = "root"}

LEMMA UpIs ==
  ASSUME TypeOK, NEW n \in Nodes \cup {None}
  PROVE  /\ ~Climbs(n) => Up(n) = {n}
         /\ Climbs(n) => Up(n) = {n} \cup Up(owner[n])
<1> DEFINE D == Nodes \cup {None}
<1>1. \A m \in D : Climbs(m) => owner[m] \in D
  BY DEF TypeOK, Climbs, Alive
<1>2. ASSUME NEW m \in D
      PROVE  m \in Up(m) /\ Upward(Up(m)) /\ Up(m) \subseteq D
  BY <1>1 DEF Up, Upward
<1>3. ASSUME NEW m \in D, NEW A \in SUBSET D, m \in A, Upward(A)
      PROVE  Up(m) \subseteq A
  BY <1>3 DEF Up
<1>4. ASSUME ~Climbs(n)
      PROVE  Up(n) = {n}
  <2>1. Upward({n})
    BY <1>4 DEF Upward
  <2>2. Up(n) \subseteq {n}
    BY <1>3, <2>1
  <2> QED
    BY <1>2, <2>2
<1>5. ASSUME Climbs(n)
      PROVE  Up(n) = {n} \cup Up(owner[n])
  <2>1. owner[n] \in D /\ owner[n] \in Up(n)
    BY <1>1, <1>2, <1>5 DEF Upward
  <2>2. Up(owner[n]) \subseteq Up(n)
    BY <1>2, <1>3, <2>1
  <2>3. Upward({n} \cup Up(owner[n]))
    BY <1>2, <2>1 DEF Upward
  <2>4. Up(n) \subseteq {n} \cup Up(owner[n])
    BY <1>2, <1>3, <2>1, <2>3
  <2> QED
    BY <1>2, <2>2, <2>4
<1> QED
  BY <1>4, <1>5

(* The function exists. *)
LEMMA ScopeExists == ASSUME TypeOK PROVE \E f : IsScope(f)
<1> DEFINE D == Nodes \cup {None}
           g == [n \in D |-> IF Roots(n) = {} THEN None ELSE CHOOSE r : r \in Roots(n)]
<1>1. ASSUME NEW n \in D, n \notin Alive
      PROVE  g[n] = None
  <2>1. Up(n) = {n}
    BY <1>1, UpIs DEF Climbs
  <2>2. Roots(n) = {}
    BY <1>1, <2>1 DEF Roots
  <2> QED
    BY <2>2
<1>2. ASSUME NEW n \in D, n \in Alive, kind[n] = "root"
      PROVE  g[n] = n
  <2>1. Up(n) = {n}
    BY <1>2, UpIs DEF Climbs
  <2>2. Roots(n) = {n}
    BY <1>2, <2>1 DEF Roots
  <2> QED
    BY <2>2
<1>3. ASSUME NEW n \in D, n \in Alive, kind[n] # "root"
      PROVE  g[n] = g[owner[n]]
  <2>1. Up(n) = {n} \cup Up(owner[n]) /\ owner[n] \in D
    BY <1>3, UpIs DEF Climbs, TypeOK, Alive
  <2>2. Roots(n) = Roots(owner[n])
    BY <1>3, <2>1 DEF Roots
  <2> QED
    BY <2>1, <2>2
<1>4. g = [n \in D |-> g[n]]
  OBVIOUS
<1> HIDE DEF g
<1>5. g = [n \in D |-> IF n \notin Alive THEN None ELSE IF kind[n] = "root" THEN n ELSE g[owner[n]]]
  BY <1>1, <1>2, <1>3, <1>4
<1>6. IsScope(g)
  BY <1>5 DEF IsScope
<1> QED
  BY <1>6

(* Going up, one ends at a root or finds none: owners are older. *)
LEMMA NearestIsRoot ==
  ASSUME TypeOK, Acyclic, Owner \in Nodes \cup {None}, NearestScope \in Alive
  PROVE  kind[NearestScope] = "root"
<1>1. PICK f : IsScope(f) /\ f[Owner] = NearestScope
  BY NearestIs, ScopeExists
<1>2. \A n \in Nodes \cup {None} :
        f[n] = IF n \notin Alive THEN None ELSE IF kind[n] = "root" THEN n ELSE f[owner[n]]
  BY <1>1 DEF IsScope
<1> DEFINE Fine(n) == f[n] = None \/ (f[n] \in Alive /\ kind[f[n]] = "root")
           T == {n \in Alive : ~Fine(n)}
<1>3. ASSUME T # {}
      PROVE  FALSE
  <2>1. PICK n \in T : owner[n] \notin T
    BY <1>3 DEF Acyclic
  <2>2. n \in Nodes /\ owner[n] \in Nodes \cup {None}
    BY BelowAlive DEF TypeOK
  <2>3. Fine(owner[n])
    BY <1>2, <2>1, <2>2
  <2> QED
    BY <1>2, <2>1, <2>2, <2>3
<1>4. Fine(Owner)
  BY <1>2, <1>3
<1>5. None \notin Alive
  BY KindsAreNot, BelowAlive
<1> QED
  BY <1>1, <1>4, <1>5

LEMMA AcyclicNext ==
  ASSUME Tree, Acyclic, Shape
  PROVE  Acyclic'
<1>1. /\ TypeOK /\ Handles /\ OwnedExactly /\ None \notin Nodes /\ Alive \subseteq Nodes
      /\ \A m \in Alive : m \in Alive' => owner'[m] = owner[m]
      /\ Alive' \cap Known \subseteq Alive /\ Alive' \subseteq Nodes
  BY OwnersOn, BelowAlive, KindsAreNot DEF Tree, Alive
<1> SUFFICES ASSUME NEW T \in SUBSET Alive', T # {}
             PROVE  \E m \in T : owner'[m] \notin T
  BY DEF Acyclic
<1>2. CASE T \cap Alive # {}
  <2>1. PICK m \in T \cap Alive : owner[m] \notin T \cap Alive
    BY <1>2 DEF Acyclic
  <2>2. owner[m] \in Known \cup {None}
    BY <1>1 DEF Handles
  <2> QED
    BY <1>1, <2>1, <2>2
<1>3. CASE T \cap Alive = {}
  <2>1. PICK m \in T : m \in Alive' \ Alive
    BY <1>3
  <2>2. PICK n \in Nodes, k \in Kinds, o \in {None, Owner} : NewNode(n, k, o)
    <3>1. ~(kind' = kind)
      BY <2>1 DEF Alive
    <3>2. ~(\E t \in Teardowns : Ends(t))
      <4>1. ASSUME NEW t \in Teardowns, Ends(t)
            PROVE  Alive' \subseteq Alive
        <5>1. CASE UNCHANGED tree
          BY <5>1 DEF tree, Alive
        <5>2. CASE stack[t].node \in Alive /\ Removes(stack[t].node)
          BY <1>1, <5>2, RemovesIs
        <5> QED
          BY <4>1, <5>1, <5>2 DEF Ends
      <4> QED
        BY <2>1, <4>1
    <3> QED
      BY <3>1, <3>2 DEF Shape, Idles, Makes, Registers, Register, Begins, Skips, Takes, CallsBack, tree
  <2>3. o \in Nodes \cup {None} /\ o \in Known \cup {None}
    BY <1>1, <2>2, OwnerType, OwnerKnown
  <2>4. m = n /\ owner'[m] = o
    BY <1>1, <2>1, <2>2, <2>3, MakesIs
  <2> QED
    BY <1>1, <1>3, <2>3, <2>4
<1> QED
  BY <1>2, <1>3

(* The callbacks of on_scope_dispose are in scopes, and in the teardowns   *)
(* that dispose one.                                                       *)
InScope(c, n) == c \in Kept(n) => kind[n] = "root"
AtEnd(c, i) == c \in Left(i) => stack[i].next = "remove" /\ kind[stack[i].node] # "effect"

ScopesOwn ==
  /\ atEnd \subseteq Registered
  /\ \A c \in atEnd : (\A n \in Nodes : InScope(c, n)) /\ (\A i \in Teardowns : AtEnd(c, i))

LEMMA ScopesOwnNext ==
  ASSUME Tree, Acyclic, Distinct, LateCallbacks, ScopesOwn, Shape
  PROVE  ScopesOwn'
<1>1. /\ TypeOK /\ Handles /\ "root" # "effect" /\ None \notin Kinds
      /\ \A n \in Nodes : kind[n] = "root" => n \in Known
  BY KindsAreNot DEF Tree, Known, Alive, Kinds
<1>2. ASSUME NEW i \in Teardowns
      PROVE  stack[i].node \in Known /\ stack[i].node \in Nodes
  BY <1>1, <1>2, TeardownsIn, InTeardowns DEF FrameIn
<1>3. ASSUME NEW i \in Teardowns, i \in Teardowns'
      PROVE  stack'[i].next = stack[i].next /\ stack'[i].node = stack[i].node
  BY <1>1, <1>3, TeardownsOn
<1>4. CASE Quiet
  <2>1. /\ atEnd' = atEnd /\ Registered' = Registered /\ \A n \in Known : kind'[n] = kind[n]
        /\ Teardowns \subseteq Teardowns'
        /\ \A n : Kept(n)' = Kept(n) /\ \A i \in Teardowns : Left(i)' = Left(i)
        /\ \A i \in Teardowns' \ Teardowns : Left(i)' = {}
    BY <1>4, QuietPlaces, RegisteredSame DEF Quiet
  <2>2. ASSUME NEW c \in atEnd
        PROVE  (\A n \in Nodes : InScope(c, n)') /\ (\A i \in Teardowns' : AtEnd(c, i)')
    BY <1>1, <1>2, <1>3, <2>1 DEF ScopesOwn, InScope, AtEnd
  <2> QED
    BY <2>1, <2>2 DEF ScopesOwn
<1>5. CASE \E c \in Callbacks, m \in Alive : Registers(c, m)
  <2>1. PICK c \in Callbacks, m \in Alive : Registers(c, m)
    BY <1>5
  <2>2. /\ c \notin Registered /\ Registered' = Registered \cup {c} /\ Teardowns' = Teardowns
        /\ \A n \in Nodes : c \notin Kept(n)
        /\ \A i \in Teardowns : c \notin Left(i) /\ Left(i)' = Left(i) /\ stack'[i] = stack[i]
        /\ Kept(m)' = Kept(m) \cup {c}
        /\ \A n \in Nodes \ {m} : Kept(n)' = Kept(n)
    BY <1>1, <2>1, RegisterPlaces
  <2>3. kind' = kind /\ (atEnd' = atEnd \/ (m = NearestScope /\ atEnd' = atEnd \cup {c}))
    BY <2>1 DEF Registers, Register
  <2>4. m = NearestScope => kind[m] = "root"
    BY <1>1, OwnerType, NearestIsRoot
  <2>5. ASSUME NEW d \in atEnd'
        PROVE  (\A n \in Nodes : InScope(d, n)') /\ (\A i \in Teardowns' : AtEnd(d, i)')
    BY <2>2, <2>3, <2>4 DEF ScopesOwn, InScope, AtEnd
  <2> QED
    BY <2>2, <2>3, <2>5 DEF ScopesOwn
<1>6. CASE \E t \in Teardowns : Takes(t)
  <2>1. PICK t \in Teardowns, m \in Nodes : Takes(t) /\ m = stack[t].node
    BY <1>1, <1>6, InTeardowns
  <2>2. /\ UNCHANGED <<home, kind, atEnd>>
    BY <2>1 DEF Takes, history
  <2>3. /\ Teardowns' = Teardowns /\ Kept(m)' = {} /\ Left(t)' = Kept(m) /\ m \in Nodes
        /\ stack'[t].node = m /\ stack'[t].next = stack[t].next
        /\ \A n \in Nodes \ {m} : Kept(n)' = Kept(n)
        /\ \A i \in Teardowns \ {t} : Left(i)' = Left(i) /\ stack'[i] = stack[i]
    BY <1>1, <2>1, TakePlaces
  <2>4. kind[m] = "root" => stack[t].next = "remove"
    BY <1>1, <2>1, TeardownsIn, InTeardowns DEF FrameIn, NotRoots, Frame
  <2>5. ASSUME NEW d \in atEnd
        PROVE  (\A n \in Nodes : InScope(d, n)') /\ (\A i \in Teardowns' : AtEnd(d, i)')
    BY <1>1, <2>2, <2>3, <2>4 DEF ScopesOwn, InScope, AtEnd
  <2> QED
    BY <2>2, <2>5, RegisteredSame DEF ScopesOwn
<1>7. CASE \E t \in Teardowns : CallsBack(t)
  <2>1. PICK t \in Teardowns : CallsBack(t)
    BY <1>7
  <2>2. PICK c \in Callbacks :
          /\ home' = home /\ Teardowns' = Teardowns /\ Left(t)' = Left(t) \ {c}
          /\ \A m : Kept(m)' = Kept(m)
          /\ \A k \in Teardowns \ {t} : Left(k)' = Left(k) /\ stack'[k] = stack[k]
    BY <1>1, <2>1, CallPlaces
  <2>3. UNCHANGED <<kind, atEnd>>
    BY <2>1 DEF CallsBack, tree
  <2>4. ASSUME NEW d \in atEnd
        PROVE  (\A n \in Nodes : InScope(d, n)') /\ (\A i \in Teardowns' : AtEnd(d, i)')
    BY <1>3, <2>2, <2>3 DEF ScopesOwn, InScope, AtEnd
  <2> QED
    BY <2>2, <2>3, <2>4, RegisteredSame DEF ScopesOwn
<1>8. CASE \E t \in Teardowns : Ends(t)
  <2>1. PICK t \in Teardowns : Ends(t)
    BY <1>8
  <2>2. /\ home' = home /\ Teardowns' = Teardowns \ {t}
        /\ \A m \in Nodes : Kept(m)' = Kept(m) \/ (Kept(m)' = {} /\ m = stack[t].node)
        /\ \A k \in Teardowns \ {t} : Left(k)' = Left(k) /\ stack'[k] = stack[k]
    BY <2>1, EndPlaces
  <2>3. atEnd' = atEnd
    BY <2>1 DEF Ends, history
  <2>4. \A m \in Nodes : \/ kind'[m] = kind[m]
                         \/ kind'[m] = None /\ Kept(m)' = {}
    <3>1. CASE UNCHANGED tree
      BY <3>1 DEF tree
    <3>2. CASE stack[t].node \in Alive /\ Removes(stack[t].node)
      <4>1. PICK x \in Alive : x = stack[t].node /\ Removes(x)
        BY <3>2
      <4>2. /\ kind'[x] = None /\ cleanups'[x] = <<>> /\ \A m \in Nodes \ {x} : kind'[m] = kind[m]
        BY <4>1, RemovesIs DEF Tree
      <4> QED
        BY <4>2, EmptyIs DEF Kept
    <3> QED
      BY <2>1, <3>1, <3>2 DEF Ends
  <2>5. ASSUME NEW d \in atEnd
        PROVE  (\A n \in Nodes : InScope(d, n)') /\ (\A i \in Teardowns' : AtEnd(d, i)')
    <3>1. \A n \in Nodes : InScope(d, n)'
      BY <2>2, <2>4 DEF ScopesOwn, InScope
    <3>2. \A i \in Teardowns' : AtEnd(d, i)'
      BY <1>1, <1>2, <1>3, <2>2, <2>4 DEF ScopesOwn, AtEnd, Kinds
    <3> QED
      BY <3>1, <3>2
  <2> QED
    BY <2>2, <2>3, <2>5, RegisteredSame DEF ScopesOwn
<1> QED
  BY <1>1, <1>4, <1>5, <1>6, <1>7, <1>8, QuietIs

LEMMA ScopesHold == Spec => [](Acyclic /\ ScopesOwn)
<1>1. Init => Acyclic /\ ScopesOwn
  <2>1. Init => Alive = {} /\ atEnd = {}
    BY DEF Init, Alive
  <2> QED
    BY <2>1 DEF Acyclic, ScopesOwn
<1> DEFINE P == Distinct /\ Apart /\ Remembered /\ LateCallbacks
<1>2. Tree /\ P /\ Acyclic /\ ScopesOwn /\ [Next]_vars => Acyclic' /\ ScopesOwn'
  <2> SUFFICES ASSUME Tree, P, Acyclic, ScopesOwn, [Next]_vars
               PROVE  Acyclic' /\ ScopesOwn'
    OBVIOUS
  <2>1. Shape
    BY Shapes DEF Tree
  <2> QED
    BY <2>1, AcyclicNext, ScopesOwnNext
<1> QED
  BY <1>1, <1>2, TreeHolds, PlacesHold, PTL DEF Spec

(* on_scope_dispose registers with the nearest scope, whatever effects and *)
(* computeds are in between, and run_owner_teardown of an effect finds     *)
(* none of these callbacks: they are called when the scope is disposed.    *)
THEOREM ScopesCallBack == Spec => ScopeCallbacks
<1>1. Tree /\ ScopesOwn /\ [Next]_vars
        => [\A c \in Callbacks :
              c \in atEnd /\ c \in ran' \ ran => Top.next = "remove" /\ kind[Top.node] # "effect"]_vars
  <2> SUFFICES ASSUME Tree, ScopesOwn, [Next]_vars, NEW c \in atEnd, c \in ran' \ ran
               PROVE  Top.next = "remove" /\ kind[Top.node] # "effect"
    OBVIOUS
  <2>1. RunCleanup
    BY DEF Next, vars, history, NewScope, NewEffect, NewNode, OnCleanup, OnScopeDispose, Register, RunScope,
           Stop, Rerun, Return, DisposeChild, TakeCleanups, RemoveNode, RunAgain
  <2>2. /\ stack # <<>> /\ Top \in Frame /\ Top.op = "teardown" /\ Top.cbs # <<>>
        /\ c = Last(Top.cbs) /\ TypeOK
    BY <2>1, CleanupStack DEF RunCleanup, Tree
  <2>3. Len(stack) \in Teardowns /\ stack[Len(stack)] = Top
    BY <2>2, TopTeardown DEF Innermost
  <2>4. c \in Left(Len(stack))
    <3>1. Top.cbs \in Seq(Callbacks)
      BY <2>2 DEF Frame
    <3>2. Last(Top.cbs) \in ToSet(Top.cbs)
      <4>1. ToSet(Top.cbs) = ToSet(Front(Top.cbs)) \cup {Last(Top.cbs)}
        BY <2>2, <3>1, FrontLast
      <4> QED
        BY <4>1
    <3> QED
      BY <2>2, <2>3, <3>2 DEF Left
  <2> QED
    BY <2>3, <2>4 DEF ScopesOwn, AtEnd
<1> QED
  BY <1>1, TreeHolds, ScopesHold, PTL DEF Spec, ScopeCallbacks
=============================================================================
