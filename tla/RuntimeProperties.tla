------------------------- MODULE RuntimeProperties -------------------------
(***************************************************************************)
(* What the reactive runtime promises.  Runtime.tla says what it does.     *)
(***************************************************************************)
EXTENDS Runtime

(* The type of every variable. *)
TypeOK ==
  /\ value \in [Sources -> Values \cup {None}]
  /\ state \in [Nodes -> {Clean, Check, Dirty}] /\ (\A s \in Signals : state[s] = Clean)
  /\ deps \in [Observers -> SUBSET Sources]
  /\ confirmed \in [Observers -> SUBSET Sources]
  /\ seen \in [Observers -> SUBSET (Sources \X Values)]
  /\ stack \in Seq(Frame)
  /\ pending \in Seq(Effects) /\ syncPending \in Seq(Effects) /\ postFlush \in Seq(Ticks)
  /\ batchDepth \in Int /\ readingDepth \in Int
  /\ flushing \in BOOLEAN /\ scheduler \in BOOLEAN /\ flushScheduled \in BOOLEAN
  /\ microtasks \in Nat /\ created \subseteq Effects
  /\ awaits \in [Ticks -> SUBSET Effects]
  /\ fuel \in Nat /\ panicked \in BOOLEAN

-----------------------------------------------------------------------------
(* Auxiliary definitions *)

(* The value v is what d holds, in its node or in the read closure that    *)
(* took it out.                                                            *)
Holds(d, v) ==
  \/ value[d] = v
  \/ \E i \in DOMAIN stack : stack[i].op = "with" /\ stack[i].node = d /\ stack[i].val = v

(* What n saw in its last run is what its sources hold now, and none of    *)
(* those sources is waiting to be recomputed.                              *)
SeesCurrent(n) == \A p \in seen[n] : Holds(p[1], p[2]) /\ state[p[1]] = Clean

Marked(n) == \E i \in DOMAIN stack : \E t \in {Check, Dirty} : <<n, t>> \in stack[i].marks

Active(n) == \E i \in DOMAIN stack : stack[i].op \in {"pull", "body"} /\ stack[i].node = n

CountIn(s, op) == Cardinality({i \in DOMAIN s : s[i].op = op})
Count(op) == CountIn(stack, op)

BodiesOnce(s) ==
  \A i, j \in DOMAIN s :
    s[i].op = "body" /\ s[j].op = "body" /\ s[i].node = s[j].node => i = j

(* The dependency edges, as DepGraph.tla sees them.  Nothing is disposed   *)
(* here: every node is alive throughout.                                   *)
Graph == INSTANCE DepGraph WITH
  Node <- Nodes, alive <- Nodes,
  running <- {n \in Observers : Taken(n)},
  deps <- [n \in Nodes |-> IF n \in Observers THEN deps[n] ELSE {}],
  confirmed <- [n \in Nodes |-> IF n \in Observers /\ Taken(n) THEN confirmed[n] ELSE {}]

-----------------------------------------------------------------------------
(* Safety of every program *)

(* The counters and flags that decide whether a flush may start agree with *)
(* the calls that are active, and no closure is entered while it runs      *)
(* (its FnMut has been taken out of the node).                             *)
WellNested ==
  /\ batchDepth = Count("batch")
  /\ readingDepth = Count("with")
  /\ flushing => Count("flush") > 0
  /\ BodiesOnce(stack)

(* The dependencies of a node are those its last run has read, and those   *)
(* of the run before while it runs: the edges change as DepGraph.tla says. *)
ImplementsGraph == Graph!Spec

-----------------------------------------------------------------------------
(* Safety of programs whose closures only read *)

(* A node that claims to be Clean, and a closure while it runs, have only  *)
(* seen values that are still current (no glitch: never a new signal next  *)
(* to a computed derived from the old one).  Nodes that mark_stale has not *)
(* reached yet in the notification at hand are excepted.                   *)
CleanIsFresh ==
  \A n \in Observers : (state[n] = Clean /\ ~Marked(n)) \/ Taken(n) => SeesCurrent(n)

(* An effect that is not Clean is queued or being brought up to date: if   *)
(* it left the queue otherwise, no later write would queue it again,       *)
(* because mark_stale only queues effects that were Clean.                 *)
StaleEffectsQueued ==
  \A e \in created :
    state[e] # Clean => \/ e \in Elements(pending) \/ e \in Elements(syncPending)
                        \/ Active(e)

(* The observers that read d, directly or through computeds. *)
Downstream(d) ==
  {n \in Observers : \A A \in SUBSET Observers :
     Subs(d) \subseteq A /\ (\A m \in A : Subs(m) \subseteq A) => n \in A}

(* When the notification of a write is complete, every effect that reads   *)
(* the signal, directly or through computeds, is queued or being brought   *)
(* up to date.                                                             *)
NotifiedAreQueued ==
  In("notify") /\ Top.marks = {} =>
    \A e \in Downstream(Top.node) \cap Effects :
      \/ e \in Elements(pending) \/ e \in Elements(syncPending)
      \/ Active(e)

(* When no code runs and no microtask is due, nothing is left to do: the   *)
(* queues are empty and every effect's last run saw the current values.    *)
Settled ==
  stack = <<>> /\ microtasks = 0 =>
    /\ pending = <<>> /\ syncPending = <<>> /\ postFlush = <<>>
    /\ \A e \in created : SeesCurrent(e)

(* A next_tick callback runs after the effects that were pending when it   *)
(* was registered have run.                                                *)
CallbacksAfterEffects ==
  \A i \in DOMAIN stack : stack[i].op = "tick" => awaits[Head(stack[i].cbs)] = {}

(* No queued effect runs inside a batch or inside a read closure. *)
EffectsDeferred ==
  \A i, j \in DOMAIN stack :
    i < j /\ stack[j].op = "pull" /\ stack[j - 1].op = "flush"
      => stack[i].op \notin {"batch", "with"}

(* No expect() of the runtime fails. *)
NoPanic == ~panicked

-----------------------------------------------------------------------------
(* Action properties *)

StartsBody(n) == /\ In("pull") /\ Top.node = n
                 /\ Len(stack') = Len(stack) /\ stack'[Len(stack)].op = "body"

(* With one write per flush, an effect runs again only if a value it saw   *)
(* has changed, or comes from a source without equality check: an unchanged *)
(* computed stops the propagation.                                         *)
NoWastedRun ==
  [][\A e \in Effects :
       StartsBody(e) /\ seen[e] # {}
         => \E p \in seen[e] : p[1] \in RawNodes \/ ~Holds(p[1], p[2])]_vars

-----------------------------------------------------------------------------
(* Liveness *)

(* A queued effect is eventually brought up to date. *)
EffectsRun ==
  \A e \in Effects : e \in Elements(pending) ~> (e \notin Elements(pending) /\ state[e] = Clean)

(* A queued next_tick callback is eventually called. *)
CallbacksRun ==
  \A t \in Ticks : t \in Elements(postFlush) ~>
                     \E i \in DOMAIN stack : stack[i].op = "tick" /\ Head(stack[i].cbs) = t
=============================================================================
