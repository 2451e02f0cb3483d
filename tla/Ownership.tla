----------------------------- MODULE Ownership -----------------------------
(***************************************************************************)
(* Ownership in vue-rs-reactive (crates/vue-rs-reactive/src/runtime.rs):   *)
(* roots, effect scopes, component scopes and effects own the nodes that   *)
(* are created in them, and their cleanup callbacks.  Disposing a scope,   *)
(* and running an effect again, tears down what it owns, depth first.      *)
(*                                                                         *)
(* The callbacks are user code: a teardown can be interrupted by anything, *)
(* including the disposal of a node whose teardown is already active.  The *)
(* call stack is therefore part of the state.                              *)
(***************************************************************************)
EXTENDS Integers, Sequences, SequencesExt

CONSTANTS
  Nodes,      \* handles of nodes, never issued twice (the arena sees to that)
  Callbacks,  \* the closures given to on_cleanup or on_scope_dispose
  None,
  MaxCalls    \* bound: how often user code runs a scope, stops one, or
              \* changes what an effect has read

(* Kind::Root, and Kind::Effect.  (A computed is torn down like an effect.) *)
Kinds == {"root", "effect"}

ASSUME OwnershipAssumption ==
  /\ None \notin Nodes \cup Kinds /\ MaxCalls \in Nat

VARIABLES
  kind,      \* Node::kind of the nodes that exist, otherwise None
  owner,     \* Node::owner
  owned,     \* Node::owned
  cleanups,  \* Node::cleanups
  gone,      \* the handles of disposed nodes
  stack,     \* the active calls, innermost last
  calls,     \* calls left, see MaxCalls
  home,      \* history: the node that a callback was registered with
  atEnd,     \* history: the callbacks registered with on_scope_dispose
  ran,       \* history: the callbacks that have been called
  late       \* history: nodes and callbacks given to a scope whose disposal
             \* had begun

tree == <<kind, owner, owned, cleanups, gone>>
history == <<home, atEnd, ran, late>>
vars == <<tree, stack, calls, history>>

Alive == {n \in Nodes : kind[n] # None}

(* Frames: "scope" is the closure of a root, component scope or            *)
(* EffectScope::run, "body" that of an effect, "teardown" is               *)
(* run_owner_teardown, and "cleanup" a callback.                           *)
Frame ==
  [op       : {"scope", "body", "teardown", "cleanup"},
   node     : Nodes,
   owner    : Nodes \cup {None},            \* Runtime::owner in the frame
   children : Seq(Nodes),                   \* teardown: taken, and still to dispose
   phase    : {"children", "cleanups"},     \* teardown: what it disposes
   cbs      : Seq(Callbacks),               \* teardown: taken, and still to call
   next     : {"remove", "run"},            \* teardown: what the caller does then
   below    : SUBSET Nodes,                 \* history: what the teardown has to dispose
   due      : SUBSET Callbacks]             \* history: and to call

Top == Last(stack)
Owner == IF stack = <<>> THEN None ELSE Top.owner

UserCode == stack # <<>> => Top.op # "teardown"
In(phase) == stack # <<>> /\ Top.op = "teardown" /\ Top.phase = phase

Call(op, n, o) ==
  [op |-> op, node |-> n, owner |-> o, children |-> <<>>, phase |-> "children",
   cbs |-> <<>>, next |-> "remove", below |-> {}, due |-> {}]

(* run_scoped and its variants make n the owner for the time of a closure. *)
Enter(op, n) == Append(stack, Call(op, n, n))

(* The nodes owned by n, directly or not. *)
Below(n) ==
  LET Owned(A) == {m \in Alive : owner[m] \in A}
  IN {m \in Alive : \A A \in SUBSET Alive :
                      Owned({n}) \cup Owned(A) \subseteq A => m \in A}

(* run_owner_teardown takes the children at once; the current owner stays. *)
(* (Bug: it leaves them to the disposal of n.)                             *)
TeardownOfCleanups(s, n, next) ==
  Append(s, [Call("teardown", n, Owner) EXCEPT
               !.next = next, !.below = Below(n),
               !.due = UNION {ToSet(cleanups[m]) : m \in Below(n) \cup {n}}])
Teardown(s, n, next) ==
  Append(s, [Call("teardown", n, Owner) EXCEPT
               !.children = owned[n], !.next = next, !.below = Below(n),
               !.due = UNION {ToSet(cleanups[m]) : m \in Below(n) \cup {n}}])
TakeChildren(n) == owned' = [owned EXCEPT ![n] = <<>>]

(* n is gone, or its children have been taken in order to dispose it. *)
Ending(n) ==
  \/ n \notin Alive
  \/ \E i \in DOMAIN stack :
       stack[i].op = "teardown" /\ stack[i].node = n /\ stack[i].next = "remove"

-----------------------------------------------------------------------------
Init ==
  /\ kind = [n \in Nodes |-> None] /\ owner = [n \in Nodes |-> None]
  /\ owned = [n \in Nodes |-> <<>>] /\ cleanups = [n \in Nodes |-> <<>>]
  /\ gone = {} /\ stack = <<>> /\ calls = MaxCalls
  /\ home = [c \in Callbacks |-> None] /\ atEnd = {}
  /\ ran = {} /\ late = {}

-----------------------------------------------------------------------------
(* Creation *)

(* new_node, with the owner o.  *)
NewNode(n, k, o) ==
  /\ kind[n] = None /\ n \notin gone
  /\ kind' = [kind EXCEPT ![n] = k]
  /\ owner' = [owner EXCEPT ![n] = o]
  /\ owned' = IF o \in Alive THEN [owned EXCEPT ![o] = Append(@, n)] ELSE owned
  /\ late' = IF o # None /\ Ending(o) THEN late \cup {n} ELSE late
  /\ UNCHANGED <<cleanups, gone, calls, home, atEnd, ran>>

(* create_root and run_in_child_scope run a closure in the new scope,      *)
(* effect_scope does not.  A detached scope has no owner.                  *)
NewScope ==
  /\ UserCode
  /\ \E n \in Nodes, detached \in BOOLEAN :
       /\ NewNode(n, "root", IF detached THEN None ELSE Owner)
       /\ stack' \in {stack, Enter("scope", n)}

(* make_effect: the first run has nothing to tear down. *)
NewEffect ==
  /\ UserCode
  /\ \E n \in Nodes : NewNode(n, "effect", Owner) /\ stack' = Enter("body", n)

-----------------------------------------------------------------------------
(* Registration of callbacks *)

Register(c, n) ==
  /\ home[c] = None /\ n \in Alive
  /\ home' = [home EXCEPT ![c] = n]
  /\ cleanups' = [cleanups EXCEPT ![n] = Append(@, c)]
  /\ late' = IF \E i \in DOMAIN stack :
                  /\ stack[i].op = "teardown" /\ stack[i].node = n
                  /\ stack[i].next = "remove" /\ stack[i].phase = "cleanups"
             THEN late \cup {c} ELSE late
  /\ UNCHANGED <<kind, owner, owned, gone, stack, calls, ran>>

(* on_cleanup and on_unmounted: with the current owner. *)
OnCleanup ==
  /\ UserCode
  /\ \E c \in Callbacks : Register(c, Owner)
  /\ UNCHANGED atEnd

(* nearest_scope: up the owners to a root.  (Bug: it stops at an effect.)  *)
OwnerItself == Owner
NearestScope ==
  LET scope[n \in Nodes \cup {None}] ==
        IF n \notin Alive THEN None ELSE IF kind[n] = "root" THEN n ELSE scope[owner[n]]
  IN scope[Owner]

(* In a scope itself it is on_cleanup. *)
OnScopeDispose ==
  /\ UserCode /\ Owner \in Alive /\ kind[Owner] # "root"
  /\ \E c \in Callbacks : Register(c, NearestScope) /\ atEnd' = atEnd \cup {c}

-----------------------------------------------------------------------------
(* The calls that start a teardown, and the returns of user closures *)

Spend == calls > 0 /\ calls' = calls - 1

(* EffectScope::run of a scope that was not stopped. *)
RunScope ==
  /\ UserCode /\ Spend
  /\ \E n \in Alive : kind[n] = "root" /\ stack' = Enter("scope", n)
  /\ UNCHANGED <<tree, history>>

(* RootDisposer::dispose and EffectScope::stop; nothing happens when the   *)
(* scope is gone.                                                          *)
Stop ==
  /\ UserCode /\ Spend
  /\ \E n \in Alive : /\ kind[n] = "root"
                      /\ stack' = Teardown(stack, n, "remove")
                      /\ TakeChildren(n)
  /\ UNCHANGED <<kind, owner, cleanups, gone, history>>

(* Something an effect has read changes, and the flush runs it again: its  *)
(* closure is taken, unless it is taken already.                           *)
Taken(n) ==
  \E i \in DOMAIN stack :
    /\ stack[i].node = n
    /\ stack[i].op = "body" \/ (stack[i].op = "teardown" /\ stack[i].next = "run")

Rerun ==
  /\ UserCode /\ Spend
  /\ \E n \in Alive : /\ kind[n] = "effect" /\ ~Taken(n)
                      /\ stack' = Teardown(stack, n, "run")
                      /\ TakeChildren(n)
  /\ UNCHANGED <<kind, owner, cleanups, gone, history>>

Return ==
  /\ stack # <<>> /\ UserCode
  /\ stack' = Front(stack)
  /\ UNCHANGED <<tree, calls, history>>

-----------------------------------------------------------------------------
(* run_owner_teardown and what follows it *)

DisposeChild ==
  /\ In("children") /\ Top.children # <<>>
  /\ LET n == Head(Top.children)
         rest == [stack EXCEPT ![Len(stack)].children = Tail(@)]
     IN IF n \in Alive
        THEN stack' = Teardown(rest, n, "remove") /\ TakeChildren(n)
        ELSE stack' = rest /\ UNCHANGED owned
  /\ UNCHANGED <<kind, owner, cleanups, gone, calls, history>>

(* The callbacks are taken out of the node before they are called.  (Bug:  *)
(* they stay in it.)                                                       *)
CleanupsKept(n) == UNCHANGED cleanups
CleanupsTaken(n) == cleanups' = [cleanups EXCEPT ![n] = <<>>]

TakeCleanups ==
  /\ In("children") /\ Top.children = <<>>
  /\ stack' = [stack EXCEPT ![Len(stack)].phase = "cleanups",
                            ![Len(stack)].cbs = cleanups[Top.node]]
  /\ CleanupsTaken(Top.node)
  /\ UNCHANGED <<kind, owner, owned, gone, calls, history>>

(* The latest callback first.  (Bug: it is the only one.) *)
NoneLeft(cbs) == <<>>
Earlier(cbs) == Front(cbs)

RunCleanup ==
  /\ In("cleanups") /\ Top.cbs # <<>>
  /\ LET rest == [stack EXCEPT ![Len(stack)].cbs = Earlier(@)]
     IN stack' = Append(rest, Call("cleanup", Top.node, Owner))
  /\ ran' = ran \cup {Last(Top.cbs)}
  /\ UNCHANGED <<tree, calls, home, atEnd, late>>

Finished(next) == In("cleanups") /\ Top.cbs = <<>> /\ Top.next = next

(* The rest of dispose_node: retain drops n from the list of its owner,    *)
(* which names it at most once.  (Bug: the owner still lists the node.)    *)
StaysOwned(n) == owned' = [owned EXCEPT ![n] = <<>>]
LeavesOwner(n) ==
  owned' = [m \in Nodes |-> IF m = n THEN <<>>
                            ELSE IF m = owner[n] THEN RemoveFirst(owned[m], n)
                            ELSE owned[m]]

RemoveNode ==
  /\ Finished("remove")
  /\ LET n == Top.node
     IN IF n \notin Alive THEN UNCHANGED tree
        ELSE /\ LeavesOwner(n)
             /\ kind' = [kind EXCEPT ![n] = None]
             /\ owner' = [owner EXCEPT ![n] = None]
             /\ cleanups' = [cleanups EXCEPT ![n] = <<>>]
             /\ gone' = gone \cup {n}
  /\ stack' = Front(stack)
  /\ UNCHANGED <<calls, history>>

(* The rest of update: the closure runs, whatever has become of the node.  *)
RunAgain ==
  /\ Finished("run")
  /\ stack' = Append(Front(stack), Call("body", Top.node, Top.node))
  /\ UNCHANGED <<tree, calls, history>>

Next ==
  \/ NewScope \/ NewEffect \/ OnCleanup \/ OnScopeDispose
  \/ RunScope \/ Stop \/ Rerun \/ Return
  \/ DisposeChild \/ TakeCleanups \/ RunCleanup \/ RemoveNode \/ RunAgain

Spec == Init /\ [][Next]_vars
=============================================================================
