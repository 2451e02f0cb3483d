------------------------ MODULE OwnershipProperties ------------------------
(***************************************************************************)
(* What ownership promises: nothing outlives its scope, and no cleanup is  *)
(* forgotten or called twice.                                              *)
(***************************************************************************)
EXTENDS Ownership

(* The type of every variable. *)
TypeOK ==
  /\ kind \in [Nodes -> Kinds \cup {None}] /\ owner \in [Nodes -> Nodes \cup {None}]
  /\ owned \in [Nodes -> Seq(Alive)] /\ cleanups \in [Nodes -> Seq(Callbacks)]
  /\ gone \subseteq Nodes \ Alive /\ stack \in Seq(Frame) /\ calls \in Nat
  /\ home \in [Callbacks -> Nodes \cup {None}] /\ ran \subseteq Callbacks
  /\ atEnd \subseteq Callbacks /\ late \subseteq Nodes \cup Callbacks

-----------------------------------------------------------------------------
Teardowns == {i \in DOMAIN stack : stack[i].op = "teardown"}

(* The nodes that active teardowns have taken from their owners, those     *)
(* that they are disposing, and those whose disposal is certain for one of *)
(* these reasons.                                                          *)
Pending == UNION {ToSet(stack[i].children) : i \in Teardowns}
Disposing == {stack[i].node : i \in {j \in Teardowns : stack[j].next = "remove"}}
Doomed == Pending \cup Disposing \cup UNION {Below(n) : n \in Pending}

(* What was created too late, and what it owns. *)
Late == late \cup UNION {Below(n) : n \in late \cap Alive}

(* A node lists what it owns, each child once, except for those that an    *)
(* active teardown has taken over, and nothing else.                       *)
OwnedExactly ==
  \A n \in Alive :
    LET children == {m \in Alive : owner[m] = n}
    IN /\ IsInjective(owned[n])
       /\ ToSet(owned[n]) \subseteq children
       /\ children \ (Pending \cup Disposing) \subseteq ToSet(owned[n])

(* No node outlives its owner, unless it was created in a scope that was   *)
(* already going away (by code that was still running in it).              *)
NoOrphans ==
  \A n \in Alive : owner[n] # None /\ owner[n] \notin Alive => n \in Pending \cup Disposing \cup late

(* Children go before the callbacks of their owner are called: whatever    *)
(* the callbacks in between have created, stopped or run again.            *)
ChildrenFirst ==
  \A i \in Teardowns :
    stack[i].phase = "cleanups" => stack[i].below \cap Alive \subseteq Doomed \cup Late

(* The places where a callback that waits to be called can be. *)
InNode(c) == {n \in Alive : Contains(cleanups[n], c)}
InTeardown(c) == {i \in Teardowns : Contains(stack[i].cbs, c)}

(* A registered callback waits in one place, until it is called; only one  *)
(* that was registered with a scope on its way out may be forgotten.       *)
CleanupsOnce ==
  \A c \in Callbacks :
    /\ \A n \in InNode(c) : InNode(c) = {n} /\ InTeardown(c) = {} /\ c \notin ran
    /\ \A i \in InTeardown(c) : InTeardown(c) = {i} /\ c \notin ran
    /\ home[c] # None /\ c \notin ran \cup late => InNode(c) \cup InTeardown(c) # {}

(* When a teardown is complete, every callback that was registered at its  *)
(* start, with the node or below it, has been called, or another teardown, *)
(* which it has interrupted, is about to.                                  *)
AllCleanedUp ==
  \A i \in Teardowns :
    i = Len(stack) /\ stack[i].phase = "cleanups" /\ stack[i].cbs = <<>>
      => \A c \in stack[i].due :
           c \in ran \/ InTeardown(c) # {} \/ InNode(c) \cap ((Doomed \ {stack[i].node}) \cup Late) # {}

(* A callback of on_scope_dispose is called when a scope goes, never when  *)
(* an effect runs again.                                                   *)
ScopeCallbacks ==
  [][\A c \in Callbacks :
       c \in atEnd /\ c \in ran' \ ran => Top.next = "remove" /\ kind[Top.node] # "effect"]_vars

(* An effect that has been disposed does not run again. *)
RunsOnlyLiveEffects == Finished("run") => Top.node \in Alive
=============================================================================
