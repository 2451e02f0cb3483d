------------------------------ MODULE DepGraph ------------------------------
(***************************************************************************)
(* What the dependency edges of the runtime promise, whatever their        *)
(* representation: after a run, a node depends on exactly the live nodes   *)
(* that the run has read, and while it runs also on those of the run       *)
(* before that it has not read again yet.                                  *)
(***************************************************************************)
CONSTANT Node   \* handles of nodes

VARIABLES
  alive,      \* the nodes that exist
  running,    \* the nodes whose closure is running
  deps,       \* the nodes that each node depends on
  confirmed   \* those that a running closure has read so far

edgeVars == <<alive, running, deps, confirmed>>

(* The type of every variable. *)
TypeOK ==
  /\ alive \subseteq Node /\ running \subseteq Node
  /\ deps \in [Node -> SUBSET Node] /\ confirmed \in [Node -> SUBSET Node]

Init ==
  /\ alive \subseteq Node /\ running = {}
  /\ deps = [n \in Node |-> {}] /\ confirmed = [n \in Node |-> {}]

Create(n) ==
  /\ n \notin alive
  /\ alive' = alive \cup {n}
  /\ UNCHANGED <<running, deps, confirmed>>

Start(n) ==
  /\ n \in alive \ running
  /\ running' = running \cup {n}
  /\ UNCHANGED <<alive, deps, confirmed>>

Read(n, d) ==
  /\ n \in running \cap alive /\ d \in alive
  /\ deps' = [deps EXCEPT ![n] = @ \cup {d}]
  /\ confirmed' = [confirmed EXCEPT ![n] = @ \cup {d}]
  /\ UNCHANGED <<alive, running>>

End(n) ==
  /\ n \in running
  /\ running' = running \ {n}
  /\ deps' = [deps EXCEPT ![n] = confirmed[n]]
  /\ confirmed' = [confirmed EXCEPT ![n] = {}]
  /\ UNCHANGED alive

(* Both ends forget the edges of a node that goes. *)
Detach(n) ==
  /\ deps' = [m \in Node |-> IF m = n THEN {} ELSE deps[m] \ {n}]
  /\ confirmed' = [m \in Node |-> IF m = n THEN {} ELSE confirmed[m] \ {n}]

Dispose(n) ==
  /\ n \in alive
  /\ alive' = alive \ {n}
  /\ Detach(n)
  /\ UNCHANGED running

Next ==
  \E n \in Node : \/ Create(n) \/ Start(n) \/ End(n) \/ Dispose(n)
                  \/ \E d \in Node : Read(n, d)

Spec == Init /\ [][Next]_edgeVars

-----------------------------------------------------------------------------
(* No edge leads to or from a node that is gone, so a write never marks    *)
(* one, and only a running closure has a cursor.                           *)
EdgesAlive ==
  \A n \in Node :
    /\ deps[n] \subseteq alive /\ confirmed[n] \subseteq deps[n]
    /\ n \notin alive => deps[n] = {}
    /\ n \notin running => confirmed[n] = {}
=============================================================================
