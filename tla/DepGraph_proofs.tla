-------------------------- MODULE DepGraph_proofs --------------------------
(***************************************************************************)
(* The dependency graph never holds an edge to or from a node that is      *)
(* gone, for any number of nodes.                                          *)
(***************************************************************************)
EXTENDS DepGraph, TLAPS

(* EdgesAlive is inductive together with the types. *)
EdgesInv == TypeOK /\ EdgesAlive

(* Every operation keeps the edges between live nodes. *)
LEMMA EdgesStep == EdgesInv /\ [Next]_edgeVars => EdgesInv'
<1> SUFFICES ASSUME EdgesInv, [Next]_edgeVars PROVE EdgesInv'
  OBVIOUS
<1>a. TypeOK /\ EdgesAlive
  BY DEF EdgesInv
<1>1. CASE UNCHANGED edgeVars
  BY <1>a, <1>1 DEF EdgesInv, edgeVars, TypeOK, EdgesAlive
<1>2. ASSUME NEW n \in Node, Create(n)
      PROVE EdgesInv'
  BY <1>a, <1>2 DEF EdgesInv, Create, TypeOK, EdgesAlive
<1>3. ASSUME NEW n \in Node, Start(n)
      PROVE EdgesInv'
  BY <1>a, <1>3 DEF EdgesInv, Start, TypeOK, EdgesAlive
<1>4. ASSUME NEW n \in Node, End(n)
      PROVE EdgesInv'
  BY <1>a, <1>4 DEF EdgesInv, End, TypeOK, EdgesAlive
<1>5. ASSUME NEW n \in Node, Dispose(n)
      PROVE EdgesInv'
  BY <1>a, <1>5 DEF EdgesInv, Dispose, Detach, TypeOK, EdgesAlive
<1>6. ASSUME NEW n \in Node, NEW d \in Node, Read(n, d)
      PROVE EdgesInv'
  BY <1>a, <1>6 DEF EdgesInv, Read, TypeOK, EdgesAlive
<1> QED
  BY <1>1, <1>2, <1>3, <1>4, <1>5, <1>6 DEF Next

(* No edge leads to or from a node that is gone: collect_subs and          *)
(* collect_deps never return a stale handle.                               *)
THEOREM EdgesBetweenLiveNodes == Spec => []EdgesAlive
<1>1. Init => EdgesInv
  BY DEF Init, EdgesInv, TypeOK, EdgesAlive
<1> QED
  BY <1>1, EdgesStep, PTL DEF Spec, EdgesInv
=============================================================================
