---------------------------- MODULE MCOwnership ----------------------------
(***************************************************************************)
(* Nodes and callbacks are interchangeable.                                *)
(***************************************************************************)
EXTENDS OwnershipProperties, TLC

NodesAndCallbacks == Permutations(Nodes) \cup Permutations(Callbacks)
=============================================================================
