------------------------------ MODULE MCLinks ------------------------------
(***************************************************************************)
(* A small graph for model checking the links: two signals, a computed of  *)
(* them, and an effect that reads all three.                               *)
(***************************************************************************)
EXTENDS LinksProperties

CONSTANTS a, b, c, e

Reads == [n \in Nodes |-> IF n = c THEN {a, b} ELSE IF n = e THEN Nodes \ {e} ELSE {}]
SignalsReads == [n \in Nodes |-> IF n \in {c, e} THEN {a, b} ELSE {}]

(* The computed is made later. *)
Early == Nodes \ {c}
=============================================================================
