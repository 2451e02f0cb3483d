----------------------------- MODULE MCRuntime -----------------------------
(***************************************************************************)
(* Programs for model checking the runtime.  A program is a choice of the  *)
(* constants of Runtime.tla that say what its code may do.                 *)
(***************************************************************************)
EXTENDS RuntimeProperties, TLC

CONSTANTS s1, s2, c1, c2, e1, e2, v0, v1

(* s1 -> c1 -> c2, s2 -> c2; the effect e1 reads c2 and s1 (it sees a new  *)
(* signal next to a computed derived from it), e2 reads c1 and s2.         *)
Chain ==
  [c \in Code |-> IF c = c1 THEN {s1}
                  ELSE IF c = c2 THEN {c1, s2}
                  ELSE IF c = e1 THEN {c2, s1}
                  ELSE IF c = e2 THEN {c1, s2}
                  ELSE Sources]

(* The same with one computed. *)
Fork ==
  [c \in Code |-> IF c = c1 THEN {s1}
                  ELSE IF c = e1 THEN {c1, s2}
                  ELSE IF c = e2 THEN {c1, s1}
                  ELSE Computeds]

(* One signal, one computed of it, and effects that read either. *)
Single ==
  [c \in Code |-> IF c = c1 THEN {s1}
                  ELSE IF c = e2 THEN {s1}
                  ELSE {c1}]

(* One signal, one computed of it, read by every effect. *)
Shared == [c \in Code |-> IF c \in Computeds THEN {s1} ELSE Computeds]

(* Effects that read the signals. *)
SignalsRead == [c \in Code |-> IF c \in Effects THEN Signals ELSE {}]

NoSource == [c \in Code |-> {}]

(* Only code outside the closures writes, or only event handlers. *)
OutsideWrites == [c \in Code |-> IF c \in {Main, Tick} THEN Signals ELSE {}]
HandlersWrite == [c \in Code |-> IF c = Main THEN Signals ELSE {}]

(* Main reads sources with a closure that writes other signals. *)
MainWith == [c \in Code |-> IF c = Main THEN {s1} \cup Computeds ELSE {}]

JustMain == {Main}
MainAndTick == {Main, Tick}
Everyone == Code
NoCode == {}
(* Effects write too; c1 only reads. *)
ObserversWrite == [c \in Code |-> IF c \in Computeds THEN {} ELSE Signals]
EveryoneWith == [c \in Code |-> IF c \in {c1, e2} THEN {} ELSE Signals]

(* Values are only compared for equality. *)
ValueSymmetry == Permutations({v0, v1})
=============================================================================
