------------------------------ MODULE Compiler ------------------------------
(***************************************************************************)
(* The whole way of a template: it is read and parsed, lowered to a        *)
(* program, and, when the program is one element without control flow,     *)
(* mounted and used.                                                       *)
(***************************************************************************)
EXTENDS Template, Bindings

vars == <<parserVars, bindingVars>>

(* The children of a flat element are the options of a select. *)
IsFlat(program) ==
  /\ program.op = "element" /\ program.ok
  /\ \A i \in DOMAIN program.calls :
       program.calls[i].op \notin {"text", "dyn_switch", "dyn_for", "dyn_element"}
  /\ (\E i \in DOMAIN program.calls : program.calls[i].op = "child") => program.tag = "select"

MountTemplate ==
  /\ outcome = "parsed" /\ phase = "none"
  /\ \E program \in {Root(Ast)} : IsFlat(program) /\ Mount(program)
  /\ UNCHANGED parserVars

Init == ParserInit /\ BindingInit

Next ==
  \/ Parsing /\ UNCHANGED bindingVars
  \/ MountTemplate
  \/ Binding /\ UNCHANGED parserVars

Spec == Init /\ [][Next]_vars
=============================================================================
