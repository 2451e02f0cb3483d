----------------------------- MODULE Component ------------------------------
(***************************************************************************)
(* What a lowered template stands for: whether its component calls fit the *)
(* builders and slot structs that compile_component generates              *)
(* (vue-rs-compiler/src/component.rs), and the nodes its builder calls     *)
(* create when the signals have given values.                              *)
(***************************************************************************)
EXTENDS Codegen

CONSTANT
  Library \* by component tag, the nodes of its template and its declared props

-----------------------------------------------------------------------------
(* The props builder: every required prop has a marker in the type of the  *)
(* builder, its setter exists only while the marker is Unset, and build    *)
(* only once all of them are Set.                                          *)

Required(props) == {p \in DOMAIN props : props[p] = "required"}
Builder(props) ==
  [markers |-> [p \in Required(props) |-> "Unset"], ok |-> TRUE,
   values |-> [p \in DOMAIN props |-> Lit(<<"default">>)]]

SetPropAgain(props, builder, field) ==
  IF field.name \notin DOMAIN props THEN [builder EXCEPT !.ok = FALSE]
  ELSE [builder EXCEPT !.values[field.name] = field.value,
                       !.markers = [p \in DOMAIN @ |-> IF p = field.name THEN "Set" ELSE @[p]]]

SetProp(props, builder, field) ==
  IF \/ field.name \notin DOMAIN props
     \/ field.name \in Required(props) /\ builder.markers[field.name] = "Set"
  THEN [builder EXCEPT !.ok = FALSE]
  ELSE [builder EXCEPT !.values[field.name] = field.value,
                       !.markers = [p \in DOMAIN @ |-> IF p = field.name THEN "Set" ELSE @[p]]]

Filled(props, fields) ==
  FoldLeft(LAMBDA b, f : SetProp(props, b, f), Builder(props), fields)

(* Without a field the call passes no props at all. *)
PropsFit(props, fields) ==
  IF fields = <<>> THEN DOMAIN props = {}
  ELSE LET b == Filled(props, fields)
       IN b.ok /\ \A p \in DOMAIN b.markers : b.markers[p] = "Set"

-----------------------------------------------------------------------------
(* The slots a template uses: each is a field of the generated struct, the *)
(* first use of a name says whether it is scoped.                          *)

RECURSIVE UsedSlots(_)
UsedSlots(node) ==
  LET of(nodes) == FlattenSeq([i \in DOMAIN nodes |-> UsedSlots(nodes[i])])
  IN CASE node.op = "slot" -> UsedSlots(node.fallback) \o <<[name |-> node.name, scoped |-> node.scoped]>>
       [] node.op \in {"element", "dyn_element_view"} -> of(node.calls)
       [] node.op \in {"child", "dyn_for", "dyn_element"} -> UsedSlots(node.view)
       [] node.op = "dyn_switch" -> of(node.views)
       [] node.op = "fragment" -> of(node.members)
       [] node.op = "component" -> of([i \in DOMAIN node.setters |-> node.setters[i].view])
       [] OTHER -> <<>>

RecordSlot(used, name) == SelectSeq(used, LAMBDA s : s.name = name)[1]

(* A builder closure of the parent takes the payload the slot is used      *)
(* with: () unless it is scoped.                                           *)
SlotsFit(used, setters) ==
  \A i \in DOMAIN setters :
    /\ \E j \in DOMAIN used : used[j].name = setters[i].name
    /\ RecordSlot(used, setters[i].name).scoped => setters[i].binding # <<>>

(* Every use builds the payload recorded at the first.                     *)
UsesFit(used) == \A i \in DOMAIN used : used[i].scoped = RecordSlot(used, used[i].name).scoped

ChildRoots == [tag \in DOMAIN Library |-> Root(Library[tag].template)]

RECURSIVE Typechecks(_)
Typechecks(node) ==
  LET all(nodes) == \A i \in DOMAIN nodes : Typechecks(nodes[i])
  IN CASE node.op = "component" ->
            /\ PropsFit(Library[node.tag].props, node.fields)
            /\ SlotsFit(UsedSlots(ChildRoots[node.tag]), node.setters)
            /\ \A i \in DOMAIN node.setters : Typechecks(node.setters[i].view)
       [] node.op = "slot" -> Typechecks(node.fallback)
       [] node.op \in {"element", "dyn_element_view"} -> all(node.calls)
       [] node.op \in {"child", "dyn_for", "dyn_element"} -> Typechecks(node.view)
       [] node.op = "dyn_switch" -> all(node.views)
       [] node.op = "fragment" -> all(node.members)
       [] OTHER -> TRUE

Accepted(program) == program.ok /\ UsesFit(UsedSlots(program)) /\ Typechecks(program)
Compiles(nodes) == Accepted(Root(nodes))

(* The components called are compiled ones. *)
ASSUME LibraryAssumption == \A tag \in DOMAIN Library : Accepted(ChildRoots[tag])

-----------------------------------------------------------------------------
(* The nodes a program creates.  An environment has the values of the      *)
(* signals, and for each slot the parent provides its builder with the     *)
(* parent's environment.                                                   *)

Value(e, sigs) == IF e.sig = "" THEN e.lit ELSE sigs[e.sig]
Truth(words) == words # <<>>
TextNode(words) == [tag |-> "", words |-> words, kids |-> <<>>]
TreeNode(tag, kids) == [tag |-> tag, words |-> <<>>, kids |-> kids]
Lexes(pieces) == [i \in DOMAIN pieces |-> pieces[i].lex]
Bind(env, name, value) == [env EXCEPT !.sigs = (name :> value) @@ @]

SlotEnv(env, call, sigs) ==
  LET setter(name) == call.setters[SelectLastInSeq(call.setters, LAMBDA s : s.name = name)]
  IN [name \in {call.setters[i].name : i \in DOMAIN call.setters} |->
        [view |-> setter(name).view, binding |-> setter(name).binding, env |-> [env EXCEPT !.sigs = sigs]]]
PropValues(env, call) ==
  LET values == Filled(Library[call.tag].props, call.fields).values
  IN [p \in DOMAIN values |-> Value(values[p], env.sigs)] @@ env.sigs
ChildScopeEverywhere(env, call) ==
  [sigs |-> PropValues(env, call), slots |-> SlotEnv(env, call, PropValues(env, call))]
ChildEnv(env, call) ==
  [sigs |-> PropValues(env, call), slots |-> SlotEnv(env, call, env.sigs)]

(* The payload of a scoped slot is a parameter of its builder.             *)
Scoped(given, slot, env) ==
  IF ~slot.scoped THEN given.env
  ELSE Bind(given.env, given.binding[1], Value(slot.payload[1].value.parts[1].text, env.sigs))

RECURSIVE Build(_, _)
Build(node, env) ==
  LET all(nodes) == FlattenSeq([i \in DOMAIN nodes |-> Build(nodes[i], env)])
      selected == SelectInSeq(node.conds, LAMBDA c : Truth(Value(c, env.sigs)))
      rows == Value(node.list, env.sigs)
  IN CASE node.op = "element" -> <<TreeNode(node.tag, all(node.calls))>>
       [] node.op = "text" -> <<TextNode(Lexes(node.text))>>
       [] node.op = "dyn_text" -> <<TextNode(Value(node.parts[1].text, env.sigs))>>
       [] node.op = "child" -> Build(node.view, env)
       [] node.op = "fragment" -> all(node.members)
       [] node.op = "dyn_switch" -> IF selected = 0 THEN <<>> ELSE Build(node.views[selected], env)
       [] node.op = "dyn_for" ->
            FlattenSeq([i \in DOMAIN rows |-> Build(node.view, Bind(env, "item", <<rows[i]>>))])
       [] node.op = "dyn_element" ->
            <<TreeNode(Value(node.is, env.sigs)[1], all(node.view.calls))>>
       [] node.op = "slot" ->
            IF node.name \in DOMAIN env.slots
            THEN LET given == env.slots[node.name] IN Build(given.view, Scoped(given, node, env))
            ELSE Build(node.fallback, env)
       [] node.op = "component" -> Build(ChildRoots[node.tag], ChildEnv(env, node))
       [] OTHER -> <<>>
=============================================================================
