------------------------------ MODULE Codegen -------------------------------
(***************************************************************************)
(* The template code generator (vue-rs-compiler/src/codegen.rs): the nodes *)
(* of a parsed template are lowered to a program of El builder calls.  A   *)
(* part that cannot be lowered is an Error, and every part has `ok`, which *)
(* is FALSE as soon as something inside it is an Error: the `?` of the     *)
(* code.  Expressions are signals or literals; a value is the sequence of  *)
(* its words.                                                              *)
(***************************************************************************)
EXTENDS Naturals, Sequences, SequencesExt, FiniteSets

CONSTANTS
  ComponentTags, \* the tags that start with a capital letter
  ScopedSlots,   \* slots with a payload field in the declared Slots struct
  Camelized      \* for the kebab-case names in use, their camelCase form

Lit(words) == [sig |-> "", lit |-> words]
Sig(s) == [sig |-> s, lit |-> <<>>]

(* A computed value is a sequence of parts.  A part contributes its text   *)
(* always, or if the signal `when` holds, fails, or equals the text.       *)
Part(text, when, test) == [text |-> text, when |-> when, test |-> test]
Always(e) == Part(e, "", "always")

Error == [op |-> "error", name |-> "", parts |-> <<>>, ok |-> FALSE]
Call(op, name, parts) == [op |-> op, name |-> name, parts |-> parts, ok |-> TRUE]
Listen(op, event, opts, does) ==
  [op |-> op, name |-> event, parts |-> <<>>, opts |-> opts, does |-> does, ok |-> TRUE]
AllOk(parts) == \A i \in DOMAIN parts : parts[i].ok

FindIn(el, form, name) ==
  SelectSeq(el.attrs, LAMBDA a : a.form = form /\ a.name = name /\ ~a.computed /\ a.mods = {})
HasStatic(el, name) == FindIn(el, "static", name) # <<>>
HasDyn(el, name) == FindIn(el, "dyn", name) # <<>>
FindStatic(el, name) == FindIn(el, "static", name)[1].value
FindDyn(el, name) == FindIn(el, "dyn", name)[1].value

Directives == {"v-if", "v-else-if", "v-else", "v-for"}
IsStructural(attr) ==
  \/ attr.form = "static" /\ attr.name \in Directives
  \/ attr.form = "dyn" /\ attr.name = "key"
IsFor(attr, name) ==
  attr.form # "event" /\ attr.name = name /\ ~attr.computed /\ attr.mods = {}

-----------------------------------------------------------------------------
(* class and style: an object, array or plain expression, [syntax, parts]. *)

Fragments(el, name) ==
  (IF HasStatic(el, name) THEN <<Always(FindStatic(el, name))>> ELSE <<>>)
    \o (IF HasDyn(el, name) THEN FindDyn(el, name).parts ELSE <<>>)

(* The static and the dynamic attribute are merged into one, but for a     *)
(* plain dynamic one alone; v-show owns the style.                         *)
Merged(el, name) ==
  /\ HasDyn(el, name)
  /\ HasStatic(el, name) \/ FindDyn(el, name).syntax # "plain"
  /\ name = "style" => ~HasStatic(el, "v-show")

ShowParts(el, cond) ==
  Append(Fragments(el, "style"), Part(Lit(<<"display: none">>), cond, "fails"))

-----------------------------------------------------------------------------
(* v-model *)

InputType(el) ==
  IF el.tag = "input" /\ HasStatic(el, "type") THEN FindStatic(el, "type").lit[1] ELSE ""

Sets(model, take, value) == [model |-> model, take |-> take, value |-> value]
NoOptions == [flags |-> {}, keys |-> {}, buttons |-> {}]

GenChecked(model, part, sets) ==
  <<Call("dyn_bool_prop", "checked", <<part>>), Listen("on_value", "change", NoOptions, sets)>>

GenModel(attr, el) ==
  LET model == attr.value.sig
      hasValue == HasStatic(el, "value") \/ HasDyn(el, "value")
      value == IF HasStatic(el, "value") THEN FindStatic(el, "value") ELSE FindDyn(el, "value").parts[1].text
      event == IF "lazy" \in attr.mods \/ el.tag = "select" THEN "change" ELSE "input"
      bind == IF el.tag \in {"textarea", "select"} THEN "dyn_prop" ELSE "dyn_attr"
  IN IF InputType(el) = "checkbox"
     THEN IF attr.mods # {} THEN <<Error>>
          ELSE GenChecked(model, Part(Lit(<<"true">>), model, "holds"),
                          Sets(model, {"checked"}, Lit(<<>>)))
     ELSE IF InputType(el) = "radio"
     THEN IF attr.mods # {} \/ ~hasValue THEN <<Error>>
          ELSE GenChecked(model, Part(value, model, "equals"), Sets(model, {"value"}, value))
     ELSE IF ~attr.mods \subseteq {"lazy", "trim", "number"} THEN <<Error>>
     ELSE <<Call(bind, "value", <<Always(Sig(model))>>),
            Listen("on_value", event, NoOptions,
                   Sets(model, attr.mods \cap {"trim", "number"}, Lit(<<>>)))>>

-----------------------------------------------------------------------------
(* Listeners *)

Flags == {"prevent", "stop", "once", "capture", "passive", "self",
          "ctrl", "alt", "shift", "meta", "exact"}
KeyboardEvents == {"keyup", "keydown", "keypress"}
MouseEvents == {"click", "dblclick", "auxclick", "mousedown", "mouseup", "mousemove",
                "mouseenter", "mouseleave", "mouseover", "mouseout", "contextmenu"}
MouseButton == [left |-> 0, middle |-> 1, right |-> 2]
KeyName == [enter |-> "Enter", esc |-> "Escape", escape |-> "Escape", tab |-> "Tab",
            space |-> " ", delete |-> "Delete", up |-> "ArrowUp", down |-> "ArrowDown",
            left |-> "ArrowLeft", right |-> "ArrowRight", home |-> "Home", end |-> "End"]

(* `.left` and `.right` are a button of a mouse event, a key of a keyboard *)
(* event.                                                                  *)
BuildEventOptions(event, mods) ==
  LET guards == mods \ Flags
      buttons == IF event \in MouseEvents THEN guards \cap DOMAIN MouseButton ELSE {}
      keys == IF event \in KeyboardEvents THEN guards \cap DOMAIN KeyName ELSE {}
  IN [ok |-> guards = buttons \cup keys,
      opts |-> [flags |-> mods \cap Flags,
                keys |-> {KeyName[k] : k \in keys}, buttons |-> {MouseButton[b] : b \in buttons}]]

GenEvent(attr) ==
  LET built == BuildEventOptions(attr.name, attr.mods)
  IN IF attr.computed
     THEN IF attr.mods # {} THEN Error ELSE Listen("on_named", attr.name, NoOptions, attr.value)
     ELSE IF ~built.ok THEN Error
     ELSE Listen("on", attr.name, built.opts, attr.value)

-----------------------------------------------------------------------------
(* The other attributes *)

Camelize(name) == IF name \in DOMAIN Camelized THEN Camelized[name] ELSE name

(* `value.parts` of :class, :style and any other bound attribute.          *)
GenDyn(attr) ==
  LET op == IF "prop" \in attr.mods THEN "dyn_prop" ELSE "dyn_attr"
      name == IF "camel" \in attr.mods THEN Camelize(attr.name) ELSE attr.name
  IN IF attr.computed
     THEN IF attr.mods # {} THEN Error ELSE Call("dyn_attr_named", attr.name, attr.value.parts)
     ELSE IF ~attr.mods \subseteq {"prop", "attr", "camel"} \/ {"prop", "attr"} \subseteq attr.mods
     THEN Error
     ELSE Call(op, name, attr.value.parts)

GenStatic(attr, el) ==
  CASE attr.name = "v-model" -> GenModel(attr, el)
    [] attr.name = "v-show" -> <<Call("dyn_attr", "style", ShowParts(el, attr.value.sig))>>
    [] attr.name = "v-bind" -> <<Call("dyn_attrs", "", <<Always(attr.value)>>)>>
    [] attr.name = "v-html" -> <<Call("dyn_inner_html", "", <<Always(attr.value)>>)>>
    [] attr.name = "v-text" -> <<Call("dyn_text", "", <<Always(attr.value)>>)>>
    [] attr.name = "ref" -> <<Call("node_ref", "", <<>>)>>
    [] OTHER -> <<Call("attr", attr.name, <<Always(attr.value)>>)>>

GenAttr(attr, el) ==
  IF attr.form = "static" THEN GenStatic(attr, el)
  ELSE <<IF attr.form = "dyn" THEN GenDyn(attr) ELSE GenEvent(attr)>>

(* What the i-th attribute adds to the chain: a merged class or style      *)
(* comes once, at the place of its first attribute.                        *)
AttrCalls(el, ignore) ==
  LET attrs == el.attrs
      first(i, name) == \A j \in 1..i-1 : ~IsFor(attrs[j], name)
      calls(i) ==
        IF \/ IsStructural(attrs[i])
           \/ attrs[i].form = "dyn" /\ attrs[i].name = ignore
           \/ IsFor(attrs[i], "style") /\ HasStatic(el, "v-show")
        THEN <<>>
        ELSE IF \E name \in {"style", "class"} : IsFor(attrs[i], name) /\ Merged(el, name)
        THEN IF first(i, attrs[i].name)
             THEN <<Call("dyn_attr", attrs[i].name, Fragments(el, attrs[i].name))>> ELSE <<>>
        ELSE GenAttr(attrs[i], el)
  IN FlattenSeq([i \in DOMAIN attrs |-> calls(i)])

-----------------------------------------------------------------------------
(* The tree.  A node of the program is an element, a component, a slot or  *)
(* a fragment; a builder call adds one to its parent as a child, a switch  *)
(* of branches, a keyed list or a dynamic element.                         *)

ElementNode(op, tag, calls) == [op |-> op, tag |-> tag, calls |-> calls, ok |-> AllOk(calls)]
SlotNode(name, payload, fallback) ==
  [op |-> "slot", name |-> name, scoped |-> payload # <<>>, payload |-> payload, fallback |-> fallback,
   ok |-> /\ fallback.ok
          /\ payload # <<>> => name \in ScopedSlots
          /\ \A i \in DOMAIN payload : ~payload[i].computed]
Setter(name, binding, view) == [name |-> name, binding |-> binding, view |-> view, ok |-> view.ok]
ComponentNode(tag, fields, setters) ==
  [op |-> "component", tag |-> tag, fields |-> fields, setters |-> setters,
   ok |-> AllOk(fields) /\ AllOk(setters)]
TextPart(text) == [op |-> "text", text |-> text, ok |-> TRUE]
ChildPart(view) == [op |-> "child", view |-> view, ok |-> view.ok]
SwitchPart(conds, views) == [op |-> "dyn_switch", conds |-> conds, views |-> views, ok |-> AllOk(views)]
ForPart(list, keyed, view) == [op |-> "dyn_for", list |-> list, view |-> view, ok |-> keyed /\ view.ok]
DynElementPart(is, view) == [op |-> "dyn_element", is |-> is, view |-> view, ok |-> view.ok]
Fragment(members) == [op |-> "fragment", members |-> members, ok |-> AllOk(members)]

RECURSIVE LowerElement(_), Children(_, _)

BuildElement(el, op, ignore) ==
  ElementNode(op, el.tag,
    AttrCalls(el, ignore)
      \o (IF HasStatic(el, "v-html") \/ HasStatic(el, "v-text") THEN <<>> ELSE Children(el.children, 1)))

Elements(nodes) == SelectSeq(nodes, LAMBDA n : n.kind = "el")
IsDynComponent(el) == el.tag = "component" /\ HasDyn(el, "is")

(* The only element among the children, text left out. *)
SingleRoot(nodes) ==
  IF Len(Elements(nodes)) = 1 THEN LowerElement(Elements(nodes)[1]) ELSE Error

SlotName(el) == IF HasStatic(el, "name") THEN FindStatic(el, "name").lit[1] ELSE "default"

Slot(el) ==
  SlotNode(SlotName(el), SelectSeq(el.attrs, LAMBDA a : a.form = "dyn"),
           IF Elements(el.children) = <<>> THEN Call("anchor", "", <<>>) ELSE SingleRoot(el.children))

(* The fields an attribute of a component sets in its props builder.       *)
Field(name, value) == [name |-> name, value |-> value, ok |-> TRUE]
BadField == [name |-> "", value |-> Lit(<<>>), ok |-> FALSE]
Fields(attr) ==
  LET prop == IF attr.name = "v-model" THEN "model_value" ELSE attr.name
  IN IF IsStructural(attr) THEN <<>>
     ELSE IF attr.computed \/ attr.mods # {} \/ (attr.form = "static" /\ attr.name = "ref")
     THEN <<BadField>>
     ELSE IF attr.form = "event" THEN <<Field("on_" \o attr.name, attr.value)>>
     ELSE IF attr.form = "dyn" THEN <<Field(attr.name, attr.value.parts[1].text)>>
     ELSE <<Field(prop, attr.value)>>
          \o (IF attr.name = "v-model" THEN <<Field("on_update_model_value", attr.value)>> ELSE <<>>)

HasSlotDirective(el) == el.tag = "template" /\ HasStatic(el, "v-slot")

(* `<template v-slot:name="binding">` children fill the named slots, the   *)
(* only other element the default one.                                     *)
Component(el) ==
  LET given == Elements(el.children)
      content == SelectSeq(given, LAMBDA c : ~HasSlotDirective(c))
      named == FlattenSeq([i \in DOMAIN given |->
                 IF HasSlotDirective(given[i]) THEN <<[to |-> FindStatic(given[i], "v-slot").lit,
                                                       nodes |-> given[i].children]>> ELSE <<>>])
      default == IF content = <<>> THEN <<>> ELSE <<[to |-> <<"default">>, nodes |-> content]>>
      contents == named \o default
      fill(c) == Setter(c.to[1], Tail(c.to), SingleRoot(c.nodes))
  IN ComponentNode(el.tag, FlattenSeq([i \in DOMAIN el.attrs |-> Fields(el.attrs[i])]),
                   [i \in DOMAIN contents |-> fill(contents[i])])

LowerElement(el) ==
  IF el.tag = "slot" THEN Slot(el)
  ELSE IF el.tag \in ComponentTags THEN Component(el)
  ELSE IF IsDynComponent(el) THEN Error
  ELSE BuildElement(el, "element", "")

(* The element after the arms of the chain whose last arm is before j.     *)
RECURSIVE ChainEnd(_, _)
ChainEnd(nodes, j) ==
  IF j > Len(nodes) \/ nodes[j].kind # "el" THEN j
  ELSE IF HasStatic(nodes[j], "v-else-if") THEN ChainEnd(nodes, j + 1)
  ELSE IF HasStatic(nodes[j], "v-else") THEN j + 1 ELSE j

(* One view per arm; the last condition of a v-else holds always. *)
GenIfChain(arms) ==
  LET cond(i) == IF i = 1 THEN FindStatic(arms[i], "v-if")
                 ELSE IF HasStatic(arms[i], "v-else-if") THEN FindStatic(arms[i], "v-else-if")
                 ELSE Lit(<<"true">>)
  IN SwitchPart([i \in DOMAIN arms |-> cond(i)], [i \in DOMAIN arms |-> LowerElement(arms[i])])

GenFor(el) == ForPart(FindStatic(el, "v-for"), HasDyn(el, "key"), LowerElement(el))

GenDynComponent(el) ==
  DynElementPart(FindDyn(el, "is").parts[1].text, BuildElement(el, "dyn_element_view", "is"))

(* The calls for the children from the i-th on. *)
Children(nodes, i) ==
  IF i > Len(nodes) THEN <<>>
  ELSE LET node == nodes[i]
           next == IF node.kind = "el" /\ HasStatic(node, "v-if") /\ ~HasStatic(node, "v-for")
                   THEN ChainEnd(nodes, i + 1) ELSE i + 1
           part ==
             IF node.kind = "text" THEN TextPart(node.text)
             ELSE IF node.kind = "interp" THEN Call("dyn_text", "", <<Always(node.expr)>>)
             ELSE IF HasStatic(node, "v-for") THEN GenFor(node)
             ELSE IF HasStatic(node, "v-if") THEN GenIfChain(SubSeq(nodes, i, next - 1))
             ELSE IF HasStatic(node, "v-else-if") \/ HasStatic(node, "v-else") THEN Error
             ELSE IF IsDynComponent(node) THEN GenDynComponent(node)
             ELSE ChildPart(LowerElement(node))
       IN <<part>> \o Children(nodes, next)

RootMember(node) ==
  IF node.kind = "text" THEN TextPart(node.text)
  ELSE IF node.kind = "interp" THEN Call("dyn_text", "", <<Always(node.expr)>>)
  ELSE IF \E d \in Directives : HasStatic(node, d) THEN Error
  ELSE ChildPart(LowerElement(node))

(* The program of a template. *)
Root(nodes) ==
  IF nodes = <<>> THEN Error
  ELSE IF Len(nodes) = 1 /\ nodes[1].kind = "el" THEN LowerElement(nodes[1])
  ELSE Fragment([i \in DOMAIN nodes |-> RootMember(nodes[i])])
=============================================================================
