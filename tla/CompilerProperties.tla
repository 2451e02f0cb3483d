------------------------- MODULE CompilerProperties -------------------------
(***************************************************************************)
(* What a template means, stated over the source, the parsed nodes and the *)
(* attributes as they are written, and the properties that compare it with *)
(* what the compiler and the bindings do.                                  *)
(***************************************************************************)
EXTENDS Compiler, FiniteSetsExt

CONSTANT Environments \* values of the signals for which programs are built

-----------------------------------------------------------------------------
(* The source.  Depth(k) is the number of elements open after k lexemes.   *)

Lexeme(i) == source[i].lex
Depth(k) ==
  Cardinality({i \in 1..k : Lexeme(i) = "open"}) - Cardinality({i \in 1..k : Lexeme(i) = "close"})
ClosesItsTag(j) ==
  \E i \in 1..j-1 :
    /\ Lexeme(i) = "open" /\ source[i].tag = source[j].tag
    /\ Depth(i) - 1 = Depth(j) /\ \A k \in i..j-1 : Depth(k) > Depth(j)
Malformed ==
  \E j \in DOMAIN source :
    Lexeme(j) = "broken" \/ (Lexeme(j) = "close" /\ ~ClosesItsTag(j))

(* White space counts between two pieces of one text run only.             *)
Kept(i) ==
  LET solid(j) == Lexeme(j) \notin {"blank", "comment"}
      content(j) == Lexeme(j) \in {"word", "interp"}
      before == {j \in 1..i-1 : solid(j)}
      after == {j \in i+1..Len(source) : solid(j)}
  IN /\ Lexeme(i) # "comment"
     /\ Lexeme(i) = "blank" => /\ before # {} /\ content(Max(before))
                               /\ after # {} /\ content(Min(after))
Significant ==
  LET spelled(l) == IF l.lex = "void" THEN <<Open(l.tag, l.attrs), Close(l.tag)>> ELSE <<l>>
  IN FlattenSeq([i \in DOMAIN source |-> IF Kept(i) THEN spelled(source[i]) ELSE <<>>])

RECURSIVE Unparse(_)
Unparse(nodes) ==
  FlattenSeq([i \in DOMAIN nodes |->
    LET n == nodes[i]
    IN IF IsText(n) THEN n.text
       ELSE IF n.kind = "interp" THEN <<Interp(n.expr)>>
       ELSE <<Open(n.tag, n.attrs)>> \o Unparse(n.children) \o <<Close(n.tag)>>])

(* A source is parsed exactly if its tags are balanced, and the nodes say  *)
(* what the source says: nothing but comments and formatting white space   *)
(* is lost, whatever comments and interpolations stand inside a text       *)
(* (parse_nodes, parse_text and normalize_text, parser.rs:97-333).         *)
ParsedAsWritten ==
  CASE outcome = "reading" -> ~Malformed
    [] outcome = "parsed" -> ~Malformed /\ Depth(Len(source)) = 0 /\ Unparse(Ast) = Significant
    [] outcome = "rejected" -> Malformed \/ Depth(Len(source)) # 0

-----------------------------------------------------------------------------
(* The lists of siblings in a template, with the place they are in.        *)

PlaceIn(el, place) ==
  IF el.tag = "slot" \/ (place = "component" /\ HasSlotDirective(el)) THEN "slot"
  ELSE IF el.tag \in ComponentTags THEN "component" ELSE "children"
OwnsContent(el) == HasStatic(el, "v-html") \/ HasStatic(el, "v-text")

RECURSIVE Contexts(_, _)
Contexts(nodes, place) ==
  {[nodes |-> nodes, place |-> place]}
    \cup UNION {Contexts(nodes[i].children, PlaceIn(nodes[i], place)) :
                  i \in {j \in DOMAIN nodes : nodes[j].kind = "el" /\ ~OwnsContent(nodes[j])}}

ElementsIn(nodes) == {i \in DOMAIN nodes : nodes[i].kind = "el"}
Follows(el) == HasStatic(el, "v-else-if") \/ HasStatic(el, "v-else")
HasDirective(el) == \E d \in Directives : HasStatic(el, d)

(* Control flow needs an enclosing element: not at the root of the         *)
(* template, of slot content or of a fallback.  Text in a component is not *)
(* slot content.                                                           *)
WellPlaced(c) ==
  \/ c.place = "children"
  \/ c.place = "root" /\ Len(c.nodes) > 1
  \/ \A i \in ElementsIn(c.nodes) : ~HasDirective(c.nodes[i])

GivesProps(attr) ==
  IF IsStructural(attr) THEN {}
  ELSE IF attr.name = "v-model" THEN {"model_value", "on_update_model_value"}
  ELSE {IF attr.form = "event" THEN "on_" \o attr.name ELSE attr.name}

(* The slots of a component's template, by name: scoped if a `<slot>` of   *)
(* that name hands out values.                                             *)
RECURSIVE SlotElements(_)
SlotElements(nodes) ==
  UNION {(IF nodes[i].tag = "slot" THEN {nodes[i]} ELSE {}) \cup SlotElements(nodes[i].children) :
           i \in ElementsIn(nodes)}
HandsOut(s) == \E i \in DOMAIN s.attrs : s.attrs[i].form = "dyn"
TakesSlot(tag, name, bound) ==
  \E s \in SlotElements(Library[tag].template) : SlotName(s) = name /\ (bound \/ ~HandsOut(s))

CallFits(el) ==
  LET props == Library[el.tag].props
      contents == {i \in ElementsIn(el.children) : ~HasSlotDirective(el.children[i])}
      named == {FindStatic(el.children[i], "v-slot").lit :
                  i \in ElementsIn(el.children) \ contents}
      givers(p) == {i \in DOMAIN el.attrs : p \in GivesProps(el.attrs[i])}
  IN /\ \A i \in DOMAIN el.attrs : GivesProps(el.attrs[i]) \subseteq DOMAIN props
                                 /\ el.attrs[i].mods = {}
     /\ \A p \in DOMAIN props : props[p] = "required" => Cardinality(givers(p)) = 1
     /\ Cardinality(contents) <= 1
     /\ contents # {} => TakesSlot(el.tag, "default", FALSE)
     /\ \A lit \in named : TakesSlot(el.tag, lit[1], Len(lit) > 1)

ElementFits(el, place) ==
  /\ el.tag \in ComponentTags => CallFits(el)
  /\ el.tag = "slot" /\ HandsOut(el) => SlotName(el) \in ScopedSlots
  /\ IsDynComponent(el) => place = "children" /\ ~HasDirective(el)
  /\ HasStatic(el, "v-for") => HasDyn(el, "key")

WellFormed(c) ==
  /\ \A i \in ElementsIn(c.nodes) : ElementFits(c.nodes[i], c.place)
  /\ c.place = "children" =>
       \A i \in ElementsIn(c.nodes) :
         Follows(c.nodes[i]) =>
           /\ i - 1 \in ElementsIn(c.nodes)
           /\ HasStatic(c.nodes[i-1], "v-if") \/ HasStatic(c.nodes[i-1], "v-else-if")
  /\ c.place = "root" =>
       /\ c.nodes # <<>>
       /\ \A i \in ElementsIn(c.nodes) : ~HasDirective(c.nodes[i])
  /\ c.place = "slot" => Cardinality(ElementsIn(c.nodes)) <= 1

(* A slot's content is one element; a fallback may be empty.               *)
NoEmptyContent(c) ==
  \A i \in ElementsIn(c.nodes) :
    c.place = "component" /\ HasSlotDirective(c.nodes[i]) => ElementsIn(c.nodes[i].children) # {}

(* All the slots of one name hand out values, or none does.                *)
SlotsAgree ==
  LET slots == UNION {{c.nodes[i] : i \in {j \in ElementsIn(c.nodes) : c.nodes[j].tag = "slot"}} :
                        c \in Contexts(Ast, "root")}
  IN \A s, t \in slots : SlotName(s) = SlotName(t) => (HandsOut(s) <=> HandsOut(t))

(* A component that has props is given one of them. *)
NoBareCall(c) ==
  \A i \in ElementsIn(c.nodes) :
    LET el == c.nodes[i]
    IN el.tag \in ComponentTags /\ DOMAIN Library[el.tag].props # {} =>
         \E a \in ToSet(el.attrs) : ~IsStructural(a)

Placed == \A c \in Contexts(Ast, "root") : WellPlaced(c)

(* The compiler and the types of the code it generates accept a template   *)
(* exactly if every v-else follows its v-if, every list has a key, every   *)
(* component gets its required props, at least one prop if it has any, no  *)
(* unknown one and only slots it has, slot content is a single element,    *)
(* and the slots of one name agree on whether they hand out values         *)
(* (Codegen::root, children, component, element, codegen.rs:61-637;        *)
(* gen_slots_struct and gen_props_builder, component.rs:168-453).          *)
AcceptsWellFormed ==
  outcome = "parsed" /\ Placed =>
    (Compiles(Ast) <=>
       /\ SlotsAgree
       /\ \A c \in Contexts(Ast, "root") : WellFormed(c) /\ NoEmptyContent(c) /\ NoBareCall(c))

(* The claim of codegen.rs:410 for every call: a template is accepted also *)
(* if it leaves out all the props of a component, when all are optional    *)
(* (Codegen::component, codegen.rs:407).                                   *)
OptionalPropsMayBeOmitted ==
  outcome = "parsed" /\ Placed /\ SlotsAgree
    /\ (\A c \in Contexts(Ast, "root") : WellFormed(c) /\ NoEmptyContent(c))
    => Compiles(Ast)

-----------------------------------------------------------------------------
(* The nodes a template describes.  An element with v-if, v-else-if or     *)
(* v-else is there if its condition holds and none of the arms before it,  *)
(* back to its v-if, does; one with v-for is there once per item.          *)

ArmHolds(el, env) ==
  LET cond == IF HasStatic(el, "v-if") THEN FindStatic(el, "v-if")
              ELSE IF HasStatic(el, "v-else-if") THEN FindStatic(el, "v-else-if")
              ELSE Lit(<<"true">>)
  IN Truth(Value(cond, env.sigs))
Present(nodes, i, env) ==
  LET starts == {k \in 1..i-1 : nodes[k].kind = "el" /\ HasStatic(nodes[k], "v-if")}
      before == IF Follows(nodes[i]) THEN Max(starts)..i-1 ELSE {}
  IN ArmHolds(nodes[i], env) /\ \A k \in before : ~ArmHolds(nodes[k], env)

GivenProp(el, prop, env) ==
  LET givers == SelectSeq(el.attrs, LAMBDA a : prop \in GivesProps(a))
      value == Last(givers).value
  IN IF givers = <<>> THEN <<"default">>
     ELSE Value(IF Last(givers).form = "dyn" THEN value.parts[1].text ELSE value, env.sigs)

RECURSIVE Written(_, _), WrittenElement(_, _)
WrittenElement(el, env) ==
  LET contents == SelectSeq(el.children, LAMBDA c : c.kind = "el" /\ ~HasSlotDirective(c))
      named(name) == SelectSeq(el.children,
                       LAMBDA c : /\ c.kind = "el" /\ HasSlotDirective(c)
                                  /\ FindStatic(c, "v-slot").lit[1] = name)
      content(name) == IF name = "default" /\ contents # <<>> THEN contents
                       ELSE IF named(name) # <<>> THEN Elements(Last(named(name)).children)
                       ELSE <<>>
      binding(name) == IF named(name) = <<>> THEN <<>>
                       ELSE Tail(FindStatic(Last(named(name)), "v-slot").lit)
      payload == SelectSeq(el.attrs, LAMBDA a : a.form = "dyn")
      names == {n \in {SlotName(s) : s \in SlotElements(Library[el.tag].template)} : content(n) # <<>>}
      props == DOMAIN Library[el.tag].props
  IN IF el.tag \in ComponentTags
     THEN Written(Library[el.tag].template,
            [sigs |-> [p \in props |-> GivenProp(el, p, env)] @@ env.sigs,
             slots |-> [n \in names |-> [view |-> content(n), binding |-> binding(n), env |-> env]]])
     ELSE IF el.tag = "slot" /\ SlotName(el) \in DOMAIN env.slots
     THEN LET given == env.slots[SlotName(el)]
          IN Written(given.view,
               IF payload = <<>> THEN given.env
               ELSE Bind(given.env, given.binding[1], Value(payload[1].value.parts[1].text, env.sigs)))
     ELSE IF el.tag = "slot" THEN Written(Elements(el.children), env)
     ELSE <<TreeNode(IF IsDynComponent(el) THEN Value(FindDyn(el, "is").parts[1].text, env.sigs)[1]
                     ELSE el.tag,
                     IF HasStatic(el, "v-text")
                     THEN <<TextNode(Value(FindStatic(el, "v-text"), env.sigs))>>
                     ELSE IF OwnsContent(el) THEN <<>> ELSE Written(el.children, env))>>

Written(nodes, env) ==
  LET rows(el) == Value(FindStatic(el, "v-for"), env.sigs)
      copies(i) ==
        LET n == nodes[i]
        IN IF IsText(n) THEN <<TextNode(Lexes(n.text))>>
           ELSE IF n.kind = "interp" THEN <<TextNode(Value(n.expr, env.sigs))>>
           ELSE IF HasStatic(n, "v-for")
           THEN FlattenSeq([k \in DOMAIN rows(n) |->
                              WrittenElement(n, Bind(env, "item", <<rows(n)[k]>>))])
           ELSE IF Present(nodes, i, env) THEN WrittenElement(n, env) ELSE <<>>
  IN FlattenSeq([i \in DOMAIN nodes |-> copies(i)])

(* Whatever the signals are, an accepted template shows what it describes: *)
(* of a chain the first arm whose condition holds, every text and row in   *)
(* the written order, a component's template with the props given and the  *)
(* slot content of its parent or the fallback (gen_if_chain, gen_for,      *)
(* component, slot_fallback, codegen.rs:128-637).                          *)
RendersAsWritten ==
  outcome = "parsed" /\ Placed /\ Compiles(Ast) =>
    \A env \in Environments : Build(Root(Ast), env) = Written(Ast, env)

-----------------------------------------------------------------------------
(* One element in use: the attributes as they are written.                 *)

Host == Ast[1]
Settled == phase = "mounted" /\ pending = <<>>

(* The words an attribute contributes to the attribute `name`. *)
Contributes(attr, name) ==
  LET parts == ToSet(attr.value.parts)
      words == UNION {ToSet(Value(p.text, sigs)) : p \in {q \in parts : Holds(q, sigs)}}
  IN CASE attr.form = "event" -> {}
       [] attr.form = "dyn" ->
            IF (IF attr.computed THEN sigs[attr.name] = <<name>>
                ELSE (IF "camel" \in attr.mods THEN Camelize(attr.name) ELSE attr.name) = name)
            THEN words ELSE {}
       [] attr.name = "v-show" ->
            IF name = "style" /\ ~Truth(sigs[attr.value.sig]) THEN {"display: none"} ELSE {}
       [] attr.name = "v-bind" -> IF name \in ToSet(sigs[attr.value.sig]) THEN {"bag"} ELSE {}
       [] attr.name = name -> ToSet(attr.value.lit)
       [] OTHER -> {}

AttributeNames == {"class", "style", "title", "lang", "viewBox"}
WordsIn(f, name) == IF name \in DOMAIN f THEN ToSet(f[name]) ELSE {}

(* Once the queued effects have run, each attribute has the words of all   *)
(* the attributes written for it, in whatever order they are written and   *)
(* the signals have changed: a static and a dynamic class or style and     *)
(* v-show do not overwrite each other, and no attribute of a former name   *)
(* or bag is left (build_element, codegen.rs:205-322; dyn_attr_named and   *)
(* dyn_attrs, element.rs:107-156).                                         *)
AttributesFollow ==
  Settled =>
    \A name \in AttributeNames :
      WordsIn(dom.attrs, name) \cup WordsIn(dom.props, name)
        = UNION {Contributes(a, name) : a \in ToSet(Host.attrs)}

(* v-model: in the browser, once the effects have run, a control shows its *)
(* model: what it shows converts to the model, and what the user has typed *)
(* or picked is in the model unless a lazy control waits for its commit    *)
(* (gen_attr, codegen.rs:687-777; read_value, web.rs:75-90).               *)
Models == {a \in ToSet(Host.attrs) : a.form = "static" /\ a.name = "v-model"}
Kind == IF IsToggle THEN StaticWord("type") ELSE IF host.tag = "select" THEN "select" ELSE "text"
Valued(name) ==
  LET a == CHOOSE x \in ToSet(Host.attrs) : x.name = name
  IN Value(IF a.form = "dyn" THEN a.value.parts[1].text ELSE a.value, sigs)
ModelInSync ==
  Settled /\ web =>
    \A a \in Models :
      LET model == sigs[a.value.sig]
      IN CASE Kind = "checkbox" -> Truth(dom.shown) = Truth(model)
           [] Kind = "radio" -> Truth(dom.shown) = (model = Valued("value"))
           [] Kind = "select" -> model \in ToSet(dom.options) => dom.shown = model
           [] Kind = "text" -> \/ "lazy" \in a.mods /\ dom.edited
                               \/ Converted(a.mods, dom.shown, model) = model

(* The meaning of a listener's modifiers (EventOptions, backend.rs:3-46),  *)
(* and its name, when the event was dispatched.                            *)
Label(attr) == attr.value.lit[1]
KeysOf(attr) == {KeyName[m] : m \in attr.mods \cap DOMAIN KeyName}
ButtonsOf(attr) == {MouseButton[m] : m \in attr.mods \cap DOMAIN MouseButton}
Handlers == {a \in ToSet(Host.attrs) : a.form = "event"}
Hears(attr, e) ==
  /\ IF attr.computed THEN prior.sigs[attr.name] = <<e.name>> ELSE attr.name = e.name
  /\ "once" \in attr.mods => Label(attr) \notin prior.spent
  /\ "self" \in attr.mods => e.self
  /\ e.name \in KeyboardEvents /\ KeysOf(attr) # {} => e.key \in KeysOf(attr)
  /\ e.name \in MouseEvents /\ ButtonsOf(attr) # {} => e.button \in ButtonsOf(attr)
  /\ \A k \in SystemModifiers :
       /\ k \in attr.mods => k \in e.held
       /\ "exact" \in attr.mods /\ k \in e.held => k \in attr.mods

(* A handler whose listener no other handler of the event has moved. *)
StaysPut(attr) ==
  attr.computed =>
    \A a \in Handlers \ {attr} : Label(a) \in ToSet(ran) => a.value.sig # attr.name

(* An event runs each handler at most once, and only handlers written for  *)
(* it: the current name of a computed one, each guard as documented, a     *)
(* once handler never again, however names and signals changed before.     *)
(* When all its listeners have been called it has run all of them; but     *)
(* what a handler changes may move a computed one, or dispose the element, *)
(* before the browser comes to it (build_event_options, codegen.rs:912;    *)
(* on_named, element.rs:241; dispatch_full, mock.rs:221;                   *)
(* add_event_listener, web.rs:241).                                        *)
HandlersAsWritten ==
  event # NoEvent /\ prior.settled =>
    LET met == {a \in Handlers : prior.live /\ Hears(a, event)}
        sure == {a \in met : ~web \/ (phase = "mounted" /\ (event.between => StaysPut(a)))}
    IN /\ IsInjective(ran)
       /\ ToSet(ran) \subseteq {Label(a) : a \in met}
       /\ dom.due = <<>> => {Label(a) : a \in sure} \subseteq ToSet(ran)

(* After its scope is disposed, in the middle of an event or not, an       *)
(* element has no listener and no template ref, nothing writes to it any   *)
(* more, whatever was queued before, and no handler of it runs, but that   *)
(* the mock still calls the listeners of an event that has begun           *)
(* (cleanup_listener, node_ref and on_named, element.rs:165-285;           *)
(* dispatch_full, mock.rs:228).                                            *)
NothingLeft ==
  [][phase' = "disposed" =>
       /\ dom'.listeners = <<>> /\ ~dom'.ref
       /\ phase = "disposed" => /\ [dom' EXCEPT !.due = dom.due] = dom
                                /\ ran' \notin {ran, <<>>} => ~web /\ prior.live]_vars
=============================================================================
