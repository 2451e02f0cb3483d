----------------------------- MODULE MCCompiler -----------------------------
(***************************************************************************)
(* Sources, components and signals for model checking the compiler.        *)
(***************************************************************************)
EXTENDS CompilerProperties

Static(name, words) == ParseAttr("", name, FALSE, {}, Lit(words))
Directive(name, s) == ParseAttr("", name, FALSE, {}, Sig(s))
Model(mods, s) == ParseAttr("", "v-model", FALSE, mods, Sig(s))
Bound(name, mods, parts) == ParseAttr(":", name, FALSE, mods, [syntax |-> "plain", parts |-> parts])
Plain(name, s) == Bound(name, {}, <<Always(Sig(s))>>)
Object(name, parts) == ParseAttr(":", name, FALSE, {}, [syntax |-> "object", parts |-> parts])
Named(s, t) == ParseAttr(":", s, TRUE, {}, [syntax |-> "plain", parts |-> <<Always(Sig(t))>>])
On(name, mods, label, s) == ParseAttr("@", name, FALSE, mods, [sig |-> s, lit |-> <<label>>])
OnNamedBy(s, label, t) == ParseAttr("@", s, TRUE, {}, [sig |-> t, lit |-> <<label>>])

-----------------------------------------------------------------------------
(* Text, nesting, control flow, components and slots. *)

TextAlphabet == {Word, Blank, Comment, Interp(Sig("c")), Void("br", <<>>)}
NestAlphabet == {Open("div", <<>>), Close("div"), Open("p", <<>>), Close("p"), Word, Blank, Broken}
If == Void("a", <<Directive("v-if", "on")>>)
ElseIf == Void("b", <<Directive("v-else-if", "alt")>>)
Else == Void("i", <<Directive("v-else", "on")>>)
For == Void("li", <<Directive("v-for", "items"), Plain("key", "item"), Directive("v-text", "item")>>)
Keyless == Void("li", <<Directive("v-for", "items")>>)
Is == Void("component", <<Plain("is", "k")>>)
FlowAlphabet == {Open("div", <<>>), Close("div"), If, ElseIf, Else, For, Comment}
ListAlphabet == {Open("div", <<>>), Close("div"), Keyless, For, Is, Word,
                 Open("p", <<Directive("v-text", "c")>>), Close("p")}
Slotted(name, bound) ==
  Open("template", <<Static("v-slot", IF bound THEN <<name, "title">> ELSE <<name>>)>>)
CardAlphabet == {Open("Card", <<Static("title", <<"t">>)>>), Close("Card"), Slotted("head", TRUE),
                 Slotted("foot", FALSE), Close("template"), Void("b", <<Directive("v-text", "title")>>)}
PropsAlphabet == {Open("div", <<>>), Close("div"), Void("Card", <<Plain("tone", "c")>>),
                  Void("Card", <<Plain("title", "c"), Static("tone", <<"t">>)>>),
                  Void("Card", <<Static("title", <<"t">>), Plain("title", "c")>>),
                  Void("Field", <<Model({}, "c")>>), Void("Field", <<Model({"lazy"}, "c")>>),
                  Void("Card", <<Static("title", <<"t">>), Static("size", <<"t">>)>>)}
SlotAlphabet == {Open("slot", <<Static("name", <<"head">>), Plain("x", "c")>>), Close("slot"),
                 Open("slot", <<Plain("x", "c")>>), Void("slot", <<Static("name", <<"head">>)>>),
                 Void("b", <<>>), If, Is, Word}
BareAlphabet == {Open("div", <<>>), Close("div"), Void("Badge", <<>>), Void("Badge", <<Plain("tone", "c")>>),
                 Void("Rule", <<>>)}
SlottedAlphabet == {Open("Card", <<Static("title", <<"t">>)>>), Close("Card"), Slotted("head", FALSE),
                    Close("template"), If, Is}

(* Card shows its props, a scoped slot with a fallback and two plain ones. *)
CardTemplate ==
  <<Element("section", <<>>,
     <<Element("slot", <<Static("name", <<"head">>), Plain("x", "tone")>>,
               <<Element("h1", <<>>, <<DynText(Sig("title"))>>)>>),
       DynText(Sig("tone")),
       Element("slot", <<>>, <<>>),
       Element("slot", <<Static("name", <<"foot">>)>>, <<Element("hr", <<>>, <<>>)>>)>>)>>
BadgeTemplate == <<Element("b", <<>>, <<DynText(Sig("tone"))>>)>>
RuleTemplate == <<Element("hr", <<>>, <<>>)>>
FieldTemplate == <<Element("label", <<>>, <<DynText(Sig("model_value"))>>)>>
SomeLibrary ==
  [Badge |-> [template |-> BadgeTemplate, props |-> [tone |-> "optional"]],
   Rule |-> [template |-> RuleTemplate, props |-> <<>>],
   Card |-> [template |-> CardTemplate, props |-> [title |-> "required", tone |-> "optional"]],
   Field |-> [template |-> FieldTemplate,
              props |-> [model_value |-> "required", on_update_model_value |-> "required"]]]

-----------------------------------------------------------------------------
(* Single elements: classes and styles in every order, computed names,     *)
(* listeners and form controls.                                            *)

Orders(attrs) == UNION {SetToSeqs(s) : s \in SUBSET attrs}
On1 == Part(Lit(<<"x">>), "on", "holds")
ClassAttrs == {Static("class", <<"s">>), Object("class", <<On1, Always(Sig("c"))>>), Plain("title", "c")}
StyleAttrs == {Static("style", <<"s">>), Object("style", <<Always(Sig("c"))>>), Directive("v-show", "on")}
PlainAttrs == {Static("class", <<"s">>), Plain("class", "c"), Plain("style", "c"), Directive("v-show", "on")}
NamedAttrs == {Named("k", "c"), Static("class", <<"s">>)}
BagAttrs == {Directive("v-bind", "bag"), Plain("class", "c")}
NameAttrs == {Bound("view-box", {"camel"}, <<Always(Sig("c"))>>), Bound("title", {"prop"}, <<Always(Sig("c"))>>),
              Directive("ref", "on")}
SomeAttrs == UNION {Orders(a) : a \in {ClassAttrs, StyleAttrs, PlainAttrs, NamedAttrs, BagAttrs, NameAttrs}}
Listeners ==
  {<<On("click", {}, "h1", "n"), OnNamedBy("n", "h2", "n"), Directive("ref", "on")>>,
   <<On("click", {"self"}, "h1", ""), On("click", {"once", "ctrl"}, "h2", "")>>,
   <<On("click", {"right", "ctrl", "exact"}, "h1", "")>>,
   <<On("click", {"left"}, "h1", ""), On("keyup", {"left", "shift"}, "h2", "")>>,
   <<On("keyup", {"enter", "exact"}, "h1", ""), On("keyup", {}, "h2", "")>>,
   <<OnNamedBy("n", "h1", "")>>,
   <<OnNamedBy("n", "h1", "n"), On("click", {"once"}, "h2", "n"), On("keyup", {}, "h3", "n")>>}
Controls ==
  {Void("input", <<Model(mods, "m")>>) : mods \in SUBSET {"lazy", "trim", "number"}}
    \cup {Void("textarea", <<Model({}, "m")>>), Void("textarea", <<Model({"lazy"}, "m")>>),
          Void("input", <<Static("type", <<"checkbox">>), Model({}, "on")>>),
          Void("input", <<Static("type", <<"radio">>), Static("value", <<"1">>), Model({}, "m")>>),
          Void("input", <<Static("type", <<"radio">>), Model({}, "m"), Plain("value", "v")>>)}
Select == Open("select", <<Model({}, "s")>>)
Option(v) == Void("option", <<Static("value", <<v>>)>>)
SelectAlphabet == {Select, Option("1"), Option("2"), Close("select")}

SomeAlphabets ==
  {TextAlphabet, NestAlphabet, FlowAlphabet, ListAlphabet, CardAlphabet, PropsAlphabet,
   SlotAlphabet, SlottedAlphabet, BareAlphabet, SelectAlphabet}
    \cup {{Void("p", attrs)} : attrs \in SomeAttrs \cup Listeners} \cup {{l} : l \in Controls}
JustSelect == {SelectAlphabet}
JustBare == {BareAlphabet}

-----------------------------------------------------------------------------
Bools == {<<>>, <<"true">>}
SomeDomain ==
  [on |-> Bools, alt |-> Bools, c |-> {<<>>, <<"x">>, <<"y">>}, k |-> {<<"title">>, <<"lang">>},
   n |-> {<<"click">>, <<"keyup">>}, bag |-> {<<>>, <<"title">>, <<"lang", "title">>},
   m |-> {<<"1">>, <<"2">>}, v |-> {<<"1">>, <<"2">>}, s |-> {<<"1">>, <<"2">>},
   items |-> {<<>>, <<"1">>, <<"1", "2">>}, item |-> {<<"0">>}, title |-> {<<"outer">>}]
NoOption == [SomeDomain EXCEPT !.s = {<<"0">>}]
SomeTyped == {<<"1">>, <<" ", "2">>, <<"x">>, <<>>}
SomeNumbers == {<<"1">>, <<"2">>}

MouseEvent(b, held, self) == [name |-> "click", key |-> "", button |-> b, held |-> held, self |-> self]
KeyEvent(k, held) == [name |-> "keyup", key |-> k, button |-> 9, held |-> held, self |-> TRUE]
HeldKeys == {{}, {"ctrl"}, {"shift"}, {"ctrl", "shift"}}
SomeEvents == {MouseEvent(b, held, self) : b \in {0, 2}, held \in HeldKeys, self \in BOOLEAN}
                \cup {KeyEvent(k, held) : k \in {"Enter", "ArrowLeft"}, held \in HeldKeys}

SomeEnvironments ==
  {[sigs |-> [s \in DOMAIN SomeDomain |->
                CASE s = "on" -> a [] s = "alt" -> b [] s = "items" -> r
                  [] OTHER -> CHOOSE v \in SomeDomain[s] : v # <<>>],
    slots |-> <<>>] : a \in Bools, b \in Bools, r \in SomeDomain.items}
SomeCamelized == ("view-box" :> "viewBox")
=============================================================================
