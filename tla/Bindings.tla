------------------------------ MODULE Bindings ------------------------------
(***************************************************************************)
(* One element in use: the El builder's attribute, text and listener       *)
(* bindings (vue-rs-dom/src/element.rs) on the mock and on the browser     *)
(* backend, from its creation by a lowered program to the disposal of its  *)
(* scope.  Signals are written by the program, by handlers and by the user *)
(* through v-model; the effects of the bindings run later, in a flush (a   *)
(* synchronous flush is one that follows at once).  An event calls its     *)
(* listeners one by one; flushes, and the disposal, come between them.     *)
(***************************************************************************)
EXTENDS Component

CONSTANTS
  Domain,   \* the values each signal may have: [signal -> set of values]
  Initial,  \* the values it may have when the element is created
  Typed,    \* what a user may type
  Numbers,  \* the words that parse as a number
  Events    \* the events that may reach the element or one of its children

VARIABLES
  host,     \* the program of the element
  web,      \* the backend: the browser's or the mock
  phase,    \* "none", "mounted" or "disposed"
  sigs,     \* signal -> value
  dom,      \* what the backend and the bindings' closures hold
  pending,  \* the calls whose effects are queued, in order
  event,    \* the event under way
  ran,      \* the handlers it has run, in order
  prior,    \* history: what held when it was dispatched
  spent     \* history: the once handlers whose event has come

bindingVars == <<host, web, phase, sigs, dom, pending, event, ran, prior, spent>>

NoEvent == [name |-> "none"]
Signals == DOMAIN Domain
Calls == host.calls

StaticWord(name) ==
  LET of == SelectSeq(Calls, LAMBDA c : c.op = "attr" /\ c.name = name)
  IN IF of = <<>> THEN "" ELSE of[1].parts[1].text.lit[1]
IsToggle == host.tag = "input" /\ StaticWord("type") \in {"checkbox", "radio"}

Holds(part, s) ==
  CASE part.test = "always" -> TRUE
    [] part.test = "holds" -> Truth(s[part.when])
    [] part.test = "fails" -> ~Truth(s[part.when])
    [] part.test = "equals" -> s[part.when] = Value(part.text, s)
(* ClassList and StyleList: the fragments that hold, joined. *)
Joined(parts, s) ==
  FlattenSeq([i \in DOMAIN parts |-> IF Holds(parts[i], s) THEN Value(parts[i].text, s) ELSE <<>>])

Parts(call) == IF call.op = "child" THEN <<>> ELSE call.parts
Reads(call) ==
  ({p.when : p \in ToSet(Parts(call))} \cup {p.text.sig : p \in ToSet(Parts(call))}
     \cup (IF call.op \in {"dyn_attr_named", "on_named"} THEN {call.name} ELSE {})) \cap Signals

-----------------------------------------------------------------------------
(* The backends.  `shown` is what the user sees in a form control.         *)

NewNode == [attrs |-> <<>>, props |-> <<>>, shown |-> <<>>, options |-> <<>>, edited |-> FALSE,
            content |-> <<>>, listeners |-> <<>>, due |-> <<>>, prev |-> [i \in DOMAIN Calls |-> {}],
            current |-> [i \in DOMAIN Calls |-> <<>>], ref |-> FALSE, cleanups |-> <<>>]

Put(f, name, value) == (name :> value) @@ f
Drop(f, names) == [n \in DOMAIN f \ names |-> f[n]]

SetAttributeOnly(d, name, value) == [d EXCEPT !.attrs = Put(@, name, value)]

(* The value of a text input is a live property in the browser. *)
SetAttribute(d, name, value) ==
  IF web /\ name = "value" /\ host.tag = "input" /\ ~IsToggle
  THEN [d EXCEPT !.shown = value, !.edited = FALSE]
  ELSE [d EXCEPT !.attrs = Put(@, name, value)]

(* A select shows one of the options it has at the time. *)
SetProperty(d, name, value) ==
  IF name = "value" /\ host.tag = "select"
  THEN [d EXCEPT !.shown = IF value \in ToSet(d.options) THEN value ELSE <<>>]
  ELSE IF name \in {"value", "checked"} THEN [d EXCEPT !.shown = value, !.edited = FALSE]
  ELSE [d EXCEPT !.props = Put(@, name, value)]

RemoveAttributes(d, names) == [d EXCEPT !.attrs = Drop(@, names)]

(* A select without a selected option selects the one it is given. *)
AppendOption(d, value) ==
  [d EXCEPT !.options = Append(@, value), !.shown = IF @ = <<>> THEN value ELSE @]

ListenerOf(i, name) == [call |-> i, event |-> name]
AddListener(d, listener) == [d EXCEPT !.listeners = Append(@, listener)]

(* The browser does not call a listener removed while its event is under   *)
(* way; the mock has copied the listeners it calls.                        *)
RemoveListener(d, listener) ==
  [d EXCEPT !.listeners = Remove(@, listener), !.due = IF web THEN Remove(@, listener) ELSE @]

-----------------------------------------------------------------------------
(* What a call does when it is made and whenever its effect runs again.    *)

NamedWithoutRemoval(d, i, s) ==
  SetAttribute(d, s[Calls[i].name][1], Joined(Calls[i].parts, s))

DynAttrNamed(d, i, s) ==
  LET next == s[Calls[i].name][1]
      cleared == RemoveAttributes(d, d.prev[i] \ {next})
  IN [SetAttribute(cleared, next, Joined(Calls[i].parts, s)) EXCEPT !.prev[i] = {next}]

DynAttrs(d, i, s) ==
  LET names == Joined(Calls[i].parts, s)
      cleared == RemoveAttributes(d, d.prev[i] \ ToSet(names))
  IN [FoldLeft(LAMBDA x, n : SetAttribute(x, n, <<"bag">>), cleared, names)
        EXCEPT !.prev[i] = ToSet(names)]

(* `current` is shared by the effect and the cleanup.                      *)
DropCurrent(d, i) ==
  IF d.current[i] = <<>> THEN d
  ELSE RemoveListener([d EXCEPT !.current[i] = <<>>], d.current[i][1])
OnNamedOnce(d, i, s) ==
  LET next == ListenerOf(i, s[Calls[i].name][1])
  IN IF d.current[i] # <<>> THEN d ELSE AddListener([d EXCEPT !.current[i] = <<next>>], next)
OnNamed(d, i, s) ==
  LET next == ListenerOf(i, s[Calls[i].name][1])
  IN IF d.current[i] = <<next>> THEN d
     ELSE AddListener([DropCurrent(d, i) EXCEPT !.current[i] = <<next>>], next)

Perform(d, i, s) ==
  LET call == Calls[i]
      value == Joined(Parts(call), s)
  IN CASE call.op \in {"attr", "dyn_attr"} -> SetAttribute(d, call.name, value)
       [] call.op \in {"dyn_prop", "dyn_bool_prop"} -> SetProperty(d, call.name, value)
       [] call.op = "dyn_attr_named" -> DynAttrNamed(d, i, s)
       [] call.op = "dyn_attrs" -> DynAttrs(d, i, s)
       [] call.op \in {"dyn_text", "dyn_inner_html"} -> [d EXCEPT !.content = value]
       [] call.op = "node_ref" -> [d EXCEPT !.ref = TRUE]
       [] call.op \in {"on", "on_value"} -> AddListener(d, ListenerOf(i, call.name))
       [] call.op = "on_named" -> OnNamed(d, i, s)
       [] call.op = "child" -> AppendOption(d, call.view.calls[1].parts[1].text.lit)
       [] OTHER -> d

PerformAll(d, order, s) == FoldLeft(LAMBDA x, i : Perform(x, i, s), d, order)

(* These calls register a cleanup with the enclosing scope when they are   *)
(* made; the one of on_named detaches the listener of the time.            *)
CleanedUp == {"on", "on_value", "on_named", "node_ref"}
Make(d, i, s) ==
  LET made == Perform(d, i, s)
  IN [made EXCEPT !.cleanups = IF Calls[i].op \in CleanedUp THEN Append(@, i) ELSE @]
MakeAll(s) == FoldLeft(LAMBDA x, i : Make(x, i, s), NewNode, [i \in DOMAIN Calls |-> i])

CleanUpSteady(d, i) ==
  CASE Calls[i].op \in {"on", "on_value"} -> RemoveListener(d, ListenerOf(i, Calls[i].name))
    [] Calls[i].op = "node_ref" -> [d EXCEPT !.ref = FALSE]
    [] OTHER -> d
CleanUp(d, i) ==
  CASE Calls[i].op \in {"on", "on_value"} -> RemoveListener(d, ListenerOf(i, Calls[i].name))
    [] Calls[i].op = "on_named" -> DropCurrent(d, i)
    [] Calls[i].op = "node_ref" -> [d EXCEPT !.ref = FALSE]

Effects == {"dyn_attr", "dyn_prop", "dyn_bool_prop", "dyn_attr_named", "dyn_attrs",
            "dyn_text", "dyn_inner_html", "on_named"}

(* Only the signals an element uses take different values. *)
Used(calls) == UNION {Reads(calls[i]) : i \in DOMAIN calls}
Valuations(used) ==
  {[x \in Signals |-> IF x \in used THEN f[x] ELSE CHOOSE v \in Initial[x] : TRUE] :
     f \in {g \in [used -> UNION {Initial[x] : x \in used}] : \A x \in used : g[x] \in Initial[x]}}

(* A write of an equal value is no change; the effects that read the       *)
(* signal are queued once, in the order they were made.                    *)
Set(s, value) ==
  /\ sigs' = [sigs EXCEPT ![s] = value]
  /\ LET stale(i) == /\ Calls[i].op \in Effects /\ s \in Reads(Calls[i])
                     /\ i \notin ToSet(pending) /\ value # sigs[s]
     IN pending' = pending \o SelectSeq([i \in DOMAIN Calls |-> i], stale)

-----------------------------------------------------------------------------
NotInEvent == event = NoEvent /\ UNCHANGED <<event, ran, prior>>
Same == UNCHANGED <<host, web, phase, spent>>

Mount(program) ==
  /\ phase = "none"
  /\ host' = program /\ phase' = "mounted"
  /\ web' \in BOOLEAN
  /\ \E values \in Valuations(Used(program.calls)) : sigs' = values
  /\ dom' = MakeAll(sigs)'
  /\ pending' = <<>> /\ spent' = {}
  /\ NotInEvent

Write(s, value) ==
  /\ phase = "mounted" /\ s \in Used(Calls)
  /\ Set(s, value)
  /\ NotInEvent
  /\ UNCHANGED dom /\ Same

(* Between two listeners of an event there is a flush if there is no       *)
(* scheduler, and in the browser, whose microtasks run after each listener *)
(* unless the event is dispatched by a script.                             *)
MayFlush == pending # <<>> /\ (event # NoEvent => event.between)
Flushed == event # NoEvent /\ event.between => pending = <<>>

(* Disposed effects do not run. *)
Flush ==
  /\ MayFlush
  /\ pending' = <<>>
  /\ dom' = IF phase = "mounted" THEN PerformAll(dom, pending, sigs) ELSE dom
  /\ UNCHANGED <<sigs, event, ran, prior>> /\ Same

(* The scope is disposed by the program, or by a handler or what it made   *)
(* run: its cleanups run, the last one first.                              *)
Dispose ==
  /\ phase = "mounted"
  /\ event # NoEvent => ran # <<>>
  /\ phase' = "disposed"
  /\ dom' = FoldLeft(CleanUp, dom, Reverse(dom.cleanups))
  /\ UNCHANGED <<host, web, sigs, pending, event, ran, prior, spent>>

-----------------------------------------------------------------------------
(* Events.  A listener's guards, in the mock and in the browser; only a    *)
(* keyboard event has a key, only a mouse event a button.                  *)

SystemModifiers == {"ctrl", "alt", "shift", "meta"}
SystemModifiersPass(opts, held) ==
  /\ SystemModifiers \cap opts.flags \subseteq held
  /\ "exact" \in opts.flags => held \subseteq opts.flags

GuardsPass(opts, e) ==
  /\ "self" \in opts.flags => e.self
  /\ opts.keys # {} => e.key \in opts.keys
  /\ opts.buttons # {} => e.button \in opts.buttons
  /\ SystemModifiersPass(opts, e.held)

(* An event reaches the element, also after its disposal.                  *)
Dispatch(e, between) ==
  /\ event = NoEvent /\ phase # "none"
  /\ \E i \in DOMAIN Calls : Calls[i].op \in {"on", "on_named"}
  /\ between => pending = <<>>
  /\ event' = ("between" :> between) @@ e
  /\ ran' = <<>>
  /\ dom' = [dom EXCEPT !.due = SelectSeq(dom.listeners, LAMBDA l : l.event = e.name)]
  /\ prior' = [sigs |-> sigs, spent |-> spent, settled |-> pending = <<>>, live |-> phase = "mounted"]
  /\ UNCHANGED <<sigs, pending>> /\ Same

IsOnce(call) == call.op = "on" /\ "once" \in call.opts.flags
Handler(call) == call.does.lit[1]

(* Each handler is a batch of its own.                                     *)
Handle(call) ==
  /\ ran' = Append(ran, Handler(call))
  /\ \/ UNCHANGED <<sigs, pending>>
     \/ /\ call.does.sig \in Used(Calls)
        /\ \E value \in Domain[call.does.sig] : Set(call.does.sig, value)

(* The next listener is called.  A once listener is spent even if a guard  *)
(* skips its handler; the browser removes it before the call.              *)
Hear ==
  /\ event # NoEvent /\ dom.due # <<>> /\ Flushed
  /\ LET listener == Head(dom.due)
         call == Calls[listener.call]
     IN /\ dom' = [dom EXCEPT !.due = Tail(@),
                              !.listeners = IF web /\ IsOnce(call) THEN Remove(@, listener) ELSE @]
        /\ spent' = spent \cup (IF IsOnce(call) THEN {Handler(call)} ELSE {})
        /\ \/ GuardsPass(call.opts, event) /\ Handle(call)
           \/ ~GuardsPass(call.opts, event) /\ UNCHANGED <<sigs, pending, ran>>
  /\ UNCHANGED <<host, web, phase, event, prior>>

(* The mock removes its once listeners after the last call.                *)
EventDone ==
  /\ event # NoEvent /\ dom.due = <<>> /\ Flushed
  /\ LET remains(l) == web \/ l.event # event.name \/ ~IsOnce(Calls[l.call])
     IN dom' = [dom EXCEPT !.listeners = SelectSeq(@, remains)]
  /\ event' = NoEvent /\ ran' = <<>> /\ prior' = NoEvent
  /\ UNCHANGED <<sigs, pending>> /\ Same

-----------------------------------------------------------------------------
(* v-model: the user changes a form control of the browser, and its event  *)
(* hands what the control shows to the model.                              *)

TrimWords(words) ==
  LET first == SelectInSeq(words, LAMBDA w : w # " ")
  IN IF first = 0 THEN <<>>
     ELSE SubSeq(words, first, SelectLastInSeq(words, LAMBDA w : w # " "))
Converted(take, words, current) ==
  LET text == IF "trim" \in take THEN TrimWords(words) ELSE words
  IN IF "number" \notin take \/ text \in Numbers THEN text ELSE current

(* The on_value handler of the event, if any: (model).set(..). *)
Emit(name, d) ==
  LET on == {l \in ToSet(d.listeners) : l.event = name /\ Calls[l.call].op = "on_value"}
  IN IF on = {} THEN UNCHANGED <<sigs, pending>>
     ELSE \E l \in on :
            LET sets == Calls[l.call].does
                value == IF "checked" \in sets.take THEN d.shown
                         ELSE IF "value" \in sets.take THEN Value(sets.value, sigs)
                         ELSE Converted(sets.take, d.shown, sigs[sets.model])
            IN Set(sets.model, value)

Using(d) ==
  /\ dom' = d
  /\ NotInEvent /\ Same

UserTypes ==
  /\ host.tag \in {"input", "textarea"} /\ ~IsToggle
  /\ \E words \in Typed :
       LET d == [dom EXCEPT !.shown = words, !.edited = TRUE]
       IN words # dom.shown /\ Using(d) /\ Emit("input", d)

UserCommits ==
  /\ dom.edited
  /\ LET d == [dom EXCEPT !.edited = FALSE] IN Using(d) /\ Emit("change", d)

UserPicks ==
  /\ host.tag = "select"
  /\ \E value \in ToSet(dom.options) :
       LET d == [dom EXCEPT !.shown = value]
       IN value # dom.shown /\ Using(d) /\ Emit("change", d)

(* A radio button is not unchecked by its user. *)
UserToggles ==
  /\ IsToggle /\ (StaticWord("type") = "radio" => ~Truth(dom.shown))
  /\ LET d == [dom EXCEPT !.shown = IF Truth(@) THEN <<>> ELSE <<"true">>]
     IN Using(d) /\ Emit("change", d)

Binding ==
  \/ \E s \in Signals : \E value \in Domain[s] : Write(s, value)
  \/ Flush \/ Dispose
  \/ \E e \in Events, between \in BOOLEAN : Dispatch(e, between)
  \/ Hear \/ EventDone
  \/ phase = "mounted" /\ web /\ (UserTypes \/ UserCommits \/ UserPicks \/ UserToggles)

BindingInit ==
  /\ host = Error /\ web = FALSE /\ phase = "none"
  /\ sigs = [s \in Signals |-> <<>>] /\ dom = <<>> /\ pending = <<>>
  /\ event = NoEvent /\ ran = <<>> /\ prior = NoEvent /\ spent = {}
=============================================================================
