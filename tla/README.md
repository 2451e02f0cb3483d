# Verification of vue-rs

TLA+ modules about [vue-rs](../src), a port of Vue's reactivity system and template
compiler to Rust: what its reactive runtime, its DOM builder and its template compiler do,
what they promise, TLC runs that check the one against the other on small programs, and
TLAPS proofs for all programs.

Paths below are relative to `src/crates/`; `runtime.rs` is
`vue-rs-reactive/src/runtime.rs`.

    tlc -workers 4 -config RuntimeFlush.cfg MCRuntime.tla      # a run; see the table below
    tlapm View_proofs.tla                                      # the proofs of a module

## 1. The system

vue-rs is single threaded: one thread-local `Runtime` (`RT`), a DOM backend, and generated
code that calls both. There are no threads, files or messages at run time. What makes it hard
is **re-entrancy**. Every operation of the runtime may call user closures, and these may call
any operation again: a read recomputes a computed, which reads; a write marks nodes and may
flush, which runs effects, which write, batch, dispose, or create more nodes. The code holds
the borrow of the runtime only between two calls of user code, so each of these pieces is
atomic and everything between them is not. State that is read before a closure is called and
used after it may have changed.

| Component | State | Operations | Talks to |
|---|---|---|---|
| **Scheduler** (`runtime.rs`) | `Node::{value, state}`, `pending`, `sync_pending`, `post_flush`, `batch_depth`, `reading_depth`, `flushing`, `scheduler`, `flush_scheduled`, `observer` | `get`, `with`, `set`, `update`, `batch`, `next_tick`, `effect`, `set_scheduler`, `clear_scheduler`, `flush_jobs`; inside: `notify_subscribers`, `mark_stale`, `update_if_necessary`, `update`, `flush_pending`, `maybe_flush` | links (edges), user closures, the host's microtasks through the hook |
| **Arena** (`runtime.rs:28-115`) | slots with generations, free list | `insert`, `get`, `remove` | every handle of a node |
| **Dependency links** (`runtime.rs:217-528`) | a pool of links, each in two intrusive lists; heads and tails in the nodes; `deps_tail` doubles as the tracking cursor | `link`, `start_tracking`, `end_tracking`, `clear_deps`, `detach_subs` | scheduler (tracking), ownership (disposal) |
| **Ownership** (`runtime.rs:567-608, 1494-1660, 1755-1777`) | `owner`, `owned`, `cleanups`, `contexts`, the current owner | `create_root`, `effect_scope`, `run`, `stop`, `on_cleanup`, `on_scope_dispose`, `provide_context`, `use_context`; inside: `run_owner_teardown`, `dispose_node` | scheduler (an effect is torn down before it runs again), user callbacks |
| **watch, untrack** (`runtime.rs:1377-1490`) | the previous value and the callback, shared with a deferred call | `watch`, `watch_with` | an effect; `post_flush` |
| **Mounted queue** (`runtime.rs`, `on_mounted`) | a thread-local list of callbacks | `on_mounted`, `flush_mounted` | the backends' mount functions |
| **Typed handles** (`runtime.rs`) | a node handle | `Signal`, `Memo`, `WritableMemo`, `MaybeSignal`, `readonly`, `reactive` | scheduler |
| **DOM backends** (`vue-rs-dom/src/{backend,mock,web}.rs`) | a tree of nodes and fragments; attributes, properties and listeners of an element | `insert_before`, `append_child`, `remove_child`, `set_attribute`, `set_property`, `add_event_listener`, event dispatch, `mount` | element builder; the browser |
| **Element builder** (`vue-rs-dom/src/element.rs`) | mounted branches and keyed rows, each with a detached root; the names a computed attribute or listener had | `dyn_if`, `dyn_if_else`, `dyn_switch`, `dyn_element`, `dyn_for`; `attr`, `dyn_attr`, `dyn_prop`, `dyn_attrs`, `dyn_attr_named`, `on`, `on_value`, `on_named`, `node_ref` | effects, ownership, backend |
| **Parser** (`vue-rs-compiler/src/parser.rs`) | a position in the source, a stack of open elements | `parse_nodes`, `parse_element`, `parse_text`, `parse_attributes` | code generator |
| **Code generator** (`vue-rs-compiler/src/{codegen,component}.rs`) | the slots and props a template has used | lowers nodes to builder calls, merges classes and styles, collects `v-if` chains, calls components with props and slots | element builder and generated types, through `vue-rs-macro` and `vue-rs-build` |

How they interact in one update: an event handler (wrapped in `batch` by the element builder)
sets signals; `set_value` compares with `eq`, then `mark_stale` walks the subscriber *links*
and queues effects; the end of the batch flushes (or asks the host for a microtask); the flush
pulls each effect with `update_if_necessary`, which first pulls its stale computeds; an effect
that runs is torn down (*ownership*), tracks its reads (*links*), and writes to the DOM.

### What makes each component correct

- **Scheduler.** No glitch: no closure sees a new signal next to a computed derived from the
  old one. No lost update: a stale effect is queued or about to run, and when everything is
  quiet each effect has seen the current values. No superfluous run. Batches and read closures
  hold effects back, and callbacks of `next_tick` wait for them. The counters agree with the
  calls that are active. No `expect` fails. Queued work is eventually done.
- **Arena.** A handle that outlived its node reaches nothing, not another node.
- **Links.** Both lists of every node are sound after every operation; the pool loses no slot;
  after a run a node depends on exactly what the run has read; an unchanged graph allocates
  nothing.
- **Ownership.** Nothing outlives its scope; children go before the cleanups of their owner;
  each cleanup is called exactly once, whatever the cleanups themselves do.
- **watch.** Its calls chain: the old value of one is the new value of the one before, and
  the last value is heard.
- **Element builder.** When all is quiet the DOM shows the state: the chosen branch, a row per
  key in the order of the items, every attribute with the words of all that contribute to it.
  A key keeps its row; no row, listener or template ref outlives its scope; no borrow fails.
- **Backends.** The mock and the browser backend end up with the same children.
- **Compiler.** Tags nest and text is kept; a template is accepted exactly if it is well formed;
  its program builds what the template describes; modifiers mean what they say.

`PROJECT.json` lists the hazards, each with its line and the properties that would show it.

## 2. The modules

| Module | What it is |
|---|---|
| `Runtime` | the scheduler: state machine, one action per piece of code between two user calls |
| `RuntimeProperties` | its type invariant, safety, action and liveness properties; the refinement mapping to `DepGraph` |
| `MCRuntime` | the programs it is checked with |
| `Runtime_proofs` | type correctness, the agreement of counters and calls, and that `Runtime` implements `DepGraph` |
| `Readers_proofs` | freshness, order of callbacks and effects, absence of panics and of superfluous runs, for closures that only read |
| `Arena`, `Arena_proofs` | the generational arena and the proof that handles are safe |
| `DepGraph`, `DepGraph_proofs` | abstract specification of the dependency edges, with its invariant proved |
| `Links`, `LinksProperties`, `MCLinks` | the links pointer by pointer; they implement `DepGraph` |
| `Links_proofs` | that the lists and the pool stay sound, and that they implement `DepGraph` |
| `Ownership`, `OwnershipProperties`, `MCOwnership` | scopes, cleanups and teardown |
| `Ownership_proofs` | that nothing outlives its scope, and no cleanup is forgotten or called twice |
| `View`, `ViewProperties`, `MCView` | a mounted view: a branch chosen by a condition, a keyed list and a watcher in it, on both backends, under nested and deferred flushes |
| `View_proofs` | that rows never leak and never change hands, that nothing is borrowed twice, and that the calls of a watch callback form a chain |
| `ViewDom_proofs` | types, and that both DOMs show the state, at rest and when a flush turns to the callbacks |
| `Template` | the template parser, one lexeme at a time |
| `Codegen` | the template code generator: nodes to builder calls, as functions |
| `Component` | the generated props builder and slots struct, and what a program builds |
| `Bindings` | one element in use: attributes, form controls, listeners, on both backends |
| `Compiler`, `CompilerProperties`, `MCCompiler` | their composition: a source is read, parsed, lowered, mounted and used |

`Runtime` and `Links` are two views of the same edges: `Runtime` keeps the dependencies of a
node as a set, `Links` as lists of links. Both are proved to implement `DepGraph`
(`ImplementsGraph`), which is what joins them: what the scheduler assumes of its edges is what
the links provide. `Links`, `Ownership` and `Runtime` take handles that are never issued
twice; `Arena` shows what that costs. `View` stands on the rules of the scheduler (who is
queued, when a flush starts) with four kinds of effects in place of a graph. `Compiler` joins
`Template` and `Bindings` through the functions of `Codegen` and `Component`.

### Runtime

*The call stack is state.* A frame stands for an active call that user code, or another part
of the runtime, can interrupt:

| Frame | Code |
|---|---|
| `pull` | `update_if_necessary`; `todo` are the sources still to visit |
| `body` | `run_scoped` in `update`: the closure of a computed or effect |
| `get`, `open` | `read_with` while it waits for its pull |
| `with` | `read_with` while its closure runs; `val` is the value taken out of the node |
| `notify` | `notify_subscribers`; `marks` are the calls of `mark_stale` still to make |
| `flush` | `flush_pending`; `cbs` is the vector of callbacks it has taken |
| `batch`, `tick` | the closures of `batch` and `next_tick` |

A frame also has the code that runs in it (`by`) and the observer (`obs`): `run_scoped`
restores the previous observer, so the observer is always that of the innermost frame.

*User code is any program.* The constants say which sources each closure may read, which
signals it may write, whether it batches, and so on; within that, every sequence of calls is
explored. `Habits` are things the documentation permits that interact badly or change the
mode of the scheduler; each run names those it allows. Values are compared, never computed
with: a computed returns any value, which covers every function of its sources, and also
equal results for changed sources (the equality check) and changed results for equal ones.

*What is abstracted.* The order of sources and subscribers (both are visited in any order,
which includes the code's). The recursion of `mark_stale` is one step per call. A `get` whose
value is only cloned is one step. Reads of the same source twice in a run are the same as one.
Nodes are a fixed set; effects are created at any time. `seen` (what the last run of a node
was given) and `awaits` (what was pending when a callback was queued) are history.

*Panics.* `panicked` is set where an `expect` of `read_with` or `update_value` fails; nothing
happens after it, as a panic unwinds out of the runtime's code.

### Arena, Links, DepGraph

`Arena` is exact, with `GenSpace` for 2^32. `live` and `stale` are history: the handles
issued, each stale one with its age, the number of times its slot has been emptied since.

`Links` follows the pointers: `UnlinkFromDepSubs` and `UnlinkFromSubDeps` are functions on a
heap, `LinkAgain`, `LinkReuse`, `LinkSkip`, `LinkNew` the four ways through `link`, and
`EndTracking`, `DisposeNode` walk the lists by recursive functions. `reads` and `lastReads` are
history: what the current run of a node has read, in order, and the one before. Where the code would
unwrap a link or node that is gone, the model has no step. `NoDanglingLink` says that a cursor
never leads to such a link, which the code does not keep: 3.3 has a program.

`DepGraph` says what the links are for: reads add edges, the end of a run keeps those that
were read, a disposal removes all edges of a node.

### Ownership

Frames are the closures of scopes and effects, callbacks, and teardowns. A teardown takes the
children of its node, disposes them one by one (each a teardown of its own), takes the
callbacks, calls them, and then either removes the node (`dispose_node`) or runs the effect
(`update`). Callbacks are user code, so any call may happen in the middle: the same scope is
stopped again, or one above it; nodes and callbacks are registered; other effects run.
`below` and `due` record, in a teardown, what it had to dispose and to call when it started.
`late` records what was given to a scope whose disposal had begun: such nodes and callbacks
are the only ones that may escape, and the code does let them escape. A computed is torn down
the way an effect is, and has no kind of its own. The `retain` of `dispose_node` is `RemoveFirst`: a
list names a node at most once, which is part of `OwnedExactly`.

### View

The view has one element whose child is chosen by a condition: by `dyn_if`, `dyn_if_else`,
`dyn_switch` or `dyn_element`, as `prog` says. The first branch is a component with a watcher of
`items` and a keyed list of them; the others are plain. What makes it hard is again
re-entrancy, now through the DOM builder: the list's effect runs a batch, whose end flushes,
and in that flush anything may happen to the list.

- *Calls.* `stack` holds the calls under way: `flush`, `handler` (a batch of user code),
  `notify`, `branch` (the builder's effect, with the step it is at), `list` (between the end of
  its batch and the placing of the rows, while `rows` is borrowed), `callback`.
- *Effects* are `branch`, `watch`, `list` and the rows; `pending` is the queue in its order, `dirty`
  the effects that are not `Clean`. A disposed effect stays in the queue as `dead`, as its id does
  in the code. A flush may start synchronously or by a microtask: `Mount` switches to the latter
  at any moment, once.
- *Rows* live in detached roots (`create_root_detached`), so that disposing the branch does not
  reach them; `RowsLeft` is what dyn_for's cleanup finds in `store`. `row` has what a row was given
  and the text that it shows, which only its own effect updates. A row is a fragment of two
  nodes, so that the backends differ: the mock takes the nodes out and splices them, the browser
  inserts one after the other and throws if the anchor is not a child.
- *The list's effect* is `Reconcile` (the closure of its batch) and `Place`. Two items with the same
  key share the row of the first, and the others are dropped, as in the code.
- *Watch callbacks* write, or batch their writes, like handlers. Two writes are never made, whatever
  the habits, because the runtime loses them, which is the finding `RuntimeSelfWrite`: a callback
  that runs inside its own effect (`pre`, `sync`) does not write its source, and none changes the
  condition while the branch is being built, which has read it.
- `Habits` are the three things the documentation allows and that break the view, each without
  a scheduler only: a handler hides the list that it has just edited (`HideAfterEdit`); a watch
  callback changes the condition (`HideInCallback`); a post callback edits the list, or writes in
  a batch (`WriteInSyncFlush`). The second has no harmless form: the watcher is older than its
  list, so without a scheduler its callback runs with the list queued behind it, under the list's
  effect, or while the branch is being built. So the passing run `View`, and the theorems for
  `Habits = {}`, have views without a scheduler in which callbacks read and handlers write, and the
  changeover to a scheduler at any moment, from which on nothing is left out. Each habit has a
  configuration of its own (3.3). `MaxWrites` bounds the writes.
- `heard` is history: the value the watcher's callback was last given.

### Template, Codegen, Component, Bindings, Compiler

*Template.* The parser is a recursive descent that reads the source once, so its call stack is
the stack of open elements, and it is a machine that takes one lexeme per step. A lexeme is a
tag with its attributes, a word, white space, a comment, an interpolation, or one that never
ends. TLC explores every source over an alphabet.

*Codegen.* Pure functions from nodes to a program of builder calls. A part that the code refuses
is `Error`, and `ok` carries it outwards like the `?` of the code. Expressions are signals or
literals, a value is a sequence of words (so that joining classes is concatenation), and an
object or array of classes is a sequence of parts with conditions.

*Component.* What `rustc` then checks: the typestate of the props builder (a setter of a required
prop exists once, `build` when all are set) and the fields of the slots struct. `Build` gives the
nodes that the calls of a program create in an environment of signal values, with components
expanded and slot content built in the environment of the parent. `UsesFit` is the type of a slot:
every `<slot>` of one name builds the payload recorded at the first. `LibraryAssumption` says that
the components of a library are themselves accepted.

*Bindings.* A program that is one element is mounted on the mock or in the browser. Signals are
written by the program, by handlers and by the user, the effects of the calls run in a later
flush (a synchronous flush is one that follows at once), events come with any key, button and
modifiers, the user types, commits, picks and toggles, and the scope is disposed at any moment.

An event is not one step. `Dispatch` finds the listeners it will call (`due`), `Hear` calls the
next, whose handler is a batch of its own, and `EventDone` ends it. Between two listeners `Flush`
may run: it does when there is no scheduler, and in the browser after an event of the user (its
microtasks run after each listener), but not after one dispatched by a script (`between`). So
`on_named`'s effect can move a listener, and the scope can be disposed, before it is its turn: the
browser then skips it, the mock calls it from the copy it has made, and `RemoveListener` has the
difference. A `once` listener is removed before its call in the browser, after the event in the
mock, and in both also when a guard skips the handler. Each `on`, `on_value`, `on_named` and
`node_ref` registers a cleanup (`cleanups`), and `Dispose` runs these, the last first; the one of
`on_named` detaches the listener of the time, which its effect shares with it (`current`). `prior`
and `spent` are history: what the event found, and the once handlers whose event has come.
Listeners with `.capture` do not occur, and the events of form controls have one listener.

`InsertOne`, `SetAttribute`, `AppendOption` have what the browser does where the mock differs: a
live `value`, an exception for a missing anchor, a select that selects its first option.

*CompilerProperties* states the meaning of a template without the code: over the source
(`ParsedAsWritten`), over the parsed nodes (`WellFormed`, `Written`) and over the attributes
(`Contributes`, `Hears`).

## 3. The runs

| Run | Program | Distinct states | Shows |
|---|---|---|---|
| `RuntimeFlush` | two signals, a computed, two effects; the handler and callbacks write, update in place, batch, read with closures, call `next_tick`, install a scheduler | 626 000 | no stale value is seen, nothing is lost, batches, read closures and callbacks keep their order, nothing panics |
| `RuntimeChain` | a computed of a computed, two effects, sources without equality check | 497 000 | the same freshness over two levels, and no superfluous run |
| `RuntimeWild` | everything, including closures that write, batch and recurse, sync effects, and all habits | 275 000 | types, counters and flags, and the edges, hold for every program |
| `RuntimeLive` | one effect, one callback, with and without a scheduler | 61 000 | queued effects and callbacks run |
| `Arena` | two slots, four generations | 1 200 | stale handles reach nothing |
| `Links` | an effect of two signals and of a computed of both; late creation, disposal | 118 000 | lists, pool, cursor, refinement of `DepGraph` |
| `Ownership` | three nodes, two callbacks, three calls | 736 000 | scopes leave nothing behind |
| `View` | six lists, six programs (every builder and flush mode), three writes; none of the habits | 275 000 | the DOM shows the items on both backends, rows neither leak nor change hands, watchers chain, nothing is borrowed twice |
| `Compiler` | all sources of five lexemes over ten alphabets; elements with their attributes in every order; seven sets of listeners; 13 form controls | 236 000 | templates are parsed, accepted, rendered and bound as they are written; a disposed element has nothing left, also in the middle of an event |
| `RuntimeSelfWrite`, `ViewHideAfterEdit`, `CompilerSelect` | see 3.3 | | the code does not do what it says |

### 3.1 The bounds, and why they are enough

- *Graphs.* `Fork` (s1 → c1, an effect that reads c1 and s2, one that reads c1 and s1) has the
  glitch: the same signal directly and through a computed. `Chain` adds a level, so that `Check`
  is passed on and a change can die at c1 or at c2. Two effects are needed for anything that
  happens between one effect and the next. The order of sources is free, so one graph stands
  for all orders of reading.
- *Values.* Two suffice for equal and different; they are interchangeable (symmetry).
- *MaxFuel* bounds the calls of the code outside closures (3 or 4): enough for write, batch,
  write, end, then a second write that finds what the first has left.
- *RuntimeFlush* lets `Main` install the scheduler once at any moment, so the synchronous
  and asynchronous modes, and the change between them with work queued, are in one run.
- *Links.* Three runs of closures (the effect, nested or after it the computed, and the effect
  again), at most three reads each, nine slots: every way through `link`, the return to a source
  that was left, and the reuse of freed slots by another node occur. The pool never reaches
  nine slots, so the bound cuts nothing.
- *Arena.* Two slots and four generations: the free list has an order, and generations wrap.
- *Ownership.* Three nodes make a scope, its child, and a grandchild or sibling; three calls
  (run, stop, run again) let one teardown be interrupted by another and that by a third. Four
  nodes with two calls (2.5 million states) have been checked too.
- *View.* Three writes edit, hide and show again, or edit three times; a fourth is only a
  repetition, as the view's state depends on the last list and the rows stored. The lists have
  growth, shrinkage, reversal, rotation, new data under a key that moves, and a key given twice.
  Six row names are enough for a list of three next to the three rows it replaces: the
  assumption of `View` says so for any lists, and `NamesLeft` in the proofs that it suffices.
- *Compiler.* A chain of three arms, or an element in an element with content, takes five
  lexemes; a component with a slot as well. Six lexemes (1.08 million states) have been checked
  too. Each alphabet has what interacts: a chain with comments and lists, props given twice,
  slots with payload and fallback, slots of one name with and without payload, components called
  without props. Attributes come in all orders of up to three, which is the
  number that merge (static, dynamic, `v-show`). Three listeners are enough for one handler to
  move the next and for a third that is not concerned; handlers write at most one signal, the one
  that names a listener.
- *No deadlock check.* A program may simply end, or reach its bound.
- `RuntimeFlush`, `Ownership` and `Links` do not list their type invariants, which hold there and
  are checked or proved where the state space is richer (`RuntimeWild`, `TypeCorrect`).

### 3.2 Fairness

`FairSpec` has weak fairness of `System` as a whole: the steps of the runtime, the returns of
closures, and the host's microtasks. It says that a call that was made is carried out, that
user closures terminate, and that the host runs the microtask its hook has queued. All of
these are plain sequential execution: there is one thread, and whatever is on the stack goes on.
The calls of user code are not fair: a program may stop calling. No fairness is assumed
between effects; that the queue is served follows from its order.

### 3.3 Where the code and its word disagree

For each of these TLC finds a property violated; the trace is a program. Three are runs of
`PROJECT.json`: `RuntimeSelfWrite`, `ViewHideAfterEdit` and `CompilerSelect`. The others are
configurations beside them, with the module named in brackets:
`tlc -config RuntimeSyncEffect.cfg MCRuntime.tla`. Together they are the programs that the passing
runs and the theorems leave out.

*The scheduler* (`MCRuntime`):

- **`RuntimeSelfWrite`** (`NotifiedAreQueued`). An effect reads a computed and then writes a
  source of it. When the effect returns it is set `Clean`, while the computed stays `Dirty`.
  `mark_stale` stops at a node that is already `Dirty`, so no later write reaches the effect: it is
  dead until something else reads the computed.
- **`RuntimeSyncEffect`** (`Settled`). A sync effect and an ordinary one read the same computed.
  After a write the sync effect pulls it; the computed's own read ends in `maybe_flush`, which
  starts a flush in the middle of the computed's run; there the ordinary effect finds the
  computed's closure taken, and becomes `Clean` without having run.
- **`RuntimeReadInRead`** (`NoPanic`). `s.with(|_| c.get())` panics if `c` is a stale computed of `s`,
  although the comment says that the closure may read other values.
- **`RuntimeBatchInRead`** (`EffectsDeferred`). A batch inside the closure of `with` runs the effects
  while the value is out, although writes during a read are said to be deferred.
- **`RuntimeBatchInEffect`** (`CallbacksAfterEffects`). A batch inside an effect that is being
  flushed runs the callbacks of `next_tick` that wait for this effect before it is over.

*Links and ownership* (`MCLinks`, `MCOwnership`):

- **`LinksDisposeSource`** (`NoDanglingLink`). Disposing a source that a running closure has just
  read frees the link under its cursor.
- **`OwnershipStopInCleanup`** (`RunsOnlyLiveEffects`). A cleanup that stops the scope of the effect
  it belongs to does not keep the effect from running once more.

*A view without a scheduler* (`MCView`):

- **`ViewHideAfterEdit`** (`NoPanic`). A handler edits a keyed list and then changes the condition
  around it. The list's effect runs first; the end of its batch flushes while `rows` is borrowed;
  the branch's effect disposes the list, whose cleanup borrows `rows` again and panics.
- **`ViewHideInCallback`** (`NoPanic`). A handler edits the list, and the callback of its watcher
  changes the condition. The branch is queued behind the list, and the same happens.
- **`ViewPostCallback`** (`CallbacksSeeDomAlways`). The flush at the end of the list's batch runs the
  post callbacks before the rows are placed.
- **`ViewWriteInCallback`** (`NoPanic`). A post callback batches a write of the items. The end of the
  batch flushes, and the nested flush takes the next call of the same callback, which is borrowed.
  `DomShowsItems` fails with this habit as well, and an unmount in the batch of a callback borrows
  `rows` twice.

*The compiler* (`MCCompiler`):

- **`CompilerSelect`** (`ModelInSync`). `v-model` on a select sets `value` before the options are
  appended, so the browser shows the first option while the model says another.
- **`CompilerBareCall`** (`OptionalPropsMayBeOmitted`). A component whose props are all optional
  cannot be called without giving one of them: `codegen.rs:407` then leaves out the argument
  altogether. What is accepted is in `AcceptsWellFormed` (`NoBareCall`).

One habit of `Runtime` contradicts nothing that is written and has no configuration: after `clear_scheduler`
with a callback queued, the next read flushes, also in the middle of an effect's first run, and
the effect misses what the callback writes (`CleanIsFresh` and `Settled` with `ClearScheduler` in
`RuntimeFlush`).

Some of what the properties of the compiler take as the meaning of a template is the code's
choice where Vue, or a reader, might expect another; the properties either describe that choice
or exclude the template (`Placed`):

- a directive on the single root, on slot content or on a fallback is dropped without an error;
  so is `v-for` on an arm of a chain, and a `v-if` next to `v-for` on one element;
- text in a component call is not slot content and is dropped;
- `<template v-slot>` outside a component is an ordinary element;
- all uses of one slot hand out values, or none does: otherwise it does not compile (`SlotsAgree`);
- `:key` on a `<slot>` is payload;
- a `value` attribute next to `v-model` on a text input wins or loses by its place;
- a `v-bind` bag and a computed attribute that had the same name remove each other's attribute,
  and a `value` removed this way stays visible in the browser, where it is a live property;
- `@click.right` never fires in a browser, which sends `contextmenu`;
- branches and rows are built in roots without an owner, so contexts are not visible in them;
- a post callback runs after its watcher has been disposed (`Orphan` in `View`);
- the mock runs a listener that an earlier listener of the same event has removed, and the browser
  does not: of `@click="h1" @[name]="h2"` a click runs both in the mock, and `h1` alone in the
  browser if it changes `name` (`HandlersAsWritten` allows for both).

## 4. What is proved

TLAPS checks these for every value of the constants that satisfies the assumptions of the
modules, so for every graph, every program, every size.

- **`TypeCorrect`** (`Runtime_proofs`): `Spec => []TypeOK`. `TypeOK` is inductive. It contains
  more than sets: frames are well formed (a `body` frame is of a node that has a closure, a
  `with` frame holds a value), and signals are never stale. The lemmas give the type of each
  kind of call; `NextType` has one step per action.
- **`NestingCorrect`** (`Runtime_proofs`): `Spec => []WellNested`. `batch_depth` is the number of
  active batches and `reading_depth` that of active read closures, a flush is active when
  `flushing` is set, and no closure is entered while it runs. `NestedIn` states this of a stack
  and three values, and the lemmas say what pushing, popping and replacing a frame do to it;
  they rest on the cardinality of a set of positions. The last conjunct holds because a
  closure is only entered when it is not `Taken`. The converse of the third conjunct does not
  hold: a flush nested in another clears the flag for both.
- **`StaleHandlesResolveToNone`**, **`FreeListExact`** (`Arena_proofs`). The invariant relates
  each stale handle to its slot: the generation of the slot is that of the handle plus the
  age, modulo the number of generations. It follows that they differ as long as the age is
  less than that, which `HandlesResolve` alone does not give. Only `GenSpace > 1` is assumed.
- **`EdgesBetweenLiveNodes`** (`DepGraph_proofs`): edges join live nodes, and only a running
  closure has a cursor. `Links` and `Runtime` are proved to implement `DepGraph`, so it holds of theirs.
- **`RuntimeImplementsGraph`** (`Runtime_proofs`): `Spec => ImplementsGraph`, for every program. Initial
  states map to initial states, and each step of `Runtime` is the step of `DepGraph` that its code
  makes or leaves the edges alone. The mapping takes the cursors from the `body` frames, so it needs
  that a node has one such frame at most (`NestingCorrect`) and that a node is observed only while
  its frame is on the stack.
- **`RowsNeverLeak`**, **`RowsNeverChangeHands`** (`View_proofs`): `Spec => []NoRowLeaks` and
  `Spec => KeepsRows`, for all lists, all programs and *all habits*, so also for those views that
  panic. Neither is inductive. `IInv` says: the effect of the list or branch is queued or runs,
  and only once (`OnceIn`), because it is marked while it does; a branch that is being built has
  no list yet (`BuildingIn`); and the rows alive are those in `store`, except while a list's effect
  runs, when they are those it is about to store, in a map that agrees with `store` on common keys
  (`RowsIn`). Without `OnceIn` a second list's effect could start in the flush of the first, and
  `RowsIn` would not say which of the two is to be believed. `NamesLeft` bounds the rows by the
  assumption on `RowIds` (finite, twice the longest list), and is what makes the CHOOSE of fresh
  names in `RowOf` well defined. After a panic nothing happens, and `IInv` says nothing.
- **`NeverPanics`** (`View_proofs`): `Habits = {}` implies `Spec => []NoPanic`. `PInv` says where on
  the stack a call may be: with a scheduler a flush is at the bottom and a list's effect calls
  nothing, so no flush can meet it; without one, handlers are at the bottom, callbacks call
  nothing, and the branch is never queued behind its list, so that it is disposed before the
  list's effect runs or in a later flush (`ShapeIn`, `OrderIn`). The last clause is what
  `HideAfterEdit` and `HideInCallback` break, and `WriteInSyncFlush` that callbacks call nothing; the
  configurations `ViewHideAfterEdit`, `ViewHideInCallback` and `ViewWriteInCallback` show that each part of the
  hypothesis is needed. It covers all that `View` has once a scheduler is installed and, as long as
  none is, views in which handlers do not hide a list they have just edited and callbacks only read.

- **`CallbacksChain`** (`View_proofs`): `Habits = {}` implies `Spec => WatchChain`, in every flush mode.
  What a callback will be told is in three places: the callbacks a flush has taken (`c`), those
  still queued (`post`), and the watcher's `prev`. `ToldIn` says that they continue what the callback has
  heard, in this order, the entries of a watcher that is gone before those of the next. For this a
  flush that has taken callbacks must be the only one (`FramesIn`): in mode "post" only callbacks and what
  they write stand above it, and without a scheduler not even that. That the last value is
  heard needs two more things: the watcher has seen the items or is marked, and while it is marked it
  is queued, about to run, or running its callback (`MarkedIn`); and whatever is queued has a flush under way,
  a call that flushes when it returns, or a microtask (`OwedIn`). None of the four is inductive
  without the others; the proof also uses that `None` is not a value of the signal.

- **`ViewTypes`**, **`DomAlwaysShowsItems`**, **`CallbacksAfterDom`** (`ViewDom_proofs`): see 4.4.

`IInv`, `PInv` and `ChainInv` have been checked with TLC as invariants of `View` before they were proved, and so have
the parts of the invariants below.

### 4.1 Closures that only read (`Readers_proofs`)

What the runtime promises its users is not true of every program (3.3). These theorems have
hypotheses on the constants, which the runs `RuntimeFlush` and `RuntimeChain` satisfy; the graph, the
number of nodes, values, callbacks and calls are arbitrary.

| Theorem | Property | Hypothesis |
|---|---|---|
| `QueuedEffectsWait` | `EffectsDeferred` | `PlainReads` |
| `CallbacksWait` | `CallbacksAfterEffects` | `ClosuresOnlyRead` |
| `FreshReads` | `CleanIsFresh` | `ClosuresOnlyRead`, `Acyclic` |
| `StaleQueued` | `StaleEffectsQueued` | the same |
| `NotifiedQueued` | `NotifiedAreQueued` | the same |
| `SettledIsFresh` | `Settled` | the same |
| `NoExpectFails` | `NoPanic` | the same |
| `NoRunWasted` | `NoWastedRun` | the same and `OneWritePerFlush` |

- `PlainReads`: no synchronous watchers, and the closures given to `with` neither read nor batch. With
  these habits the property fails (3.3).
- `ClosuresOnlyRead`: no synchronous watchers; computeds and effects do not write, batch or call
  `next_tick`, which is the job of the code outside of them (handlers, callbacks); a scheduler may
  be installed at any time. `RuntimeSelfWrite` shows what an effect that writes can do.
- `Acyclic`: `CanRead` has a rank. A closure can refer only to nodes that exist when it is made, so the
  order of creation is one; a program that hands a later handle to an earlier closure, through a
  cell, is outside the hypothesis.
- `OneWritePerFlush`: only `Main` writes, not in a batch nor in a read closure, no scheduler is installed, and
  what is mutated in place counts as having no equality check. Without it a second write can restore
  the value an effect saw before the effect runs.

The inductive invariant has six parts, each about one thing that could go wrong:

- `Deferred`: a flush is never inside a batch, nothing is called from `with` but a notification, and
  nothing at all from a notification.
- `Calls`: who called whom. A `body` stands on the `pull` of its node, a `pull` on the read or flush that
  asked for it, and a frame inherits observer and code from the frame below.
- `Idle`: when something is queued and no call on the stack will serve it, a scheduler is installed
  and a microtask is due.
- `Waits`: a callback waits only for effects that are queued or active, and for none once a flush has
  taken it.
- `Ordered`: pulls and bodies on the stack descend along the rank, so no closure is entered twice.
- `Fresh`: a node that is neither `Dirty` nor about to be marked has seen current values; an edge from a
  stale source leads to a node that is stale, marked or running; a `body` has read what is
  current, or what is being brought up to date above it; a stale effect is queued or active.

`CleanIsFresh` alone is not inductive: while a notification is under way nodes are `Clean` that have
not seen the new value, and the marks still to be made are what says which; while a pull is under
way a node is `Clean` only if each source it has passed is. `NotifiedQueued` follows from `Fresh`: when
nothing is left to mark, the stale nodes are closed under edges and contain the subscribers of the
written signal, so they contain all that is downstream, and `mark_stale` has hidden nothing by
stopping at a node that was stale already.

`NoWastedRun` needs a second layer, over the same invariant. Nothing of `Main` waits for a call (`MainAlone`), so
a write finds an empty stack and, by `Idle` and `Fresh`, every effect up to date. A node that does not run has
seen a value of each of its dependencies (`Recorded`), so a subscriber has seen the value a source is
about to lose. `Justified` says that each effect that is `Dirty`, or marked so, has seen a value
that is no longer the source's, or comes from a source without equality check; while a
notification is under way this counts for signals only, and afterwards for sources that are `Clean`: these
hold their value until the effect runs, for none of them is recomputed. `Born` says that an effect not
made yet has nothing. `GraphStep` sorts the steps into five kinds by what they do to staleness: none of
it, a mark passed on, a node settled, a write, an effect made. The four were checked
with TLC first, on `RuntimeChain` and with callbacks, batches and read closures added.

### 4.2 Ownership (`Ownership_proofs`)

All safety properties of the run are proved, for any number of nodes and callbacks and for every
re-entrant program; the only assumption is that `None` is no handle and no kind.

- **`ListsAreExact`** (`OwnedExactly`), **`OrphansAreLate`** (`NoOrphans`). The lemma `Shapes` says what a step
  does, seen from the teardowns on the stack: it begins one, skips a child that is gone, takes
  callbacks, calls one back, ends one, or leaves them alone. `Tree` is inductive over these: the two
  properties, with the types, the fact that nothing refers to a handle not yet issued (`Handles`),
  and that a scope on its way out owns only what came too late (`LateChildren`).
- **`ChildrenGoFirst`** (`ChildrenFirst`). `Closed`: what is on its way out takes with it what it owns. It
  follows from `Tree`, and it gives that nodes stay on their way out (`GoingOn`), though the
  teardowns that have promised to dispose them end, one after the other, and hand on to others. With
  it `GoingBelow` is inductive, of which `ChildrenFirst` is an instance.
- **`CleanupsRunOnce`** (`CleanupsOnce`). `Distinct` and `Apart` (no callback is in two places, or twice in
  one), `Remembered` (none is lost), and `LateCallbacks`: what is found in a scope after its callbacks
  were taken was registered since. Without the last one, the removal of the node could lose more.
- **`NoneForgotten`** (`AllCleanedUp`). `Untaken`: what a teardown has to call is not in the list of a node
  whose callbacks were taken since, only new callbacks are. `Awaited`: it has been called, is in the
  hands of a teardown, or in a node on its way out. The removal of a node at the end of *another*
  teardown, which this one has interrupted, is the case that needs `Untaken`.
- **`ScopesCallBack`** (`ScopeCallbacks`). `ScopesOwn`: callbacks of `on_scope_dispose` are in roots, and in
  teardowns that dispose one. The climb of `nearest_scope` is a recursive function: that it exists
  is shown by giving it (`Up` is the least set closed under owners), and that it ends at a root by
  `Acyclic` (owners are older than what they own).

### 4.3 Links (`Links_proofs`)

All properties of the run are proved, for every set of nodes, every closure that reads in any order and
as often as it likes, and a pool of any size:

| Theorem | Property | Says |
|---|---|---|
| `SpecWellLinked` | `WellLinked` | both lists of every node are sound, each link is in the lists of both its ends, each other slot is free once |
| `SpecOneLinkPerEdge` | `OneLinkPerEdge` | after a run, one link to each source that the run did not come back to |
| `SpecImplementsGraph` | `ImplementsGraph` | the sources of the links change only as `DepGraph` says, and after a run are what it has read |
| `SpecUnchanged` | `UnchangedAllocatesNothing` | a run that repeats the last one allocates nothing |

The one hypothesis is `~DisposeWhileTracking`: no closure disposes its own node, or a source that it has
a link to. Without it the cursor may lead to a freed link, and the code panics or goes on in the links
of another node (3.3).

*The invariant*, `LinksInv`, has been checked by TLC on the run `Links` before it was proved. It is `Sound` of
the heap with the lists `D[n]` and `S[n]` that one finds by following the pointers:

- `Pool`: the links in use are those in the lists, each once in `D` of its subscriber and once in `S` of its
  source; neighbours, heads and tails of subscriber lists are what the lists say; the other slots are
  free, once each. It says nothing of `deps_tail`, which is the cursor while a node runs.
- `Histories`: only nodes that exist run, and none twice at a time; what a node that is gone has read is
  forgotten.
- `Followed`: the cursor of `n` is at the `k`-th link of `D[n]`, for some `k`. The first `k` links lead to what
  the run has read and nothing else, in the order of its reads where they were read once, and a source
  with two links was read twice (`Record`). When `n` is not running, `k` is the whole list; with `Record` this
  is `OneLinkPerEdge`. While `n` runs, the cursor is at the last source read, unless that one was read
  twice (`Late`); and as long as the run repeats the one before, which read each source once, the links are
  those of that run and `k` is the number of reads (`Rerun`), so the next read is the next link and `LinkNew`
  is not taken. `Late` is what keeps `Record` through `LinkNew`: without it a second link could be spliced
  in for a source that was read once.

The lemmas are about lists `D` and `S` that satisfy `Pool`, and `ChainIs` says that following the pointers
finds no others. They go from lists (where an element is, what removing and
inserting one does to its neighbours), over heaps (which field of which record an assignment
changes), to the operations: a splice gives the pool with the longer lists, `Prune` and `Detach` the pool
with the link removed from one list while the other is being given up, `PruneAll` and `DetachAll` that
repeated. The loops are functions on `0..Len`, and induction along them uses `Steps`: a set of numbers that
has 0 and each successor has them all. For the refinement, `LinkNew` is `Read` of `DepGraph` by a list that
has one more link, `EndTracking` keeps the first `k` sources, which by `Record` are those read, and
`DisposeNode` takes the node from all lists.

### 4.4 The DOM of a view (`ViewDom_proofs`)

| Theorem | Property | Hypothesis |
|---|---|---|
| `ViewTypes` | `TypeOK` | none |
| `DomAlwaysShowsItems` | `DomShowsItems` | `Habits = {}` |
| `CallbacksAfterDom` | `CallbacksSeeDom` | `Habits = {}` |

With `WriteInSyncFlush` the second is false (3.3), and after the panics that `HideAfterEdit` and
`HideInCallback` lead to nothing is shown. The theorems hold of all lists, also with keys given twice, and of both backends.

*Loops.* What a list's effect does to the DOM is a loop in the code, and `Each` in the model: `Without`,
`WebInsert`, `WebRemove`, `Firsts`, and the insertion or removal of many rows. The provers have no
induction over such definitions. They do have sets: `LeastNumber` (a set of numbers has a least one) follows
from the well-foundedness of strict inclusion on finite sets, `Steps` says that a set with 0 and each
successor has every number, and `SeqInduct` the same of sequences and `Append`. With these a loop
is the sequence of its intermediate results (`Rounds`), and an invariant of the loop is the set of
rounds where it holds. So `FirstsFacts` says what the first places are, `InsertedRows` that
inserting the rows of `order`, one by one, before the anchor gives `order`, whatever subset of them was there
before and in what order, and `RemovedRows` what is left by a removal.
`ViewAssumption` asks that the names of nodes differ (a row is no branch, the anchor is no node), which
the code gets from the identity of nodes.

*Types.* `TypeOK` is not inductive: `FrameOK` of the synchronous notification needs that the watcher
it will run exists (`SyncIn`), and what a branch's effect removes is what is mounted (`TopIn`).

*The invariant* of the other two is `DInv`, on top of `IInv`, `PInv` and the types, for views without the habits:

- `NoWriter`: with a scheduler, no handler and no post callback is under way while a branch is being built. So a
  write cannot come between the reading of the condition and the list.
- `MarkIn`: what is marked, the watcher apart, is queued or runs. At rest nothing is marked.
- `TextsIn`: a row shows its item and its index, or is marked.
- `ChoiceIn`: the branch chosen last is that of the condition, or the branch's effect is queued.
- `ListedIn`: the first branch has its list, or its builder has not come to it yet.
- `KidsNow`: there are items `g` whose rows are stored, shown and in order, and `g` is what the items are
  now unless the list is queued. While the list's effect runs, `g` is the items now, and the children are rows
  it is about to place, in some order. The items shown are not a variable of the program: once written, they are
  found nowhere but in the rows, which is why `KidsNow` has a quantifier.

`DomShowsItems` is read off when the queue is empty and no effect is on the stack; so is `CallbacksSeeDom`,
where `PInv` says that below a flush that has come to its callbacks there is nothing with a scheduler.

### 4.5 What is only model-checked

- All of the compiler, whose functions recurse over trees (with RECURSIVE operators, about which the
  provers cannot reason).
- Liveness (`EffectsRun`, `CallbacksRun`), and anything that needs ENABLED, is out of the prover's reach.

## 5. What is not modelled

- Disposal during a run, in `Runtime`: `Links` and `Ownership` have disposal without the
  scheduler, `View` has it with the queue of the scheduler but without a graph.
- Watchers of computeds, contexts, the mounted queue (`on_mounted`, `flush_mounted`).
- `View` and `Bindings` are not composed: an element of `View` has no attributes, one of `Bindings` no
  branches. Fragments inside fragments do not occur in `View`.
- Typed handles and `reactive`: wrappers, whose calls are the modelled operations.
- The characters inside a lexeme, the SFC splitter, the `$` sugar, destructuring in `v-for`, the
  rewriting of scripts, props and CSS selectors, and `to_html`: token and string rewriting.
  Macros, build helper, examples: glue and I/O.
- Memory: the model does not say when a closure or value is dropped.

## 6. Plan

Done: `Runtime`, `Arena`, `Links` with `DepGraph`, `Ownership`, `View`, the compiler from `Template` to
`Bindings`; the proofs above.

Next, in this order:

1. **Mounting and contexts**: `on_mounted` across mounts (a component created after the first
   mount waits in the global queue until something else is mounted, `web.rs:130`), lookup along
   owners.
2. **Disposal in the scheduler**: effects and sources disposed while queued, running or being
   read, by composing `Runtime` with `Ownership`.
3. **CSS scoping and the SFC splitter** as functions over small inputs, with their own reference
   definitions.
