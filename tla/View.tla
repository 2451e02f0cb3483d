-------------------------------- MODULE View --------------------------------
(***************************************************************************)
(* A mounted view of vue-rs-dom: an element whose child is chosen by a     *)
(* condition (dyn_if, dyn_if_else, dyn_switch, dyn_element) and, in its     *)
(* first branch, a keyed list (dyn_for) and a watcher of the list's items  *)
(* (watch_with), driven by event handlers, by watch callbacks and by the   *)
(* flushes of vue-rs-reactive, on both DOM backends at once.               *)
(*                                                                         *)
(* Effects are closures that flushes call and that make flushes start:     *)
(* `stack` holds the calls under way, innermost last.  Of the runtime this *)
(* module keeps the queues and the rule of who is queued, Runtime.tla has  *)
(* the rest; an id of a disposed effect stays in the queue as "dead".      *)
(***************************************************************************)
EXTENDS Integers, Sequences, SequencesExt

CONSTANTS
  Lists,      \* the values the items take: sequences of [key, data]
  RowIds,     \* names for the rows that are alive at the same time
  Programs,   \* the views: [builder : Builders, flush : Flushes, immediate : BOOLEAN]
  Habits,     \* see HabitNames
  MaxWrites,  \* bound: writes to the two signals
  None,       \* Option::None
  Unset,      \* the condition has never been evaluated
  Anchor      \* the node that marks the place of dynamic content

Builders == {"dyn_if", "dyn_if_else", "dyn_switch", "dyn_element"}
Flushes  == {"pre", "post", "sync"}
Modes    == {"mock", "web"}

(* What code may do besides writing in event handlers, and in callbacks    *)
(* when a scheduler is installed.  Without one: hide the list in the       *)
(* handler that has edited it; change the condition in a watch callback;   *)
(* edit the list, or write in a batch, in a post callback.                 *)
HabitNames == {"HideAfterEdit", "HideInCallback", "WriteInSyncFlush"}

Effects == {"branch", "watch", "list", "dead"}  \* rows apart

ASSUME ViewAssumption ==
  /\ \A l \in Lists : l \in Seq(Range(l)) /\ \A i \in DOMAIN l : DOMAIN l[i] = {"key", "data"}
  /\ IsFiniteSet(RowIds) /\ RowIds \cap Effects = {}
  /\ \A l \in Lists : 2 * Len(l) <= Cardinality(RowIds)
  /\ Programs \subseteq [builder : Builders, flush : Flushes, immediate : BOOLEAN]
  /\ Habits \subseteq HabitNames /\ MaxWrites \in Nat /\ None \notin Lists
  /\ None \notin {1, 2} \cup ({1, 2} \X {0, 1}) /\ Unset \notin {None, 1, 2}
  /\ RowIds \cap ({1, 2} \X {0, 1}) = {}
  /\ Anchor \notin (RowIds \cup {1, 2}) \X {0, 1, 2}
  /\ None \notin Seq((RowIds \cup {1, 2}) \X {0, 1, 2} \cup {Anchor})

(* The branches a builder can choose from; 1 is the one with the list.     *)
BranchesOf(builder) ==
  CASE builder = "dyn_if"     -> {None, 1}
    [] builder = "dyn_switch" -> {None, 1, 2}
    [] OTHER                  -> {1, 2}

(* dyn_if starts from `shown` = false, the others from "nothing yet".      *)
FirstChoice(builder) == IF builder = "dyn_if" THEN None ELSE Unset

VARIABLES
  prog,       \* the view, one of Programs
  phase,      \* "new", "live" or "unmounted" (its root is disposed)
  items,      \* the signal the list and the watcher read
  shown,      \* the value of the condition
  writes,     \* writes left, see MaxWrites
  async,      \* Runtime::scheduler.is_some()
  scheduled,  \* Runtime::flush_scheduled, and the microtask that is due
  flushing,   \* Runtime::flushing
  pending,    \* Runtime::pending
  post,       \* Runtime::post_flush, see Told
  alive,      \* the effects that exist, rows apart
  dirty,      \* the effects that are not Clean; the one that runs is not
  stack,      \* the calls under way
  choice,     \* dyn_switch: `current`
  mounted,    \* dyn_switch: the node of the mounted branch
  top,        \* the children of the element, in each backend
  kids,       \* the children of the list's element, in each backend
  row,        \* the rows alive: their item, their index and the text they show
  store,      \* dyn_for: `rows`, from keys to rows
  prev,       \* watch_with: `prev`
  heard,      \* history: the value the watch callback was last given
  panicked    \* a RefCell is borrowed twice

queues == <<pending, post, dirty>>
dom    == <<choice, mounted, top, kids, row, store>>
vars   == <<prog, phase, items, shown, writes, async, scheduled, flushing, queues, alive,
            stack, dom, prev, heard, panicked>>

-----------------------------------------------------------------------------
(* The backends.  A row is a fragment of two nodes; a parent's children    *)
(* are a sequence of nodes, in the browser None after an exception.        *)
RealNodes(n) == IF n \in RowIds THEN <<<<n, 1>>, <<n, 2>>>> ELSE <<n>>

(* What a loop over s makes of x. *)
Each(Op(_, _), x, s) ==
  LET after[i \in 0..Len(s)] == IF i = 0 THEN x ELSE Op(after[i - 1], s[i])
  IN after[Len(s)]

Without(children, nodes) ==
  Each(LAMBDA kept, c : IF c \in ToSet(nodes) THEN kept ELSE Append(kept, c), <<>>, children)

Before(children, anchor, nodes) ==
  LET at == IF Contains(children, anchor) THEN SelectInSeq(children, LAMBDA c : c = anchor)
                                          ELSE Len(children) + 1
  IN SubSeq(children, 1, at - 1) \o nodes \o SubSeq(children, at, Len(children))

MockInsertCopies(children, n) == Before(children, Anchor, RealNodes(n))
MockInsert(children, n) == Before(Without(children, RealNodes(n)), Anchor, RealNodes(n))
MockRemove(children, n) == Without(children, RealNodes(n))

(* Node.insertBefore and Node.removeChild of the browser, for one node.    *)
InsertOne(children, node) ==
  IF children = None \/ ~Contains(children, Anchor) THEN None
  ELSE Before(Without(children, <<node>>), Anchor, <<node>>)
RemoveOne(children, node) ==
  IF children = None \/ ~Contains(children, node) THEN None ELSE Without(children, <<node>>)

WebInsert(children, n) == Each(InsertOne, children, RealNodes(n))
WebRemove(children, n) == Each(RemoveOne, children, RealNodes(n))

InsertNode(parent, n) ==
  [m \in Modes |-> IF m = "mock" THEN MockInsert(parent[m], n) ELSE WebInsert(parent[m], n)]
RemoveNode(parent, n) ==
  [m \in Modes |-> IF m = "mock" THEN MockRemove(parent[m], n) ELSE WebRemove(parent[m], n)]
Empty == [m \in Modes |-> <<Anchor>>]

-----------------------------------------------------------------------------
(* The calls under way.                                                    *)
Told(new, old) == [new |-> new, old |-> old, own |-> TRUE]

FlushFrame        == [op |-> "flush", cbs |-> <<>>]
HandlerFrame      == [op |-> "handler"]
NotifyFrame(sync) == [op |-> "notify", sync |-> sync]
BranchFrame(step) == [op |-> "branch", step |-> step]
ListFrame(order, result)  == [op |-> "list", order |-> order, result |-> result]
CallbackFrame(told, from) == [op |-> "callback", told |-> told, from |-> from]

Calling(op) == \E i \in DOMAIN stack : stack[i].op = op
Top == Last(stack)
In(op) == ~panicked /\ stack # <<>> /\ Top.op = op
Rest == Front(stack)
Resume(f) == Append(Rest, f)

(* schedule_or_flush on top of the calls s: the flush starts at once, or   *)
(* is left to a microtask.                                                 *)
FlushAlways(s) == stack' = Append(s, FlushFrame) /\ flushing' = TRUE /\ UNCHANGED scheduled
ScheduleOrFlush(s) ==
  IF async
  THEN stack' = s /\ scheduled' = TRUE /\ UNCHANGED flushing
  ELSE stack' = Append(s, FlushFrame) /\ flushing' = TRUE /\ UNCHANGED scheduled

(* A batch is under way in the closure of a handler; a list's is one step. *)
MaybeFlush(s) ==
  IF ~Calling("handler") /\ ~flushing /\ (pending' # <<>> \/ post' # <<>>)
  THEN ScheduleOrFlush(s)
  ELSE stack' = s /\ UNCHANGED <<scheduled, flushing>>

(* mark_stale of an effect queues it if it was Clean, a sync watcher apart. *)
IsSync(e) == e = "watch" /\ prog.flush = "sync"
Queued(e) == IF e \in alive \ dirty /\ ~IsSync(e) THEN <<e>> ELSE <<>>

Init ==
  /\ prog \in Programs /\ phase = "new"
  /\ items \in Lists /\ shown \in BranchesOf(prog.builder) /\ writes = MaxWrites
  /\ async = FALSE /\ scheduled = FALSE /\ flushing = FALSE
  /\ pending = <<>> /\ post = <<>> /\ alive = {"branch"} /\ dirty = {} /\ stack = <<>>
  /\ choice = FirstChoice(prog.builder) /\ mounted = None /\ top = Empty /\ kids = Empty
  /\ row = <<>> /\ store = <<>>
  /\ prev = None /\ heard = None /\ panicked = FALSE

-----------------------------------------------------------------------------
(* Writes.  The watcher was created before the list, and is marked first.  *)
Write(new) ==
  /\ items' = new /\ new # items /\ writes' = writes - 1
  /\ pending' = pending \o Queued("watch") \o Queued("list")
  /\ dirty' = dirty \cup (alive \cap {"watch", "list"})
  /\ stack' = Append(stack, NotifyFrame("watch" \in alive \ dirty /\ IsSync("watch")))
  /\ UNCHANGED <<prog, phase, shown, async, scheduled, flushing, post, alive, dom, prev, heard,
                 panicked>>

Show(value) ==
  /\ shown' = value /\ value # shown /\ writes' = writes - 1
  /\ pending' = pending \o Queued("branch")
  /\ dirty' = dirty \cup (alive \cap {"branch"})
  /\ stack' = Append(stack, NotifyFrame(FALSE))
  /\ UNCHANGED <<prog, phase, items, async, scheduled, flushing, post, alive, dom, prev, heard,
                 panicked>>

(* The code of a handler, or of a watch callback.  Whatever the habits, a  *)
(* callback that its own effect calls (pre, sync) does not write its own   *)
(* source, nor any callback the condition while the branch is being built: *)
(* these writes are lost, see NotifiedAreQueued of RuntimeProperties.      *)
WritesItems == writes > 0 /\ \/ In("handler")
                             \/ /\ In("callback") /\ Top.from = "flush"
                                /\ async \/ "WriteInSyncFlush" \in Habits
HidesSafely == async \/ ~Contains(pending, "list") \/ "HideAfterEdit" \in Habits
WritesShown == writes > 0 /\ \/ In("handler") /\ HidesSafely
                             \/ /\ In("callback") /\ ~Calling("branch")
                                /\ async \/ "HideInCallback" \in Habits

WriteItems == WritesItems /\ \E new \in Lists : Write(new)
WriteShown == WritesShown /\ \E value \in BranchesOf(prog.builder) : Show(value)

(* The watcher's effect reads its source and calls back if the value is   *)
(* another one: at once, or after the effects.                             *)
FiresAgain == IF prev = None THEN prog.immediate ELSE TRUE
Fires == IF prev = None THEN prog.immediate ELSE items # prev

RunWatch(s) ==
  LET told == Told(items, prev)
      now  == Fires /\ prog.flush # "post"
  IN /\ prev' = items
     /\ post' = IF Fires /\ ~now THEN Append(post, told) ELSE post
     /\ dirty' = IF now THEN dirty \cup {"watch"} ELSE dirty \ {"watch"}
     /\ heard' = IF now \/ (prev = None /\ ~Fires) THEN items ELSE heard
     /\ IF now THEN stack' = Append(s, CallbackFrame(told, "watch")) /\ UNCHANGED <<scheduled, flushing>>
        ELSE IF Fires THEN MaybeFlush(s)
        ELSE stack' = s /\ UNCHANGED <<scheduled, flushing>>

(* A write runs the sync watcher it marked, then flushes if it can.        *)
RunSync ==
  /\ In("notify") /\ Top.sync
  /\ UNCHANGED pending
  /\ RunWatch(Resume(NotifyFrame(FALSE)))
  /\ UNCHANGED <<prog, phase, items, shown, writes, async, alive, dom, panicked>>

NotifyDone ==
  /\ In("notify") /\ ~Top.sync
  /\ UNCHANGED <<prog, phase, items, shown, writes, async, queues, alive, dom, prev, heard,
                 panicked>>
  /\ MaybeFlush(Rest)

CallbackDone ==
  /\ In("callback")
  /\ stack' = Rest
  /\ dirty' = IF Top.from = "watch" THEN dirty \ {"watch"} ELSE dirty
  /\ UNCHANGED <<prog, phase, items, shown, writes, async, scheduled, flushing, pending, post,
                 alive, dom, prev, heard, panicked>>

-----------------------------------------------------------------------------
(* The branch.  Disposing it disposes the effects in it, then the rows     *)
(* that its list still has: dyn_for's cleanup borrows `rows`, which the    *)
(* list's own effect holds while it runs.                                  *)
Forget(q, effects) == [i \in DOMAIN q |-> IF q[i] \in effects THEN "dead" ELSE q[i]]
Orphan(q) == [i \in DOMAIN q |-> [q[i] EXCEPT !.own = FALSE]]
NoRows == {}
RowsLeft == Range(store)

DisposeBranch(q, effects) ==
  LET gone == {"watch", "list"} \cup effects \cup RowsLeft
  IN /\ alive' = alive \ gone
     /\ pending' = Forget(q, gone)
     /\ post' = Orphan(post)
     /\ dirty' = (dirty \cup {"branch"}) \ gone
     /\ row' = [r \in DOMAIN row \ RowsLeft |-> row[r]]
     /\ store' = <<>> /\ prev' = None

(* The effect of the builder: nothing for the same choice, else the old    *)
(* branch goes and the new one is built in a root of its own.              *)
SameBranch(s, q) ==
  /\ shown = choice
  /\ stack' = s /\ pending' = q /\ dirty' = dirty \ {"branch"}
  /\ UNCHANGED <<choice, mounted, top, kids, row, store, post, alive, prev>>

NewNode == CHOOSE n \in {shown} \X {0, 1} : ~Contains(top.mock, n)

SwapBranch(s, q) ==
  /\ shown # choice
  /\ choice' = shown
  /\ top' = IF mounted = None THEN top ELSE RemoveNode(top, mounted)
  /\ DisposeBranch(q, {})
  /\ mounted' = IF shown = None THEN None ELSE NewNode
  /\ kids' = Empty
  /\ stack' = Append(s, BranchFrame(IF shown = 1 THEN "watch" ELSE "insert"))

RunBranch(s, q) ==
  /\ SameBranch(s, q) \/ SwapBranch(s, q)
  /\ panicked' = (shown # choice /\ Calling("list"))
  /\ UNCHANGED <<prog, items, shown, writes, async, scheduled, flushing, heard>>

Step(step) == In("branch") /\ Top.step = step

(* The first branch: a component whose script watches the items ...        *)
MakeWatch ==
  /\ Step("watch")
  /\ alive' = alive \cup {"watch"}
  /\ UNCHANGED pending
  /\ RunWatch(Resume(BranchFrame("list")))
  /\ UNCHANGED <<prog, phase, items, shown, writes, async, dom, panicked>>

-----------------------------------------------------------------------------
(* The keyed list.                                                         *)
EveryItem(next, i) == TRUE
FirstOfKey(next, i) == \A j \in 1..(i - 1) : next[j].key # next[i].key
Firsts(next) ==
  Each(LAMBDA firsts, i : IF FirstOfKey(next, i) THEN Append(firsts, i) ELSE firsts,
       <<>>, [i \in DOMAIN next |-> i])

NeverReused(next, i) == FALSE
Reused(next, i) == next[i].key \in DOMAIN store

(* The rows of the items: the row of the key, or a new one.                *)
RowOf(next) ==
  LET news  == {i \in DOMAIN next : ~Reused(next, i)}
      fresh == CHOOSE f \in [news -> RowIds \ DOMAIN row] : IsInjective(f)
  IN [i \in {j \in DOMAIN next : FirstOfKey(next, j)} |->
        IF Reused(next, i) THEN store[next[i].key] ELSE fresh[i]]

RowText(item, index) == <<item.data, index>>

(* The list's effect: the closure of its batch gives the kept rows their   *)
(* item and index (a change makes the row's text stale), builds the new    *)
(* rows and removes the others; the end of the batch flushes; then the     *)
(* rows are inserted in order.  A row's effect only writes the row's text, *)
(* the order in which they are queued does not matter.                     *)
Reconcile(s, q) ==
  LET rowOf  == RowOf(items)
      given  == Range(rowOf)
      order  == [p \in DOMAIN Firsts(items) |-> rowOf[Firsts(items)[p]]]
      result == [k \in {items[i].key : i \in DOMAIN rowOf} |->
                   rowOf[CHOOSE i \in DOMAIN rowOf : items[i].key = k]]
      gone   == Range(store) \ Range(result)
      At(r)  == CHOOSE i \in DOMAIN rowOf : rowOf[i] = r
      New(r) == [item |-> items[At(r)], index |-> At(r) - 1,
                 text |-> RowText(items[At(r)], At(r) - 1)]
      Kept(r) == [New(r) EXCEPT !.text = row[r].text]
      stale  == {r \in Range(store) \cap given : row[r] # Kept(r)}
  IN /\ row' = [r \in (DOMAIN row \ gone) \cup given |->
                  IF r \notin given THEN row[r] ELSE IF r \in Range(store) THEN Kept(r) ELSE New(r)]
     /\ kids' = Each(RemoveNode, kids, SetToSeq(gone))
     /\ pending' = Forget(q, gone) \o SetToSeq(stale \ dirty)
     /\ dirty' = (dirty \ gone) \cup stale \cup {"list"}
     /\ ScheduleOrFlush(Append(s, ListFrame(order, result)))
     /\ UNCHANGED <<prog, phase, items, shown, writes, async, post, choice, mounted, top, store,
                    prev, heard, panicked>>

(* ... and whose template has the list.                                    *)
MakeList ==
  /\ Step("list")
  /\ alive' = alive \cup {"list"}
  /\ Reconcile(Resume(BranchFrame("insert")), pending)

Place ==
  /\ In("list")
  /\ kids' = Each(InsertNode, kids, Top.order)
  /\ store' = Top.result
  /\ dirty' = dirty \ {"list"}
  /\ stack' = Rest
  /\ UNCHANGED <<prog, phase, items, shown, writes, async, scheduled, flushing, pending, post,
                 alive, choice, mounted, top, row, prev, heard, panicked>>

InsertBranch ==
  /\ Step("insert")
  /\ top' = IF mounted = None THEN top ELSE InsertNode(top, mounted)
  /\ dirty' = dirty \ {"branch"}
  /\ stack' = Rest
  /\ UNCHANGED <<prog, phase, items, shown, writes, async, scheduled, flushing, pending, post,
                 alive, choice, mounted, kids, row, store, prev, heard, panicked>>

-----------------------------------------------------------------------------
(* flush_pending: the effects in order, then the callbacks, and again.     *)
Flushing == In("flush") /\ Top.cbs = <<>> /\ pending # <<>>
Due == Head(pending)

FlushSkip ==
  /\ Flushing /\ Due \notin dirty
  /\ pending' = Tail(pending)
  /\ UNCHANGED <<prog, phase, items, shown, writes, async, scheduled, flushing, post, dirty,
                 alive, stack, dom, prev, heard, panicked>>

FlushRow ==
  /\ Flushing /\ Due \in dirty \cap RowIds
  /\ pending' = Tail(pending)
  /\ dirty' = dirty \ {Due}
  /\ row' = [row EXCEPT ![Due].text = RowText(row[Due].item, row[Due].index)]
  /\ UNCHANGED <<prog, phase, items, shown, writes, async, scheduled, flushing, post,
                 alive, stack, choice, mounted, top, kids, store, prev, heard, panicked>>

FlushWatch ==
  /\ Flushing /\ Due = "watch" /\ Due \in dirty
  /\ pending' = Tail(pending)
  /\ RunWatch(stack)
  /\ UNCHANGED <<prog, phase, items, shown, writes, async, alive, dom, panicked>>

FlushList ==
  /\ Flushing /\ Due = "list" /\ Due \in dirty
  /\ Reconcile(stack, Tail(pending)) /\ UNCHANGED alive

FlushBranch ==
  /\ Flushing /\ Due = "branch" /\ Due \in dirty
  /\ RunBranch(stack, Tail(pending)) /\ UNCHANGED phase

EffectsIgnored == TRUE
EffectsDone == pending = <<>>

FlushTake ==
  /\ In("flush") /\ Top.cbs = <<>> /\ EffectsDone /\ post # <<>>
  /\ stack' = Resume([FlushFrame EXCEPT !.cbs = post])
  /\ post' = <<>>
  /\ UNCHANGED <<prog, phase, items, shown, writes, async, scheduled, flushing, pending, dirty,
                 alive, dom, prev, heard, panicked>>

(* The callback is borrowed while it runs.                                 *)
FlushCallback ==
  /\ In("flush") /\ Top.cbs # <<>>
  /\ LET told == Head(Top.cbs)
     IN /\ stack' = Append(Resume([FlushFrame EXCEPT !.cbs = Tail(Top.cbs)]),
                          CallbackFrame(told, "flush"))
        /\ heard' = IF told.own THEN told.new ELSE heard
        /\ panicked' = (told.own /\ Calling("callback"))
  /\ UNCHANGED <<prog, phase, items, shown, writes, async, scheduled, flushing, queues, alive,
                 dom, prev>>

FlushDone ==
  /\ In("flush") /\ Top.cbs = <<>> /\ EffectsDone /\ post = <<>>
  /\ flushing' = FALSE
  /\ stack' = Rest
  /\ UNCHANGED <<prog, phase, items, shown, writes, async, scheduled, queues, alive, dom, prev,
                 heard, panicked>>

-----------------------------------------------------------------------------
(* The host: building the view, mounting it, events and microtasks.        *)
AtRest == stack = <<>> /\ ~panicked

Create ==
  /\ AtRest /\ phase = "new" /\ phase' = "live"
  /\ RunBranch(<<>>, pending)

(* WebDom::mount installs the microtask scheduler.                         *)
Mount ==
  /\ AtRest /\ ~async
  /\ async' = TRUE
  /\ UNCHANGED <<prog, phase, items, shown, writes, scheduled, flushing, queues, alive, stack,
                 dom, prev, heard, panicked>>

(* A listener's handler runs in a batch.                                   *)
Event ==
  /\ AtRest /\ phase = "live" /\ writes > 0
  /\ stack' = <<HandlerFrame>>
  /\ UNCHANGED <<prog, phase, items, shown, writes, async, scheduled, flushing, queues, alive,
                 dom, prev, heard, panicked>>

(* A callback that writes in a batch.                                      *)
Batch ==
  /\ In("callback") /\ Top.from = "flush" /\ writes > 0
  /\ async \/ "WriteInSyncFlush" \in Habits
  /\ stack' = Append(stack, HandlerFrame)
  /\ UNCHANGED <<prog, phase, items, shown, writes, async, scheduled, flushing, queues, alive,
                 dom, prev, heard, panicked>>

HandlerDone ==
  /\ In("handler")
  /\ ScheduleOrFlush(Rest)
  /\ UNCHANGED <<prog, phase, items, shown, writes, async, queues, alive, dom, prev, heard,
                 panicked>>

Microtask ==
  /\ AtRest /\ scheduled
  /\ scheduled' = FALSE /\ flushing' = TRUE
  /\ stack' = <<FlushFrame>>
  /\ UNCHANGED <<prog, phase, items, shown, writes, async, queues, alive, dom, prev, heard,
                 panicked>>

(* A handler disposes the root of the view; the nodes stay where they are. *)
Unmount ==
  /\ In("handler") /\ phase = "live"
  /\ phase' = "unmounted"
  /\ DisposeBranch(pending, {"branch"})
  /\ mounted' = None
  /\ panicked' = Calling("list")
  /\ UNCHANGED <<prog, items, shown, writes, async, scheduled, flushing, stack, choice, top, kids,
                 heard>>

Next ==
  \/ Create \/ Mount \/ Event \/ Batch \/ HandlerDone \/ Microtask \/ Unmount
  \/ WriteItems \/ WriteShown \/ RunSync \/ NotifyDone \/ CallbackDone
  \/ MakeWatch \/ MakeList \/ Place \/ InsertBranch
  \/ FlushSkip \/ FlushRow \/ FlushWatch \/ FlushList \/ FlushBranch
  \/ FlushTake \/ FlushCallback \/ FlushDone

Spec == Init /\ [][Next]_vars
=============================================================================
