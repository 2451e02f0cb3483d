--------------------------- MODULE ViewProperties ---------------------------
(***************************************************************************)
(* What a mounted view promises.                                           *)
(***************************************************************************)
EXTENDS View

EffectIds == Effects \cup RowIds
ItemsOf   == UNION {Range(l) : l \in Lists}
Indices   == 0..Max({Len(l) : l \in Lists})
Branches  == BranchesOf("dyn_switch")
Tolds     == [new : Lists, old : Lists \cup {None}, own : BOOLEAN]

FrameOK(f) ==
  CASE f.op = "handler"  -> f = HandlerFrame
    [] f.op = "flush"    -> f.cbs \in Seq(Tolds)
    [] f.op = "notify"   -> f.sync \in BOOLEAN
    [] f.op = "branch"   -> f.step \in {"watch", "list", "insert"}
    [] f.op = "list"     -> f.order \in Seq(RowIds) /\ Range(f.result) = Range(f.order)
    [] f.op = "callback" -> f.told \in Tolds /\ f.from \in {"watch", "flush"}

(* Every variable has its type; only effects that exist are stale.         *)
TypeOK ==
  /\ prog \in Programs /\ phase \in {"new", "live", "unmounted"}
  /\ items \in Lists /\ shown \in Branches /\ writes \in 0..MaxWrites
  /\ {async, scheduled, flushing, panicked} \subseteq BOOLEAN
  /\ pending \in Seq(EffectIds) /\ post \in Seq(Tolds)
  /\ alive \subseteq {"branch", "watch", "list"} /\ dirty \subseteq alive \cup DOMAIN row
  /\ \A i \in DOMAIN stack : FrameOK(stack[i])
  /\ choice \in Branches \cup {Unset} /\ mounted \in (Branches \X {0, 1}) \cup {None}
  /\ DOMAIN row \subseteq RowIds
  /\ \A r \in DOMAIN row : row[r].item \in ItemsOf /\ row[r].index \in Indices
  /\ Range(store) \subseteq RowIds
  /\ {prev, heard} \subseteq Lists \cup {None}

-----------------------------------------------------------------------------
(* No call is under way and no microtask is due.                           *)
Quiet == stack = <<>> /\ ~scheduled /\ ~panicked /\ phase = "live"

BranchShown ==
  \A m \in Modes :
    top[m] = IF shown = None THEN <<Anchor>> ELSE <<mounted, Anchor>>

(* The children of the list: both nodes of one row for each key, in the    *)
(* order in which the keys first occur.                                    *)
Expected ==
  LET keys == [p \in DOMAIN Firsts(items) |-> items[Firsts(items)[p]].key]
  IN FlattenSeq([p \in DOMAIN keys |-> RealNodes(store[keys[p]])]) \o <<Anchor>>

ListShown ==
  shown = 1 =>
    /\ DOMAIN store = {items[i].key : i \in DOMAIN items}
    /\ \A m \in Modes : kids[m] = Expected
    /\ \A i \in ToSet(Firsts(items)) :
         row[store[items[i].key]].text = RowText(items[i], i - 1)

Shows == BranchShown /\ ListShown

(* When nothing is left to do, the DOM shows the state, on either backend: *)
(* the chosen branch and nothing else before the anchor, a row for each    *)
(* key in the order of the items, and in each row its current item and     *)
(* index; whatever was edited, hidden and shown again in between, also in  *)
(* the middle of a flush.                                                  *)
DomShowsItems == Quiet => Shows

(* The rows have scopes of their own, which only the list's bookkeeping    *)
(* disposes: at rest the rows alive are those of the list that is shown,   *)
(* none after it has been hidden or the view unmounted.                    *)
NoRowLeaks ==
  stack = <<>> /\ ~panicked =>
    /\ DOMAIN row = Range(store)
    /\ "list" \notin alive => DOMAIN row = {}

RowsKept == \A k \in DOMAIN store \cap DOMAIN store' : store'[k] = store[k]

(* An item whose key stays in the list keeps its row, thus its nodes and   *)
(* their state in the browser, and a row never changes hands.              *)
KeepsRows == [][RowsKept]_vars

(* Two calls of a watcher's callback chain: it is given as old value the   *)
(* new value of the call before, and has heard the last value when nothing *)
(* is left to do; in every flush mode, with callbacks that write.          *)
Begins == Len(stack') > Len(stack) /\ Last(stack').op = "callback"

WatchChain ==
  [][ /\ Begins => LET told == Last(stack').told
                   IN told.own /\ told.old # None => told.old = heard /\ told.new # told.old
      /\ Quiet' /\ "watch" \in alive' => heard' = items' ]_vars

(* "Defer the callback until after all effects have run (e.g. after the    *)
(* DOM has been updated)": when a flush turns to the callbacks, the DOM    *)
(* shows the state.                                                        *)
TakesCallbacks ==
  stack' # <<>> /\ Last(stack').op = "flush" /\ Last(stack').cbs # <<>> /\ post' = <<>> /\ post # <<>>

SeesDom == TakesCallbacks /\ phase = "live" => Shows

(* With the microtask scheduler.                                           *)
CallbacksSeeDom == [][ async => SeesDom ]_vars

(* Also when flushing is synchronous.                                      *)
CallbacksSeeDomAlways == [][ SeesDom ]_vars

(* No RefCell of a list or of a watch callback is borrowed twice.          *)
NoPanic == ~panicked
=============================================================================
