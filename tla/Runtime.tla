------------------------------ MODULE Runtime ------------------------------
(***************************************************************************)
(* The scheduler of vue-rs-reactive (crates/vue-rs-reactive/src/runtime.rs) *)
(* on a fixed graph of signals, computeds and effects.                     *)
(*                                                                         *)
(* The runtime is single threaded but re-entrant: a read pulls computeds,  *)
(* a write pushes staleness and may flush, and both call user closures     *)
(* that read, write, batch and flush again.  The call stack is therefore   *)
(* part of the state: one frame per active call of the runtime that can be *)
(* interrupted by user code.  User code itself is any sequence of calls    *)
(* the constants permit it.                                                *)
(*                                                                         *)
(* Edges are kept as sets: `deps[n]` is the dependency list of n without   *)
(* its order, so the model visits sources and subscribers in every order.  *)
(***************************************************************************)
EXTENDS Integers, Sequences, FiniteSets

CONSTANTS
  Signals,      \* nodes made by signal / signal_raw
  Computeds,    \* nodes made by computed / computed_raw
  Effects,      \* nodes made by effect, watch (and every DOM binding)
  SyncEffects,  \* the effects with `sync: true` (watchers with Flush::Sync)
  RawNodes,     \* the sources made without an equality check
  Values,       \* what a source can hold
  Ticks,        \* callbacks a program may give to next_tick
  None,         \* Option::None
  Main,         \* the code outside every reactive closure (event handlers)
  Tick          \* the code of next_tick callbacks

CONSTANTS  \* what the program's code does
  CanRead,      \* [Code -> SUBSET Sources]: the nodes it reads with get
  CanWith,      \* [Code -> SUBSET Sources]: the nodes it reads with a closure
  CanWrite,     \* [Code -> SUBSET Signals]: the signals it sets
  CanUpdate,    \* the signals that are also mutated in place
  CanBatch,     \* the code that calls batch
  CanTick,      \* the code that calls next_tick
  Habits,       \* see HabitNames
  MaxFuel       \* bound: calls the code makes besides a closure's own reads

Sources   == Signals \cup Computeds
Observers == Computeds \cup Effects
Nodes     == Sources \cup Effects
Code      == Observers \cup {Main, Tick}

(* Things a program may do that the documentation of the crate permits, and *)
(* that interact: reading nodes, writing the node being read, or batching  *)
(* inside a read closure; installing and removing the async scheduler.     *)
HabitNames == {"ReadInRead", "WriteTaken", "BatchInRead", "SetScheduler", "ClearScheduler"}

ASSUME ProgramAssumption ==
  /\ Signals \cap Computeds = {} /\ Signals \cap Effects = {} /\ Computeds \cap Effects = {}
  /\ None \notin Nodes /\ None \notin Values /\ None \notin Code
  /\ Main # Tick /\ Main \notin Nodes /\ Tick \notin Nodes
  /\ SyncEffects \subseteq Effects /\ RawNodes \subseteq Sources
  /\ CanRead \in [Code -> SUBSET Sources] /\ CanWith \in [Code -> SUBSET Sources]
  /\ CanWrite \in [Code -> SUBSET Signals] /\ CanUpdate \subseteq Signals
  /\ CanBatch \subseteq Code /\ CanTick \subseteq Code
  /\ Habits \subseteq HabitNames /\ MaxFuel \in Nat

(* State::{Clean, Check, Dirty}, ordered. *)
Clean == 0
Check == 1
Dirty == 2

VARIABLES
  value,           \* Node::value; None while a read closure holds it, or before the first run
  state,           \* Node::state
  deps,            \* Node::deps, as a set of sources
  confirmed,       \* the dependencies up to the tracking cursor (deps_tail) in this run
  seen,            \* history: the <<source, value>> pairs delivered to the node's last run
  stack,           \* the active calls, innermost last
  pending,         \* Runtime::pending
  syncPending,     \* Runtime::sync_pending
  postFlush,       \* Runtime::post_flush
  batchDepth,      \* Runtime::batch_depth
  readingDepth,    \* Runtime::reading_depth
  flushing,        \* Runtime::flushing
  scheduler,       \* Runtime::scheduler.is_some()
  flushScheduled,  \* Runtime::flush_scheduled
  microtasks,      \* host: calls of flush_jobs that the hook has queued
  created,         \* the effects constructed so far
  awaits,          \* history: the effects pending when a callback was given to next_tick
  fuel,            \* calls left, see MaxFuel
  panicked         \* an `expect` of the runtime has failed

graph == <<value, state, deps, confirmed, seen>>
host  == <<scheduler, flushScheduled, microtasks>>
vars  == <<graph, stack, pending, syncPending, postFlush, batchDepth, readingDepth,
           flushing, host, created, awaits, fuel, panicked>>

-----------------------------------------------------------------------------
(* Frames.  "pull" is update_if_necessary, "body" a running closure of a   *)
(* node, "get" and "open" a read_with that waits for its pull, "with" one  *)
(* that runs its closure, "notify" notify_subscribers, "flush"             *)
(* flush_pending, "batch" and "tick" the closures of batch and next_tick.  *)
Ops == {"pull", "body", "get", "open", "with", "notify", "flush", "batch", "tick"}
UserOps == {"body", "with", "batch", "tick"}

Frames ==
  [op    : Ops,
   node  : Nodes \cup {None},            \* the node the call is about
   todo  : SUBSET Sources,               \* pull: sources still to visit
   val   : Values \cup {None},           \* with: the value taken out
   marks : SUBSET (Observers \X {Check, Dirty}),  \* notify: mark_stale calls to make
   cbs   : Seq(Ticks),                   \* callbacks: taken by a flush, or running
   by    : Code,                         \* the code that runs in the frame
   obs   : Observers \cup {None}]        \* Runtime::observer in the frame

WellFormed(f) ==
  /\ f.op = "pull" => f.node \in Nodes
  /\ f.op = "body" => f.node \in Observers /\ f.by = f.node /\ f.obs = f.node
  /\ f.op \in {"get", "open", "with"} => f.node \in Sources
  /\ f.op = "with" => f.val \in Values
  /\ f.op = "notify" => f.node \in Signals
  /\ f.op = "tick" => Len(f.cbs) = 1

Frame == {f \in Frames : WellFormed(f)}

Top == stack[Len(stack)]
Pop == SubSeq(stack, 1, Len(stack) - 1)
Push(f) == Append(stack, f)

(* run_scoped installs the observer for the time of a closure and restores *)
(* the previous one after it: it is the observer of the innermost frame.   *)
ObserverIn(s) == IF s = <<>> THEN None ELSE s[Len(s)].obs
Observer == ObserverIn(stack)

CodeIn(s) == IF s = <<>> THEN Main ELSE s[Len(s)].by

Call(s, op, node) ==
  [op |-> op, node |-> node, todo |-> {}, val |-> None, marks |-> {}, cbs |-> <<>>,
   by |-> CodeIn(s), obs |-> ObserverIn(s)]

(* The code c is running, and may call into the runtime. *)
Runs(c) == /\ ~panicked
           /\ IF stack = <<>> THEN c = Main ELSE Top.op \in UserOps /\ c = Top.by

(* The innermost active call is an op. *)
In(op) == ~panicked /\ stack # <<>> /\ Top.op = op

InRead == stack # <<>> /\ Top.op = "with"

Spend == fuel > 0 /\ fuel' = fuel - 1

Elements(s) == {s[i] : i \in DOMAIN s}

(* The subscribers of d.  (Bug: the wrong end of the link is collected.) *)
SubsCollectsDep(d) == IF \E n \in Observers : d \in deps[n] THEN {d} ELSE {}
Subs(d) == {n \in Observers : d \in deps[n]}

(* The closure of n is out of its node while it runs.  (Bug: it is not.) *)
NeverTaken(n) == FALSE
Taken(n) == \E i \in DOMAIN stack : stack[i].op = "body" /\ stack[i].node = n

(* update_if_necessary visits the sources of a node that is Check.  (Bug:  *)
(* it takes Check for Clean.)                                              *)
PullNoSource(s, d) == Call(s, "pull", d)
Pull(s, d) == [Call(s, "pull", d) EXCEPT !.todo = IF state[d] = Check THEN deps[d] ELSE {}]

(* The equality check.  (Bug: computeds are not deduplicated.) *)
AlwaysChanged(n, v) == TRUE
Changed(n, v) == n \in RawNodes \/ value[n] # v

(* set_state(id, Clean).  (Bug: it is forgotten.) *)
StateKept(n) == state' = state
SetClean(n) == state' = [state EXCEPT ![n] = Clean]

(* end_tracking: what was not read in this run is no dependency any more.  *)
(* (Bug: it remains one.)                                                  *)
NothingPruned(n) == deps' = deps
EndTracking(n) == deps' = [deps EXCEPT ![n] = confirmed[n]]

-----------------------------------------------------------------------------
Init ==
  /\ value \in [Sources -> Values \cup {None}]
  /\ \A s \in Sources : value[s] = None <=> s \in Computeds
  /\ state = [n \in Nodes |-> IF n \in Computeds THEN Dirty ELSE Clean]
  /\ deps = [n \in Observers |-> {}]
  /\ confirmed = [n \in Observers |-> {}]
  /\ seen = [n \in Observers |-> {}]
  /\ stack = <<>> /\ pending = <<>> /\ syncPending = <<>> /\ postFlush = <<>>
  /\ batchDepth = 0 /\ readingDepth = 0
  /\ flushing = FALSE /\ scheduler = FALSE /\ flushScheduled = FALSE
  /\ microtasks = 0 /\ created = {} /\ awaits = [t \in Ticks |-> {}]
  /\ fuel = MaxFuel /\ panicked = FALSE

-----------------------------------------------------------------------------
(* Flushing.  s is the stack the caller continues with. *)

(* One request is outstanding at most.  (Bug: the hook is not called.) *)
HookDropped == flushScheduled' = TRUE /\ UNCHANGED microtasks
CallHook == /\ flushScheduled' = TRUE
            /\ microtasks' = IF flushScheduled THEN microtasks ELSE microtasks + 1

ScheduleOrFlush(s) ==
  IF scheduler
  THEN stack' = s /\ CallHook /\ UNCHANGED <<scheduler, flushing>>
  ELSE /\ stack' = Append(s, Call(s, "flush", None))
       /\ flushing' = TRUE
       /\ UNCHANGED host

(* When maybe_flush flushes.  (Bugs: it forgets the batches, the read       *)
(* closures, or the effects.)                                              *)
ReadyInBatch(reading) ==
  reading = 0 /\ ~flushing /\ (pending # <<>> \/ postFlush # <<>>)
ReadyInRead(reading) ==
  batchDepth = 0 /\ ~flushing /\ (pending # <<>> \/ postFlush # <<>>)
ReadyForCallbacks(reading) ==
  reading = 0 /\ batchDepth = 0 /\ ~flushing /\ postFlush # <<>>
Ready(reading) ==
  reading = 0 /\ batchDepth = 0 /\ ~flushing /\ (pending # <<>> \/ postFlush # <<>>)

MaybeFlush(s, reading) ==
  IF Ready(reading)
  THEN ScheduleOrFlush(s)
  ELSE stack' = s /\ UNCHANGED <<host, flushing>>

FlushEffect ==
  /\ In("flush") /\ Top.cbs = <<>> /\ pending # <<>>
  /\ pending' = Tail(pending)
  /\ stack' = Push(Pull(stack, Head(pending)))
  /\ UNCHANGED <<graph, syncPending, postFlush, batchDepth, readingDepth, flushing, host,
                 created, awaits, fuel, panicked>>

FlushTake ==
  /\ In("flush") /\ Top.cbs = <<>> /\ pending = <<>> /\ postFlush # <<>>
  /\ stack' = [stack EXCEPT ![Len(stack)].cbs = postFlush]
  /\ postFlush' = <<>>
  /\ UNCHANGED <<graph, pending, syncPending, batchDepth, readingDepth, flushing, host,
                 created, awaits, fuel, panicked>>

TickFrame(s, t) == [Call(s, "tick", None) EXCEPT !.by = Tick, !.cbs = <<t>>]

FlushCallback ==
  /\ In("flush") /\ Top.cbs # <<>>
  /\ LET rest == [stack EXCEPT ![Len(stack)].cbs = Tail(@)]
     IN stack' = Append(rest, TickFrame(rest, Head(Top.cbs)))
  /\ UNCHANGED <<graph, pending, syncPending, postFlush, batchDepth, readingDepth, flushing,
                 host, created, awaits, fuel, panicked>>

FlushDone ==
  /\ In("flush") /\ Top.cbs = <<>> /\ pending = <<>> /\ postFlush = <<>>
  /\ flushing' = FALSE
  /\ stack' = Pop
  /\ UNCHANGED <<graph, pending, syncPending, postFlush, batchDepth, readingDepth, host,
                 created, awaits, fuel, panicked>>

(* The host runs a microtask when no code of the page is on the stack. *)
FlushJobs ==
  /\ ~panicked /\ stack = <<>> /\ microtasks > 0
  /\ microtasks' = microtasks - 1
  /\ flushScheduled' = FALSE
  /\ flushing' = TRUE
  /\ stack' = Push(Call(stack, "flush", None))
  /\ UNCHANGED <<graph, pending, syncPending, postFlush, batchDepth, readingDepth, scheduler,
                 created, awaits, fuel, panicked>>

-----------------------------------------------------------------------------
(* Pushing staleness: notify_subscribers and the recursive mark_stale, one *)
(* step per call of mark_stale.                                            *)

(* The early return of mark_stale.  (Bug: off by one.) *)
EscalatesTwice(n, target) == state[n] + 1 < target
Escalates(n, target) == state[n] < target

MarkStale ==
  /\ In("notify")
  /\ \E m \in Top.marks :
       LET n == m[1]
           target == m[2]
           rest == Top.marks \ {m}
           escalates == Escalates(n, target)
           queues == escalates /\ state[n] = Clean /\ n \in Effects
           more == IF escalates THEN {<<x, Check>> : x \in Subs(n)} ELSE {}
       IN /\ state' = IF escalates THEN [state EXCEPT ![n] = target] ELSE state
          /\ pending' = IF queues /\ n \notin SyncEffects \cup Elements(pending)
                        THEN Append(pending, n) ELSE pending
          /\ syncPending' = IF queues /\ n \in SyncEffects \ Elements(syncPending)
                            THEN Append(syncPending, n) ELSE syncPending
          /\ stack' = [stack EXCEPT ![Len(stack)].marks = rest \cup more]
  /\ UNCHANGED <<value, deps, confirmed, seen, postFlush, batchDepth, readingDepth, flushing,
                 host, created, awaits, fuel, panicked>>

RunSyncEffect ==
  /\ In("notify") /\ Top.marks = {} /\ syncPending # <<>>
  /\ syncPending' = Tail(syncPending)
  /\ stack' = Push(Pull(stack, Head(syncPending)))
  /\ UNCHANGED <<graph, pending, postFlush, batchDepth, readingDepth, flushing, host,
                 created, awaits, fuel, panicked>>

NotifyDone ==
  /\ In("notify") /\ Top.marks = {} /\ syncPending = <<>>
  /\ MaybeFlush(Pop, readingDepth)
  /\ UNCHANGED <<graph, pending, syncPending, postFlush, batchDepth, readingDepth,
                 created, awaits, fuel, panicked>>

Notify(s, d) == Append(s, [Call(s, "notify", d) EXCEPT !.marks = Subs(d) \X {Dirty}])

-----------------------------------------------------------------------------
(* Pulling freshness: update_if_necessary and update. *)

(* While the node is not known to be Dirty, its sources are brought up to  *)
(* date first.                                                             *)
PullSource ==
  /\ In("pull") /\ state[Top.node] # Dirty
  /\ \E d \in Top.todo :
       LET rest == [stack EXCEPT ![Len(stack)].todo = @ \ {d}]
       IN stack' = Append(rest, Pull(rest, d))
  /\ UNCHANGED <<graph, pending, syncPending, postFlush, batchDepth, readingDepth, flushing,
                 host, created, awaits, fuel, panicked>>

(* update: the closure is taken out of the node, tracking starts, and the  *)
(* closure runs as observer.                                               *)
PullRun ==
  /\ In("pull") /\ state[Top.node] = Dirty /\ ~Taken(Top.node)
  /\ LET n == Top.node
     IN /\ confirmed' = [confirmed EXCEPT ![n] = {}]
        /\ seen' = [seen EXCEPT ![n] = {}]
        /\ stack' = Append(Pop, [Call(stack, "body", n) EXCEPT !.by = n, !.obs = n])
  /\ UNCHANGED <<value, state, deps, pending, syncPending, postFlush, batchDepth,
                 readingDepth, flushing, host, created, awaits, fuel, panicked>>

Settle(n) == awaits' = [t \in Ticks |-> awaits[t] \ {n}]

(* Nothing to do, or the closure is already taken by a run further down    *)
(* the stack: the node is declared Clean either way.                       *)
PullDone ==
  /\ In("pull")
  /\ \/ state[Top.node] # Dirty /\ Top.todo = {}
     \/ state[Top.node] = Dirty /\ Taken(Top.node)
  /\ SetClean(Top.node)
  /\ Settle(Top.node)
  /\ stack' = Pop
  /\ UNCHANGED <<value, deps, confirmed, seen, pending, syncPending, postFlush, batchDepth,
                 readingDepth, flushing, host, created, fuel, panicked>>

(* An effect's closure returns: end_tracking, then Clean. *)
FinishEffect ==
  /\ In("body") /\ Top.node \in Effects
  /\ LET n == Top.node
     IN /\ EndTracking(n)
        /\ SetClean(n)
        /\ Settle(n)
  /\ stack' = Pop
  /\ UNCHANGED <<value, confirmed, seen, pending, syncPending, postFlush, batchDepth,
                 readingDepth, flushing, host, created, fuel, panicked>>

(* A computed's closure returns v: if that is a change, its subscribers    *)
(* become Dirty, without being queued; then it is Clean itself.            *)
FinishComputed ==
  /\ In("body") /\ Top.node \in Computeds
  /\ LET n == Top.node
     IN \E v \in Values :
          LET subs == IF Changed(n, v) THEN Subs(n) \ {n} ELSE {}
          IN /\ EndTracking(n)
             /\ value' = [value EXCEPT ![n] = v]
             /\ state' = [x \in Nodes |-> IF x = n THEN Clean
                                          ELSE IF x \in subs THEN Dirty ELSE state[x]]
  /\ stack' = Pop
  /\ UNCHANGED <<confirmed, seen, pending, syncPending, postFlush, batchDepth, readingDepth,
                 flushing, host, created, awaits, fuel, panicked>>

-----------------------------------------------------------------------------
(* Reads: record_dependency, then the pull, then the value. *)

(* A closure reads a source at most once per run: a second read in the     *)
(* same run repeats the first.  Other code reads as long as it has fuel.   *)
(* A read closure does not read again the very node it was given.          *)
Read(c, d, op) ==
  /\ Runs(c)
  /\ InRead => "ReadInRead" \in Habits /\ d # Top.node
  /\ IF c \in Observers THEN d \notin confirmed[c] /\ UNCHANGED fuel ELSE Spend
  /\ IF Observer = None
     THEN UNCHANGED <<deps, confirmed>>
     ELSE /\ deps' = [deps EXCEPT ![Observer] = @ \cup {d}]
          /\ confirmed' = [confirmed EXCEPT ![Observer] = @ \cup {d}]
  /\ LET reading == Push(Call(stack, op, d))
     IN stack' = Append(reading, Pull(reading, d))
  /\ UNCHANGED <<value, state, seen, pending, syncPending, postFlush, batchDepth,
                 readingDepth, flushing, host, created, awaits, panicked>>

Get(c)  == \E d \in CanRead[c] : Read(c, d, "get")
Open(c) == \E d \in CanWith[c] : Read(c, d, "open")

Deliver(d) ==
  seen' = IF Observer = None THEN seen
          ELSE [seen EXCEPT ![Observer] = @ \cup {<<d, value[d]>>}]

(* get: the closure only clones the value, so taking it out, cloning it,   *)
(* putting it back and maybe_flush are one step.                           *)
EndGet ==
  /\ In("get") /\ value[Top.node] # None
  /\ Deliver(Top.node)
  /\ MaybeFlush(Pop, readingDepth)
  /\ UNCHANGED <<value, state, deps, confirmed, pending, syncPending, postFlush, batchDepth,
                 readingDepth, created, awaits, fuel, panicked>>

(* with: the value is out of the node while the closure runs. *)
With ==
  /\ In("open") /\ value[Top.node] # None
  /\ Deliver(Top.node)
  /\ value' = [value EXCEPT ![Top.node] = None]
  /\ readingDepth' = readingDepth + 1
  /\ stack' = [stack EXCEPT ![Len(stack)].op = "with", ![Len(stack)].val = value[Top.node]]
  /\ UNCHANGED <<state, deps, confirmed, pending, syncPending, postFlush, batchDepth,
                 flushing, host, created, awaits, fuel, panicked>>

EndWith ==
  /\ In("with")
  /\ value' = [value EXCEPT ![Top.node] = Top.val]
  /\ readingDepth' = readingDepth - 1
  /\ MaybeFlush(Pop, readingDepth - 1)
  /\ UNCHANGED <<state, deps, confirmed, seen, pending, syncPending, postFlush, batchDepth,
                 created, awaits, fuel, panicked>>

Panic ==
  /\ panicked' = TRUE
  /\ UNCHANGED <<graph, stack, pending, syncPending, postFlush, batchDepth, readingDepth,
                 flushing, host, created, awaits, fuel>>

(* expect("node has no value"): a closure further down holds the value. *)
ReadPanics == (In("get") \/ In("open")) /\ value[Top.node] = None /\ Panic

-----------------------------------------------------------------------------
(* Writes *)

Set(c) ==
  /\ Runs(c) /\ Spend
  /\ \E s \in CanWrite[c], v \in Values :
       /\ value[s] = None => "WriteTaken" \in Habits
       /\ value' = [value EXCEPT ![s] = v]
       /\ stack' = IF Changed(s, v) THEN Notify(stack, s) ELSE stack
  /\ UNCHANGED <<state, deps, confirmed, seen, pending, syncPending, postFlush, batchDepth,
                 readingDepth, flushing, host, created, awaits, panicked>>

(* update: the value is mutated in place, and always notified. *)
Update(c) ==
  /\ Runs(c) /\ Spend
  /\ \E s \in CanWrite[c] \cap CanUpdate, v \in Values :
       /\ value[s] # None
       /\ value' = [value EXCEPT ![s] = v]
       /\ stack' = Notify(stack, s)
  /\ UNCHANGED <<state, deps, confirmed, seen, pending, syncPending, postFlush, batchDepth,
                 readingDepth, flushing, host, created, awaits, panicked>>

UpdatePanics(c) ==
  /\ Runs(c) /\ "WriteTaken" \in Habits
  /\ \E s \in CanWrite[c] \cap CanUpdate : value[s] = None
  /\ Panic

-----------------------------------------------------------------------------
(* batch, next_tick, effect, and the scheduler *)

Batch(c) ==
  /\ c \in CanBatch /\ Runs(c) /\ Spend
  /\ InRead => "BatchInRead" \in Habits
  /\ batchDepth' = batchDepth + 1
  /\ stack' = Push(Call(stack, "batch", None))
  /\ UNCHANGED <<graph, pending, syncPending, postFlush, readingDepth, flushing, host,
                 created, awaits, panicked>>

(* The outermost batch flushes whatever else is active. *)
EndBatch ==
  /\ In("batch")
  /\ batchDepth' = batchDepth - 1
  /\ IF batchDepth = 1 THEN ScheduleOrFlush(Pop)
     ELSE stack' = Pop /\ UNCHANGED <<host, flushing>>
  /\ UNCHANGED <<graph, pending, syncPending, postFlush, readingDepth, created, awaits,
                 fuel, panicked>>

(* What makes next_tick wait.  (Bug: it forgets the effects a batch holds.) *)
DefersInFlush == flushing \/ readingDepth > 0
Defers == batchDepth > 0 \/ flushing \/ readingDepth > 0 \/ pending # <<>>

(* The callbacks that are queued, taken by a flush, or running. *)
InUse(t) == \/ t \in Elements(postFlush)
            \/ \E i \in DOMAIN stack : t \in Elements(stack[i].cbs)

NextTick(c) ==
  /\ c \in CanTick /\ Runs(c) /\ Spend
  /\ \E t \in Ticks :
       /\ ~InUse(t)
       /\ awaits' = [awaits EXCEPT ![t] = Elements(pending)]
       /\ IF scheduler
          THEN postFlush' = Append(postFlush, t) /\ ScheduleOrFlush(stack)
          ELSE /\ UNCHANGED <<host, flushing>>
               /\ IF Defers
                  THEN postFlush' = Append(postFlush, t) /\ UNCHANGED stack
                  ELSE stack' = Push(TickFrame(stack, t)) /\ UNCHANGED postFlush
  /\ UNCHANGED <<graph, pending, syncPending, batchDepth, readingDepth, created, panicked>>

EndTick ==
  /\ In("tick")
  /\ stack' = Pop
  /\ UNCHANGED <<graph, pending, syncPending, postFlush, batchDepth, readingDepth, flushing,
                 host, created, awaits, fuel, panicked>>

(* make_effect: a Dirty node and its first run. *)
CreateEffect(c) ==
  /\ c \in {Main, Tick} /\ Runs(c)
  /\ InRead => "ReadInRead" \in Habits
  /\ \E e \in Effects \ created :
       /\ created' = created \cup {e}
       /\ state' = [state EXCEPT ![e] = Dirty]
       /\ stack' = Push(Call(stack, "pull", e))
  /\ UNCHANGED <<value, deps, confirmed, seen, pending, syncPending, postFlush, batchDepth,
                 readingDepth, flushing, host, awaits, fuel, panicked>>

SetScheduler ==
  /\ "SetScheduler" \in Habits /\ Runs(Main) /\ ~scheduler /\ Spend
  /\ scheduler' = TRUE
  /\ UNCHANGED <<graph, stack, pending, syncPending, postFlush, batchDepth, readingDepth,
                 flushing, flushScheduled, microtasks, created, awaits, panicked>>

ClearScheduler ==
  /\ "ClearScheduler" \in Habits /\ Runs(Main) /\ scheduler /\ Spend
  /\ scheduler' = FALSE /\ flushScheduled' = FALSE
  /\ UNCHANGED <<graph, stack, pending, syncPending, postFlush, batchDepth, readingDepth,
                 flushing, microtasks, created, awaits, panicked>>

-----------------------------------------------------------------------------
(* What the runtime does by itself, and the returns of user closures. *)
System ==
  \/ FlushEffect \/ FlushTake \/ FlushCallback \/ FlushDone \/ FlushJobs
  \/ MarkStale \/ RunSyncEffect \/ NotifyDone
  \/ PullSource \/ PullRun \/ PullDone
  \/ FinishEffect \/ FinishComputed
  \/ EndGet \/ With \/ EndWith \/ ReadPanics \/ EndBatch \/ EndTick

(* What user code may call. *)
User(c) ==
  \/ Get(c) \/ Open(c) \/ Set(c) \/ Update(c) \/ UpdatePanics(c)
  \/ Batch(c) \/ NextTick(c) \/ CreateEffect(c)

Next == System \/ (\E c \in Code : User(c)) \/ SetScheduler \/ ClearScheduler

Spec == Init /\ [][Next]_vars

(* Every call that is made returns (user closures terminate), and the host *)
(* runs the microtasks it was given.                                       *)
Fairness == WF_vars(System)

FairSpec == Spec /\ Fairness
=============================================================================
