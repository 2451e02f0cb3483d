--------------------------- MODULE Readers_proofs ---------------------------
(***************************************************************************)
(* Proofs about the programs that the reactive runtime is made for: the    *)
(* closures of computeds and effects read, and the code outside of them    *)
(* writes.  Effects and callbacks wait for what is in progress, and no     *)
(* closure sees a value that is not current.                               *)
(*                                                                         *)
(* The inductive invariant is the conjunction of                           *)
(*   Deferred  which calls may be active inside of which,                  *)
(*   Calls     who makes a call, and what it inherits from its caller,     *)
(*   Idle      that queued work is held by some call, or scheduled,        *)
(*   Waits     what a next_tick callback waits for,                        *)
(*   Ordered   that the calls go down the order of the nodes,              *)
(*   Fresh     what is current: everywhere, and in each active call.       *)
(* The last section adds to it, for programs that write once per flush,    *)
(*   MainAlone that a write starts from an empty stack,                    *)
(*   Born, Recorded, Justified  why each Dirty effect is going to run.     *)
(***************************************************************************)
EXTENDS Runtime_proofs

-----------------------------------------------------------------------------
(* Where effects may run: programs without synchronous watchers, whose     *)
(* read closures only compute                                              *)

PlainReads == SyncEffects = {} /\ Habits \cap {"ReadInRead", "BatchInRead"} = {}

(* What may be called, at any depth, from a call. *)
Under(f, g) ==
  /\ f.op = "with" => g.op = "notify"
  /\ g.op = "flush" => f.op # "batch"
  /\ f.op # "notify"

DeferredIn(s) == \A i, j \in DOMAIN s : i < j => Under(s[i], s[j])

Deferred == DeferredIn(stack) /\ syncPending = <<>>

LEMMA DeferPush ==
  ASSUME NEW s \in Seq(Frame), DeferredIn(s), NEW f \in Frame, \A i \in DOMAIN s : Under(s[i], f)
  PROVE  DeferredIn(Append(s, f))
<1> DEFINE t == Append(s, f)
<1>1. /\ Len(t) = Len(s) + 1 /\ Len(s) \in Nat /\ t[Len(t)] = f
      /\ DOMAIN s = 1 .. Len(s) /\ DOMAIN t = 1 .. Len(s) + 1
      /\ \A i \in DOMAIN s : i \in DOMAIN t /\ i < Len(t) /\ t[i] = s[i]
      /\ \A i \in DOMAIN t : i \in DOMAIN s \/ i = Len(t)
  BY PushIndex
<1> HIDE DEF t
<1>2. DeferredIn(t)
  <2> SUFFICES ASSUME NEW i \in DOMAIN t, NEW j \in DOMAIN t, i < j
               PROVE  Under(t[i], t[j])
    BY DEF DeferredIn
  <2>1. i \in DOMAIN s /\ t[i] = s[i]
    BY <1>1
  <2>2. (j \in DOMAIN s /\ t[j] = s[j]) \/ t[j] = f
    BY <1>1
  <2> QED
    BY <2>1, <2>2 DEF DeferredIn
<1> QED
  BY <1>2 DEF t

(* What the innermost call says about those that wait for it. *)
LEMMA DeferPop ==
  ASSUME NEW s \in Seq(Frame), s # <<>>, DeferredIn(s)
  PROVE  LET t == SubSeq(s, 1, Len(s) - 1)
         IN DeferredIn(t) /\ \A i \in DOMAIN t : Under(t[i], s[Len(s)])
<1> DEFINE t == SubSeq(s, 1, Len(s) - 1)
<1>1. /\ DOMAIN s = 1 .. Len(s) /\ DOMAIN t = 1 .. Len(s) - 1 /\ Len(s) \in DOMAIN s
      /\ \A i \in DOMAIN t : i \in DOMAIN s /\ i < Len(s) /\ t[i] = s[i]
  BY PopIndex
<1> HIDE DEF t
<1>2. DeferredIn(t) /\ \A i \in DOMAIN t : Under(t[i], s[Len(s)])
  BY <1>1 DEF DeferredIn
<1> QED
  BY <1>2 DEF t

LEMMA CountZero ==
  ASSUME NEW s \in Seq(Frame), NEW op, CountIn(s, op) = 0
  PROVE  \A i \in DOMAIN s : s[i].op # op
<1>1. IsFiniteSet({i \in DOMAIN s : s[i].op = op})
  BY CountType
<1>2. {i \in DOMAIN s : s[i].op = op} = {}
  BY <1>1, FS_EmptySet DEF CountIn
<1> QED
  BY <1>2

LEMMA DeferNext ==
  ASSUME PlainReads, TypeOK, TypeOK', WellNested, Deferred, [Next]_vars
  PROVE  Deferred'
<1> DEFINE Step == DeferredIn(stack') /\ syncPending' = <<>>
           Quiet == UNCHANGED syncPending
           Outside(s) == \A i \in DOMAIN s : s[i].op \notin {"with", "notify"}
<1>1. stack \in Seq(Frame) /\ DeferredIn(stack) /\ syncPending = <<>>
  BY DEF TypeOK, Deferred
<1>2. SUFFICES Step
  BY DEF Deferred, DeferredIn, Under
<1>3. ASSUME NEW s \in Seq(Frame), DeferredIn(s), NEW f \in Frame, Outside(s), f.op # "flush"
      PROVE  DeferredIn(Append(s, f))
  BY <1>3, DeferPush DEF Under
<1>4. ASSUME stack # <<>>
      PROVE  /\ Pop \in Seq(Frame) /\ DeferredIn(Pop)
             /\ \A i \in DOMAIN Pop : Pop[i] = stack[i] /\ Under(Pop[i], Top)
             /\ \A i \in DOMAIN Pop : i \in DOMAIN stack
             /\ Top.op # "notify" => Outside(Pop)
             /\ \A i \in DOMAIN stack : i \in DOMAIN Pop \/ stack[i] = Top
  <2>1. /\ Pop \in Seq(Frame) /\ DOMAIN stack = 1 .. Len(stack) /\ DOMAIN Pop = 1 .. Len(stack) - 1
        /\ \A i \in DOMAIN Pop : i \in DOMAIN stack /\ Pop[i] = stack[i]
        /\ \A i \in DOMAIN stack : i \in DOMAIN Pop \/ i = Len(stack)
    BY <1>1, <1>4, PopIndex DEF Pop
  <2>2. DeferredIn(Pop) /\ \A i \in DOMAIN Pop : Under(Pop[i], Top)
    BY <1>1, <1>4, DeferPop DEF Pop, Top
  <2> QED
    BY <2>1, <2>2 DEF Under, Top
<1>5. ASSUME stack = <<>> \/ Top.op \notin {"with", "notify"}
      PROVE  Outside(stack)
  <2>1. CASE stack = <<>>
    BY <2>1
  <2>2. CASE stack # <<>>
    BY <1>4, <1>5, <2>2
  <2> QED
    BY <2>1, <2>2
(* The innermost call is replaced by one that may be where it is. *)
<1>6. ASSUME stack # <<>>, NEW f \in Frame, f.op = Top.op \/ (Top.op # "notify" /\ f.op # "flush")
      PROVE  Append(Pop, f) \in Seq(Frame) /\ DeferredIn(Append(Pop, f))
  BY <1>4, <1>6, DeferPush DEF Under
(* Nothing flushes inside a batch or a read closure. *)
<1>7. ASSUME NEW s \in Seq(Frame), DeferredIn(s), Outside(s),
             CountIn(s, "batch") = 0, ScheduleOrFlush(s)
      PROVE  DeferredIn(stack')
  <2>1. Call(s, "flush", None) \in Frame /\ Call(s, "flush", None).op = "flush"
    BY CallType, PlainCallType DEF Ops
  <2>2. \A i \in DOMAIN s : s[i].op # "batch"
    BY <1>7, CountZero
  <2>3. DeferredIn(Append(s, Call(s, "flush", None)))
    BY <1>7, <2>1, <2>2, DeferPush DEF Under
  <2> QED
    BY <1>7, <2>3 DEF ScheduleOrFlush
<1>8. batchDepth = CountIn(stack, "batch") /\ readingDepth = CountIn(stack, "with")
  BY DEF WellNested, Count
<1>9. ASSUME stack # <<>>, NEW op
      PROVE  CountIn(Pop, op) = IF Top.op = op THEN CountIn(stack, op) - 1 ELSE CountIn(stack, op)
  BY <1>1, <1>9, CountPop DEF Pop, Top
<1> HIDE DEF Outside, Step
<1> USE DEF In
<1>10. CASE FlushEffect
  <2>1. Head(pending) \in Effects
    BY <1>10 DEF FlushEffect, TypeOK
  <2>2. Pull(stack, Head(pending)) \in Frame
    BY <1>1, <2>1, PullType DEF Nodes
  <2>3. DeferredIn(stack')
    BY <1>1, <1>3, <1>5, <1>10, <2>2, PullFields DEF FlushEffect, Push
  <2> QED
    BY <1>1, <1>10, <2>3 DEF FlushEffect, Step
<1>11. CASE FlushTake
  <2>1. stack # <<>> /\ Top.op = "flush" /\ Top \in Frames
    BY <1>11, TopFrame DEF FlushTake
  <2>2. [Top EXCEPT !.cbs = postFlush].op = Top.op
    BY <2>1 DEF Frames
  <2> QED
    BY <1>1, <1>6, <1>11, <2>1, <2>2, FlushTakeIs DEF FlushTake, Step
<1>12. CASE FlushCallback
  <2>1. stack # <<>> /\ Top.op = "flush" /\ Top \in Frames
    BY <1>12, TopFrame DEF FlushCallback
  <2>2. Rest.op = Top.op
    BY <2>1 DEF Rest, Frames
  <2> DEFINE rest == Append(Pop, Rest)
  <2>3. rest \in Seq(Frame) /\ DeferredIn(rest)
    BY <1>6, <1>12, <2>1, <2>2, FlushCallbackIs
  <2>4. Outside(rest)
    <3>1. Outside(Pop) /\ Rest.op \notin {"with", "notify"} /\ Pop \in Seq(Frame)
      BY <1>4, <2>1, <2>2
    <3> QED
      BY <3>1 DEF Outside
  <2>5. TickFrame(rest, Head(Top.cbs)) \in Frame /\ stack' = Append(rest, TickFrame(rest, Head(Top.cbs)))
    BY <1>12, FlushCallbackIs
  <2> HIDE DEF rest
  <2> QED
    BY <1>1, <1>3, <1>12, <2>3, <2>4, <2>5, TickFields DEF FlushCallback, Step
<1>13. CASE FlushDone
  BY <1>1, <1>4, <1>13 DEF FlushDone, Step
<1>14. CASE FlushJobs
  <2>1. stack = <<>> /\ stack' = Append(stack, Call(stack, "flush", None))
    BY <1>14 DEF FlushJobs, Push
  <2>2. Call(stack, "flush", None) \in Frame
    BY <1>1, CallType, PlainCallType DEF Ops
  <2>3. DOMAIN stack = {}
    BY <2>1
  <2>4. DeferredIn(stack')
    BY <1>1, <2>1, <2>2, <2>3, DeferPush
  <2> QED
    BY <1>1, <1>14, <2>4 DEF FlushJobs, Step
<1>15. CASE MarkStale
  <2>1. stack # <<>> /\ Top.op = "notify" /\ Top \in Frames
    BY <1>15, TopFrame DEF MarkStale
  <2>2. PICK marks : [Top EXCEPT !.marks = marks] \in Frame
                     /\ stack' = Append(Pop, [Top EXCEPT !.marks = marks])
    BY <1>15, MarkStaleIs
  <2>3. [Top EXCEPT !.marks = marks].op = Top.op
    BY <2>1 DEF Frames
  <2>4. syncPending' = syncPending
    BY <1>15, MarkStaleIs DEF PlainReads
  <2> QED
    BY <1>1, <1>6, <2>1, <2>2, <2>3, <2>4 DEF Step
<1>16. CASE RunSyncEffect
  BY <1>1, <1>16 DEF RunSyncEffect
<1>17. CASE NotifyDone
  <2>1. stack # <<>> /\ Top.op = "notify" /\ Quiet
    BY <1>17 DEF NotifyDone
  <2>2. CASE Ready(readingDepth)
    <3>1. CountIn(Pop, "batch") = 0 /\ CountIn(Pop, "with") = 0
      BY <1>8, <1>9, <2>1, <2>2 DEF Ready
    <3>2. Outside(Pop)
      <4>1. \A i \in DOMAIN Pop : Pop[i].op # "with"
        BY <1>4, <2>1, <3>1, CountZero
      <4> QED
        BY <1>4, <2>1, <4>1 DEF Outside, Under
    <3> QED
      BY <1>1, <1>4, <1>7, <1>17, <2>1, <2>2, <3>1, <3>2 DEF NotifyDone, MaybeFlush, Step
  <2>3. CASE ~Ready(readingDepth)
    BY <1>1, <1>4, <1>17, <2>1, <2>3 DEF NotifyDone, MaybeFlush, Step
  <2> QED
    BY <2>2, <2>3
<1>18. CASE PullSource
  <2>1. stack # <<>> /\ Top.op = "pull" /\ Top \in Frames /\ Quiet
    BY <1>18, TopFrame DEF PullSource
  <2>2. PICK d \in Top.todo :
           LET f == [Top EXCEPT !.todo = Top.todo \ {d}]
           IN /\ f \in Frame /\ Append(Pop, f) \in Seq(Frame)
              /\ Pull(Append(Pop, f), d) \in Frame
              /\ stack' = Append(Append(Pop, f), Pull(Append(Pop, f), d))
    BY <1>18, PullSourceIs
  <2> DEFINE f == [Top EXCEPT !.todo = Top.todo \ {d}]
             rest == Append(Pop, f)
  <2>3. f.op = "pull" /\ f \in Frame
    BY <2>1, <2>2 DEF Frames
  <2>4. rest \in Seq(Frame) /\ Pull(rest, d) \in Frame /\ stack' = Append(rest, Pull(rest, d))
    BY <2>2
  <2> HIDE DEF f
  <2>5. DeferredIn(rest)
    BY <1>6, <2>1, <2>3
  <2>6. Outside(rest)
    <3>1. Outside(Pop) /\ Pop \in Seq(Frame)
      BY <1>4, <2>1
    <3> QED
      BY <2>3, <3>1 DEF Outside
  <2> HIDE DEF rest
  <2> QED
    BY <1>1, <1>3, <2>1, <2>4, <2>5, <2>6, PullFields DEF Step
<1>19. CASE PullRun
  <2> DEFINE f == [Call(stack, "body", Top.node) EXCEPT !.by = Top.node, !.obs = Top.node]
  <2>1. f \in Frame /\ stack' = Append(Pop, f) /\ f.op = "body"
    BY <1>19, PullRunIs
  <2> HIDE DEF f
  <2>2. stack # <<>> /\ Top.op = "pull" /\ Quiet
    BY <1>19 DEF PullRun
  <2> QED
    BY <1>1, <1>6, <2>1, <2>2 DEF Step
<1>20. CASE PullDone
  BY <1>1, <1>4, <1>20 DEF PullDone, Step
<1>22. CASE FinishEffect
  BY <1>1, <1>4, <1>22 DEF FinishEffect, Step
<1>23. CASE FinishComputed
  <2>1. stack # <<>> /\ stack' = Pop /\ Quiet
    BY <1>23 DEF FinishComputed
  <2> QED
    BY <1>1, <1>4, <2>1 DEF Step
<1>24. ASSUME NEW reading, stack # <<>>, Top.op \in {"get", "with"}, MaybeFlush(Pop, reading)
       PROVE  DeferredIn(stack')
  <2>1. Outside(Pop)
    BY <1>4, <1>24
  <2>2. CASE Ready(reading)
    <3>1. CountIn(Pop, "batch") = 0
      BY <1>8, <1>9, <1>24, <2>2 DEF Ready
    <3> QED
      BY <1>4, <1>7, <1>24, <2>1, <2>2, <3>1 DEF MaybeFlush
  <2>3. CASE ~Ready(reading)
    BY <1>4, <1>24, <2>3 DEF MaybeFlush
  <2> QED
    BY <2>2, <2>3
<1>25. CASE EndGet
  BY <1>1, <1>24, <1>25 DEF EndGet, Step
<1>26. CASE With
  <2> DEFINE f == [Top EXCEPT !.op = "with", !.val = value[Top.node]]
  <2>1. f \in Frame /\ stack' = Append(Pop, f) /\ f.op = "with"
    BY <1>26, WithIs
  <2> HIDE DEF f
  <2>2. stack # <<>> /\ Top.op = "open" /\ Quiet
    BY <1>26 DEF With
  <2> QED
    BY <1>1, <1>6, <2>1, <2>2 DEF Step
<1>27. CASE EndWith
  BY <1>1, <1>24, <1>27 DEF EndWith, Step
<1>28. CASE ReadPanics
  BY <1>1, <1>28 DEF ReadPanics, Panic, Step
<1>29. CASE EndBatch
  <2>1. stack # <<>> /\ Top.op = "batch" /\ Quiet
    BY <1>29 DEF EndBatch
  <2>2. CASE batchDepth = 1
    <3>1. CountIn(Pop, "batch") = 0
      BY <1>8, <1>9, <2>1, <2>2
    <3>2. ScheduleOrFlush(Pop)
      BY <1>29, <2>2 DEF EndBatch
    <3> QED
      BY <1>1, <1>4, <1>7, <2>1, <3>1, <3>2 DEF Step
  <2>3. CASE batchDepth # 1
    BY <1>1, <1>4, <1>29, <2>1, <2>3 DEF EndBatch, Step
  <2> QED
    BY <2>2, <2>3
<1>30. CASE EndTick
  BY <1>1, <1>4, <1>30 DEF EndTick, Step
<1>31. ASSUME NEW c, Runs(c), ~InRead
       PROVE  Outside(stack)
  BY <1>5, <1>31 DEF Runs, InRead, UserOps
<1>32. ASSUME NEW c \in Code, NEW d \in Sources, NEW op \in {"get", "open"}, Read(c, d, op)
       PROVE  Step
  <2> DEFINE read == Call(stack, op, d)
             reading == Append(stack, read)
  <2>1. read \in Frame /\ read.op = op
    BY <1>1, CallType, PlainCallType DEF Ops, Nodes
  <2>2. stack' = Append(reading, Pull(reading, d)) /\ Quiet
    BY <1>32 DEF Read, Push
  <2>3. Outside(stack)
    BY <1>31, <1>32 DEF Read, PlainReads
  <2> HIDE DEF read
  <2>4. reading \in Seq(Frame) /\ DeferredIn(reading) /\ Outside(reading)
    <3>1. DeferredIn(reading)
      BY <1>1, <1>3, <2>1, <2>3
    <3>2. Outside(reading)
      BY <1>1, <2>1, <2>3 DEF Outside
    <3> QED
      BY <1>1, <2>1, <3>1, <3>2
  <2> HIDE DEF reading
  <2>5. Pull(reading, d) \in Frame
    BY <2>4, PullType DEF Nodes
  <2> QED
    BY <1>1, <1>3, <2>2, <2>4, <2>5, PullFields DEF Step
<1>33. ASSUME NEW c \in Code, Get(c) \/ Open(c)
       PROVE  Step
  BY <1>32, <1>33, ProgramAssumption DEF Get, Open
<1>34. ASSUME NEW c \in Code, Set(c) \/ Update(c)
       PROVE  Step
  <2>1. PICK s \in Signals : stack' = Notify(stack, s) \/ stack' = stack
    BY <1>34, ProgramAssumption DEF Set, Update
  <2> DEFINE f == [Call(stack, "notify", s) EXCEPT !.marks = Subs(s) \X {Dirty}]
  <2>2. f \in Frame /\ Notify(stack, s) = Append(stack, f) /\ f.op = "notify"
    BY <1>1, NotifyIs
  <2> HIDE DEF f
  <2>3. \A i \in DOMAIN stack : stack[i].op # "notify"
    <3>1. stack = <<>> \/ (stack # <<>> /\ Top.op \in UserOps)
      BY <1>34 DEF Set, Update, Runs
    <3> QED
      BY <1>4, <3>1 DEF UserOps, Under
  <2>4. DeferredIn(Append(stack, f))
    BY <1>1, <2>2, <2>3, DeferPush DEF Under
  <2> QED
    BY <1>1, <1>34, <2>1, <2>2, <2>4 DEF Set, Update, Step
<1>35. ASSUME NEW c \in Code, UpdatePanics(c)
       PROVE  Step
  BY <1>1, <1>35 DEF UpdatePanics, Panic, Step
<1>36. ASSUME NEW c \in Code, Batch(c)
       PROVE  Step
  <2>1. Call(stack, "batch", None) \in Frame /\ Call(stack, "batch", None).op = "batch"
    BY <1>1, CallType, PlainCallType DEF Ops
  <2>2. Outside(stack)
    BY <1>31, <1>36 DEF Batch, PlainReads
  <2> QED
    BY <1>1, <1>3, <1>36, <2>1, <2>2 DEF Batch, Push, Step
<1>37. ASSUME NEW c \in Code, NextTick(c)
       PROVE  Step
  <2>1. CASE stack' = stack
    BY <1>1, <1>37, <2>1 DEF NextTick, Step
  <2>2. CASE ~Defers /\ \E t \in Ticks : stack' = Append(stack, TickFrame(stack, t))
    <3>1. PICK t \in Ticks : stack' = Append(stack, TickFrame(stack, t))
      BY <2>2
    <3>2. TickFrame(stack, t) \in Frame
      BY <1>1, TickFrameType
    <3>3. CountIn(stack, "with") = 0
      <4>1. CountIn(stack, "with") \in Nat
        BY <1>1, CountType
      <4> QED
        BY <1>8, <2>2, <4>1 DEF Defers
    <3>4. \A i \in DOMAIN stack : stack[i].op # "with"
      BY <1>1, <3>3, CountZero
    <3>5. ~InRead
      <4>1. stack # <<>> => Len(stack) \in DOMAIN stack
        BY <1>1
      <4> QED
        BY <3>4, <4>1 DEF InRead, Top
    <3>6. Outside(stack)
      BY <1>31, <1>37, <3>5 DEF NextTick
    <3> QED
      BY <1>1, <1>3, <1>37, <3>1, <3>2, <3>6, TickFields DEF NextTick, Step
  <2>3. stack' = stack \/ (~Defers /\ \E t \in Ticks : stack' = Append(stack, TickFrame(stack, t)))
    BY <1>37 DEF NextTick, ScheduleOrFlush, Push
  <2> QED
    BY <2>1, <2>2, <2>3
<1>38. ASSUME NEW c \in Code, CreateEffect(c)
       PROVE  Step
  <2>1. PICK e \in Effects : stack' = Append(stack, Call(stack, "pull", e))
    BY <1>38 DEF CreateEffect, Push
  <2>2. Call(stack, "pull", e) \in Frame /\ Call(stack, "pull", e).op = "pull"
    BY <1>1, CallType, PlainCallType DEF Ops, Nodes
  <2>3. Outside(stack)
    BY <1>31, <1>38 DEF CreateEffect, PlainReads
  <2> QED
    BY <1>1, <1>3, <1>38, <2>1, <2>2, <2>3 DEF CreateEffect, Step
<1>39. CASE SetScheduler \/ ClearScheduler
  BY <1>1, <1>39 DEF SetScheduler, ClearScheduler, Step
<1>40. CASE UNCHANGED vars
  BY <1>1, <1>40 DEF vars, Step
<1> QED
  BY <1>10, <1>11, <1>12, <1>13, <1>14, <1>15, <1>16, <1>17, <1>18, <1>19, <1>20, <1>22,
     <1>23, <1>25, <1>26, <1>27, <1>28, <1>29, <1>30, <1>33, <1>34, <1>35, <1>36, <1>37,
     <1>38, <1>39, <1>40
  DEF Next, System, User

LEMMA DeferredAlways == ASSUME PlainReads PROVE Spec => []Deferred
<1>1. Init => Deferred
  BY DEF Init, Deferred, DeferredIn
<1>2. TypeOK /\ TypeOK' /\ WellNested /\ Deferred /\ [Next]_vars => Deferred'
  BY DeferNext
<1> QED
  BY <1>1, <1>2, TypeCorrect, NestingCorrect, PTL DEF Spec

(* A write inside a batch or inside a read closure queues its effects and  *)
(* maybe_flush leaves them there: no queued effect runs before the         *)
(* outermost batch, or the read, has ended.                                *)
THEOREM QueuedEffectsWait == ASSUME PlainReads PROVE Spec => []EffectsDeferred
<1>1. TypeOK /\ Deferred => EffectsDeferred
  <2> SUFFICES ASSUME TypeOK, Deferred, NEW i \in DOMAIN stack, NEW j \in DOMAIN stack, i < j,
                      stack[j - 1].op = "flush"
               PROVE  stack[i].op \notin {"batch", "with"}
    BY DEF EffectsDeferred
  <2>1. i = j - 1 \/ (i < j - 1 /\ j - 1 \in DOMAIN stack)
    BY DEF TypeOK
  <2> QED
    BY <2>1 DEF Deferred, DeferredIn, Under
<1> QED
  BY <1>1, TypeCorrect, DeferredAlways, PTL

-----------------------------------------------------------------------------
(* Programs whose closures only read: only code outside the closures       *)
(* writes, batches and calls next_tick, and there are no synchronous       *)
(* watchers.  It may install the async scheduler at any time.              *)

UserCode == {Main, Tick}

ClosuresOnlyRead ==
  /\ SyncEffects = {} /\ Habits \subseteq {"SetScheduler"}
  /\ \A n \in Observers : CanWrite[n] = {} /\ n \notin CanBatch \cup CanTick

(* The calls that bring a node up to date. *)
Inside == {"pull", "body", "get", "open"}

(* The calls that user code makes. *)
ByUser == {"get", "open", "with", "notify", "batch"}

FrameOK(f) ==
  /\ f.obs = IF f.by \in UserCode THEN None ELSE f.by
  /\ f.op \in {"flush", "batch", "tick", "notify"} => f.by \in UserCode
  /\ f.op # "notify" => f.marks = {}
  /\ f.op \notin {"flush", "tick"} => f.cbs = <<>>

(* The code outside the closures does not run inside of them. *)
Above(f, g) ==
  /\ f.op \in Inside => /\ g.op \in Inside \cup {"with"}
                        /\ g.op \in {"get", "open", "with"} => g.by \in Observers
  /\ f.op = "with" => f.by \in UserCode

(* g is called by f. *)
Adjacent(f, g) ==
  /\ g.op \in ByUser => f.op \in UserOps /\ g.by = f.by
  /\ f.op \in {"get", "open"} => g.op \in {"pull", "body"} /\ g.node = f.node
  /\ f.op = "pull" => g.op \in {"pull", "body"}
  /\ f.op = "body" => g.op \in {"get", "open", "with"}

(* f is called when the calls in s are active. *)
On(s, f) ==
  /\ FrameOK(f)
  /\ \A i \in DOMAIN s : Above(s[i], f)
  /\ s # <<>> => Adjacent(s[Len(s)], f)
  /\ s = <<>> /\ f.op \in ByUser => f.by = Main

CallsIn(s) ==
  /\ \A i \in DOMAIN s : FrameOK(s[i])
  /\ \A i, j \in DOMAIN s : i < j => Above(s[i], s[j])
  /\ \A i, j \in DOMAIN s : j = i + 1 => Adjacent(s[i], s[j])
  /\ s # <<>> /\ s[1].op \in ByUser => s[1].by = Main

Calls == CallsIn(stack)

LEMMA EmptyStack ==
  ASSUME NEW S, NEW s \in Seq(S)
  PROVE  s = <<>> <=> Len(s) = 0
  OBVIOUS

LEMMA CallsPush ==
  ASSUME NEW s \in Seq(Frame), CallsIn(s), NEW f \in Frame, On(s, f)
  PROVE  CallsIn(Append(s, f))
<1> DEFINE t == Append(s, f)
<1>1. /\ Len(t) = Len(s) + 1 /\ Len(s) \in Nat /\ t[Len(t)] = f /\ t # <<>>
      /\ DOMAIN s = 1 .. Len(s) /\ DOMAIN t = 1 .. Len(s) + 1
      /\ \A i \in DOMAIN s : i \in DOMAIN t /\ i < Len(t) /\ t[i] = s[i]
      /\ \A i \in DOMAIN t : i \in DOMAIN s \/ i = Len(t)
  BY PushIndex
<1>2. s = <<>> <=> Len(s) = 0
  OBVIOUS
<1> HIDE DEF t
<1>3. \A i \in DOMAIN t : FrameOK(t[i])
  BY <1>1 DEF CallsIn, On
<1>4. \A i, j \in DOMAIN t : i < j => Above(t[i], t[j])
  <2> SUFFICES ASSUME NEW i \in DOMAIN t, NEW j \in DOMAIN t, i < j
               PROVE  Above(t[i], t[j])
    OBVIOUS
  <2>1. i \in DOMAIN s /\ t[i] = s[i]
    BY <1>1
  <2>2. (j \in DOMAIN s /\ t[j] = s[j]) \/ t[j] = f
    BY <1>1
  <2> QED
    BY <2>1, <2>2 DEF CallsIn, On
<1>5. \A i, j \in DOMAIN t : j = i + 1 => Adjacent(t[i], t[j])
  <2> SUFFICES ASSUME NEW i \in DOMAIN t, NEW j \in DOMAIN t, j = i + 1
               PROVE  Adjacent(t[i], t[j])
    OBVIOUS
  <2>1. i \in DOMAIN s /\ t[i] = s[i]
    BY <1>1
  <2>2. (j \in DOMAIN s /\ t[j] = s[j]) \/ (t[j] = f /\ i = Len(s) /\ s # <<>>)
    BY <1>1, <1>2
  <2> QED
    BY <2>1, <2>2 DEF CallsIn, On
<1>6. t[1].op \in ByUser => t[1].by = Main
  <2>1. (s = <<>> /\ t[1] = f) \/ (s # <<>> /\ 1 \in DOMAIN s /\ t[1] = s[1])
    BY <1>1, <1>2
  <2> QED
    BY <2>1 DEF CallsIn, On
<1> QED
  BY <1>1, <1>3, <1>4, <1>5, <1>6 DEF CallsIn, t

LEMMA CallsPop ==
  ASSUME NEW s \in Seq(Frame), s # <<>>, CallsIn(s)
  PROVE  LET t == SubSeq(s, 1, Len(s) - 1)
         IN CallsIn(t) /\ On(t, s[Len(s)])
<1> DEFINE t == SubSeq(s, 1, Len(s) - 1)
<1>1. /\ t \in Seq(Frame) /\ Len(t) = Len(s) - 1 /\ Len(s) \in Nat \ {0}
      /\ DOMAIN s = 1 .. Len(s) /\ DOMAIN t = 1 .. Len(s) - 1 /\ Len(s) \in DOMAIN s
      /\ \A i \in DOMAIN t : i \in DOMAIN s /\ i < Len(s) /\ t[i] = s[i]
  BY PopIndex
<1> HIDE DEF t
<1>2. t = <<>> <=> Len(t) = 0
  BY <1>1, EmptyStack
<1>3. CallsIn(t)
  <2>1. t # <<>> => t[1] = s[1]
    BY <1>1, <1>2
  <2> QED
    BY <1>1, <2>1 DEF CallsIn
<1>4. On(t, s[Len(s)])
  <2>1. t # <<>> => Len(t) \in DOMAIN t /\ Len(t) + 1 = Len(s) /\ t[Len(t)] = s[Len(s) - 1]
                    /\ Len(s) - 1 \in DOMAIN s
    BY <1>1, <1>2
  <2>2. t = <<>> => Len(s) = 1
    BY <1>1, <1>2
  <2>3. \A i \in DOMAIN t : Above(t[i], s[Len(s)])
    BY <1>1 DEF CallsIn
  <2>4. t # <<>> => Adjacent(t[Len(t)], s[Len(s)])
    <3>1. Len(s) = (Len(s) - 1) + 1
      BY <1>1
    <3> QED
      BY <1>1, <2>1, <3>1 DEF CallsIn
  <2>5. FrameOK(s[Len(s)])
    BY <1>1 DEF CallsIn
  <2>6. t = <<>> /\ s[Len(s)].op \in ByUser => s[Len(s)].by = Main
    BY <2>2 DEF CallsIn
  <2> QED
    BY <2>3, <2>4, <2>5, <2>6 DEF On
<1> QED
  BY <1>3, <1>4 DEF t

(* A call passes on who calls and who observes. *)
LEMMA Inherits ==
  ASSUME NEW s \in Seq(Frame), CallsIn(s)
  PROVE  ObserverIn(s) = IF CodeIn(s) \in UserCode THEN None ELSE CodeIn(s)
<1>1. CASE s = <<>>
  BY <1>1 DEF ObserverIn, CodeIn, UserCode
<1>2. CASE s # <<>>
  <2>1. Len(s) \in DOMAIN s
    BY <1>2
  <2> QED
    BY <1>2, <2>1 DEF ObserverIn, CodeIn, CallsIn, FrameOK
<1> QED
  BY <1>1, <1>2

(* A pull by the runtime: of a queued effect, or of a source. *)
LEMMA PullOn ==
  ASSUME NEW s \in Seq(Frame), s # <<>>, CallsIn(s), NEW f \in Frame, f.op = "pull",
         f.by = CodeIn(s), f.obs = ObserverIn(s), f.marks = {}, f.cbs = <<>>,
         LET g == s[Len(s)]
         IN g.op \in {"pull", "flush"} \/ (g.op \in {"get", "open"} /\ f.node = g.node)
  PROVE  On(s, f)
<1> DEFINE t == SubSeq(s, 1, Len(s) - 1)
           g == s[Len(s)]
<1>1. /\ DOMAIN s = 1 .. Len(s) /\ DOMAIN t = 1 .. Len(s) - 1 /\ Len(s) \in DOMAIN s
      /\ \A i \in DOMAIN t : i \in DOMAIN s /\ i < Len(s) /\ t[i] = s[i]
      /\ \A i \in DOMAIN s : i \in DOMAIN t \/ i = Len(s)
  BY PopIndex
<1>2. On(t, g)
  BY CallsPop
<1> HIDE DEF t
<1>3. \A i \in DOMAIN s : Above(s[i], f)
  <2>1. \A i \in DOMAIN t : Above(s[i], g)
    BY <1>1, <1>2 DEF On
  <2>2. \A i \in DOMAIN t : Above(s[i], f)
    BY <2>1 DEF Above, Inside
  <2>3. Above(g, f)
    BY DEF Above, Inside
  <2> QED
    BY <1>1, <2>2, <2>3
<1>4. FrameOK(f)
  BY Inherits DEF FrameOK
<1>5. Adjacent(g, f)
  BY DEF Adjacent, ByUser
<1> QED
  BY <1>3, <1>4, <1>5 DEF On, ByUser

(* Who may be running. *)
LEMMA Runners ==
  ASSUME ClosuresOnlyRead, TypeOK, Deferred, Calls, NEW c \in Code, Runs(c)
  PROVE  /\ CodeIn(stack) = c
         /\ c \in UserCode =>
              /\ \A i \in DOMAIN stack : stack[i].op \notin Inside
              /\ \A i \in DOMAIN stack : stack[i].op = "with" => stack[i].by \in UserCode
              /\ stack # <<>> => Top.op \in {"with", "batch", "tick"}
         /\ c \in Observers => /\ stack # <<>> /\ Top.op \in {"body", "with"} /\ Top.by = c
                               /\ Top.op = "body" => Top.node = c /\ Top.obs = c
<1>1. stack \in Seq(Frame) /\ Main \notin Observers /\ Tick \notin Observers
  BY ProgramAssumption DEF TypeOK, Nodes, Sources, Observers
<1>2. CASE stack = <<>>
  BY <1>1, <1>2 DEF Runs, CodeIn
<1>3. CASE stack # <<>>
  <2>1. /\ DOMAIN stack = 1 .. Len(stack) /\ Len(stack) \in DOMAIN stack /\ Top \in Frame
    BY <1>1, <1>3 DEF Top
  <2>2. Top.op \in UserOps /\ Top.by = c /\ CodeIn(stack) = c
    BY <1>3 DEF Runs, CodeIn, Top
  <2>3. \A i \in DOMAIN stack : i = Len(stack) \/ Above(stack[i], Top)
    BY <2>1 DEF Calls, CallsIn, Top
  <2>4. FrameOK(Top)
    BY <2>1 DEF Calls, CallsIn, Top
  <2>5. Top.op = "body" => Top.node = c /\ Top.by \in Observers /\ Top.obs = c
    BY <2>1, <2>2 DEF Frame, WellFormed
  <2>6. c \in UserCode => Top.op # "body"
    BY <1>1, <2>2, <2>5 DEF UserCode
  <2>7. c \in UserCode => \A i \in DOMAIN stack : stack[i].op \notin Inside
    <3> SUFFICES ASSUME c \in UserCode, NEW i \in DOMAIN stack, stack[i].op \in Inside
                 PROVE  FALSE
      OBVIOUS
    <3>1. CASE i = Len(stack)
      BY <2>2, <2>6, <3>1 DEF Inside, UserOps, Top
    <3>2. CASE Above(stack[i], Top)
      BY <1>1, <2>2, <2>6, <3>2 DEF Above, Inside, UserOps, UserCode
    <3> QED
      BY <2>3, <3>1, <3>2
  <2>8. c \in UserCode => \A i \in DOMAIN stack : stack[i].op = "with" => stack[i].by \in UserCode
    BY <2>2, <2>3 DEF Above, Top
  <2>9. c \in Observers => Top.op \in {"body", "with"}
    BY <1>1, <2>2, <2>4 DEF FrameOK, UserOps, UserCode
  <2> QED
    BY <1>3, <2>2, <2>5, <2>6, <2>7, <2>8, <2>9 DEF UserOps
<1> QED
  BY <1>2, <1>3


(* No node is being brought up to date. *)
OutsideIn(s) ==
  \A i \in DOMAIN s : s[i].op \notin Inside /\ (s[i].op = "with" => s[i].by \in UserCode)

LEMMA OutsideOn ==
  ASSUME NEW s \in Seq(Frame), CallsIn(s), OutsideIn(s), NEW f \in Frame, FrameOK(f),
         f.op \in ByUser => f.by = CodeIn(s) /\ (s # <<>> => s[Len(s)].op \in UserOps)
  PROVE  On(s, f)
<1>1. \A i \in DOMAIN s : Above(s[i], f)
  BY DEF OutsideIn, Above
<1>2. ASSUME s # <<>>
      PROVE  Adjacent(s[Len(s)], f)
  <2>1. Len(s) \in DOMAIN s
    BY <1>2
  <2> QED
    BY <1>2, <2>1 DEF Adjacent, OutsideIn, Inside, CodeIn
<1>3. s = <<>> /\ f.op \in ByUser => f.by = Main
  BY DEF CodeIn
<1> QED
  BY <1>1, <1>2, <1>3 DEF On

LEMMA FlushCalls ==
  ASSUME NEW s \in Seq(Frame), CallsIn(s), OutsideIn(s), CodeIn(s) \in UserCode,
         NEW reading, ScheduleOrFlush(s) \/ MaybeFlush(s, reading)
  PROVE  CallsIn(stack')
<1> DEFINE f == Call(s, "flush", None)
<1>1. f \in Frame /\ f.op = "flush" /\ f.by = CodeIn(s) /\ f.obs = ObserverIn(s)
      /\ f.marks = {} /\ f.cbs = <<>>
  BY CallType, PlainCallType DEF Ops, Call
<1>2. stack' = s \/ stack' = Append(s, f)
  BY DEF ScheduleOrFlush, MaybeFlush
<1> HIDE DEF f
<1>3. FrameOK(f)
  BY <1>1, Inherits DEF FrameOK
<1>4. CallsIn(Append(s, f))
  BY <1>1, <1>3, OutsideOn, CallsPush DEF ByUser
<1> QED
  BY <1>2, <1>4

(* Where a call of user code returns to. *)
LEMMA ReturnsTo ==
  ASSUME TypeOK, Calls, stack # <<>>
  PROVE  /\ Pop \in Seq(Frame) /\ CallsIn(Pop) /\ On(Pop, Top)
         /\ Top.op \in ByUser =>
              /\ CodeIn(Pop) = Top.by
              /\ Top.by \in UserCode => OutsideIn(Pop)
<1>1. Pop \in Seq(Frame) /\ CallsIn(Pop) /\ On(Pop, Top)
  BY CallsPop, PopType DEF TypeOK, Calls, Pop, Top
<1>2. \A n \in UserCode : n \notin Observers
  BY ProgramAssumption DEF UserCode, Nodes, Sources, Observers
<1>3. Top.op \in ByUser => CodeIn(Pop) = Top.by
  BY <1>1 DEF On, Adjacent, CodeIn
<1>4. Top.op \in ByUser /\ Top.by \in UserCode => OutsideIn(Pop)
  BY <1>1, <1>2 DEF On, Above, OutsideIn, ByUser, Inside
<1> QED
  BY <1>1, <1>3, <1>4

(* What is still to be done when nothing flushes now: nothing, or what the *)
(* host was asked to do.                                                   *)
Work == pending # <<>> \/ postFlush # <<>>

Held ==
  \/ batchDepth > 0 \/ flushing
  \/ stack # <<>> /\ Top.op = "notify"
  \/ \E i \in DOMAIN stack : stack[i].op = "with" /\ stack[i].by \in UserCode

Idle ==
  /\ ~Held /\ Work => scheduler /\ microtasks > 0
  /\ flushScheduled => microtasks > 0

(* A read by a closure does not flush. *)
LEMMA ClosureReturns ==
  ASSUME TypeOK, WellNested, Deferred, Calls, Idle, stack # <<>>, Top.by \notin UserCode,
         NEW reading, MaybeFlush(Pop, reading),
         \/ Top.op = "get" /\ reading = readingDepth
         \/ Top.op = "with" /\ reading = readingDepth - 1
  PROVE  stack' = Pop
<1>1. SUFFICES ASSUME Ready(reading)
               PROVE  scheduler
  BY DEF MaybeFlush, ScheduleOrFlush
<1>2. stack \in Seq(Frame) /\ readingDepth = CountIn(stack, "with")
  BY DEF TypeOK, WellNested, Count
<1>3. ASSUME NEW i \in DOMAIN stack, stack[i].op = "with", stack[i].by \in UserCode
      PROVE  FALSE
  <2>1. CASE Top.op = "get"
    BY <1>1, <1>2, <1>3, <2>1, CountZero DEF Ready
  <2>2. CASE Top.op = "with"
    <3>1. i = Len(stack) \/ (i < Len(stack) /\ Len(stack) \in DOMAIN stack)
      BY <1>2
    <3>2. CASE i = Len(stack)
      BY <1>3, <3>2 DEF Top
    <3>3. CASE i < Len(stack) /\ Len(stack) \in DOMAIN stack
      BY <1>3, <2>2, <3>3 DEF Deferred, DeferredIn, Under, Top
    <3> QED
      BY <3>1, <3>2, <3>3
  <2> QED
    BY <2>1, <2>2
<1>4. ~Held
  BY <1>1, <1>3 DEF Held, Ready
<1> QED
  BY <1>1, <1>4 DEF Idle, Work, Ready

LEMMA CallsNext ==
  ASSUME ClosuresOnlyRead, TypeOK, TypeOK', WellNested, Deferred, Calls, Idle, [Next]_vars
  PROVE  Calls'
<1> DEFINE Step == CallsIn(stack')
<1>1. stack \in Seq(Frame) /\ CallsIn(stack)
  BY DEF TypeOK, Calls
<1>2. SUFFICES Step
  BY DEF Calls, CallsIn
<1>3. \A n \in UserCode : n \notin Observers /\ n \notin Effects
  BY ProgramAssumption DEF UserCode, Nodes, Sources, Observers
<1>4. ASSUME stack # <<>>
      PROVE  /\ Pop \in Seq(Frame) /\ CallsIn(Pop) /\ On(Pop, Top) /\ FrameOK(Top)
             /\ Top.op \in ByUser =>
                  /\ CodeIn(Pop) = Top.by
                  /\ Top.by \in UserCode => OutsideIn(Pop)
  BY <1>4, ReturnsTo DEF On
(* The innermost call goes on. *)
<1>5. ASSUME stack # <<>>, NEW f \in Frame, f.op = Top.op, f.by = Top.by, f.node = Top.node,
             FrameOK(f)
      PROVE  Append(Pop, f) \in Seq(Frame) /\ CallsIn(Append(Pop, f))
  <2>1. On(Pop, f)
    BY <1>4, <1>5 DEF On, Above, Adjacent
  <2> QED
    BY <1>4, <1>5, <2>1, CallsPush
(* The code outside the closures calls. *)
<1>6. ASSUME NEW c \in UserCode, Runs(c), NEW f \in Frame, f.op # "body", f.obs = ObserverIn(stack),
             f.op # "notify" => f.marks = {}, f.op # "tick" => f.cbs = <<>>,
             f.by = CodeIn(stack) \/ (f.op = "tick" /\ f.by = Tick),
             f.op \in ByUser => f.by = CodeIn(stack)
      PROVE  CallsIn(Append(stack, f))
  <2>1. CodeIn(stack) = c /\ OutsideIn(stack)
    BY <1>3, <1>6, Runners DEF OutsideIn, UserCode, Code
  <2>2. FrameOK(f)
    BY <1>1, <1>6, <2>1, Inherits DEF FrameOK, UserCode
  <2>3. stack # <<>> => stack[Len(stack)].op \in UserOps
    BY <1>6 DEF Runs, Top
  <2> QED
    BY <1>1, <1>6, <2>1, <2>2, <2>3, OutsideOn, CallsPush
<1> HIDE DEF Step
<1> USE DEF In
<1>10. CASE FlushEffect
  <2>1. Head(pending) \in Effects
    BY <1>10 DEF FlushEffect, TypeOK
  <2>2. Pull(stack, Head(pending)) \in Frame
    BY <1>1, <2>1, PullType DEF Nodes
  <2>3. stack # <<>> /\ Top.op = "flush" /\ stack' = Append(stack, Pull(stack, Head(pending)))
    BY <1>10 DEF FlushEffect, Push
  <2>4. On(stack, Pull(stack, Head(pending)))
    BY <1>1, <2>2, <2>3, PullFields, PullOn DEF Top
  <2> QED
    BY <1>1, <2>2, <2>3, <2>4, CallsPush DEF Step
<1>11. CASE FlushTake
  <2> DEFINE f == [Top EXCEPT !.cbs = postFlush]
  <2>1. stack # <<>> /\ Top.op = "flush" /\ Top \in Frames
    BY <1>11, TopFrame DEF FlushTake
  <2>2. /\ f.op = Top.op /\ f.by = Top.by /\ f.node = Top.node /\ f.obs = Top.obs
        /\ f.marks = Top.marks
    BY <2>1 DEF Frames
  <2>3. f \in Frame /\ stack' = Append(Pop, f)
    BY <1>11, FlushTakeIs
  <2> HIDE DEF f
  <2>4. FrameOK(f)
    BY <1>4, <2>1, <2>2 DEF FrameOK
  <2> QED
    BY <1>5, <2>1, <2>2, <2>3, <2>4 DEF Step
<1>12. CASE FlushCallback
  <2>1. stack # <<>> /\ Top.op = "flush" /\ Top \in Frames
    BY <1>12, TopFrame DEF FlushCallback
  <2>2. /\ Rest.op = Top.op /\ Rest.by = Top.by /\ Rest.node = Top.node /\ Rest.obs = Top.obs
        /\ Rest.marks = Top.marks
    BY <2>1 DEF Rest, Frames
  <2>3. FrameOK(Rest)
    BY <1>4, <2>1, <2>2 DEF FrameOK
  <2> DEFINE rest == Append(Pop, Rest)
             tick == TickFrame(rest, Head(Top.cbs))
  <2>4. rest \in Seq(Frame) /\ CallsIn(rest) /\ Rest \in Frame
    BY <1>5, <1>12, <2>1, <2>2, <2>3, FlushCallbackIs
  <2>5. tick \in Frame /\ stack' = Append(rest, tick)
    BY <1>12, FlushCallbackIs
  <2>6. /\ tick.op = "tick" /\ tick.by = Tick /\ tick.obs = ObserverIn(rest) /\ tick.marks = {}
    BY TickFields
  <2>7. OutsideIn(rest) /\ CodeIn(rest) = Top.by
    <3>1. OutsideIn(Pop)
      BY <1>4, <2>1 DEF On, Above, OutsideIn, Inside
    <3>2. Rest.op \notin Inside /\ Rest.op # "with"
      BY <2>1, <2>2 DEF Inside
    <3>3. OutsideIn(rest)
      BY <1>4, <2>1, <2>4, <3>1, <3>2 DEF OutsideIn
    <3>4. rest # <<>> /\ rest[Len(rest)] = Rest
      BY <1>4, <2>1, <2>4, PushIndex
    <3> QED
      BY <2>2, <3>3, <3>4 DEF CodeIn
  <2> HIDE DEF tick, rest
  <2>8. FrameOK(tick)
    <3>1. Top.by \in UserCode
      BY <1>4, <2>1 DEF FrameOK
    <3> QED
      BY <2>4, <2>6, <2>7, <3>1, Inherits DEF FrameOK, UserCode
  <2> QED
    BY <2>4, <2>5, <2>6, <2>7, <2>8, OutsideOn, CallsPush DEF Step, ByUser
<1>13. CASE FlushDone
  BY <1>4, <1>13 DEF FlushDone, Step
<1>14. CASE FlushJobs
  <2> DEFINE f == Call(stack, "flush", None)
  <2>1. stack = <<>> /\ stack' = Append(stack, f)
    BY <1>14 DEF FlushJobs, Push
  <2>2. f \in Frame /\ f.op = "flush" /\ f.by = Main /\ f.obs = None /\ f.marks = {} /\ f.cbs = <<>>
    <3>1. "flush" \in Ops
      BY DEF Ops
    <3>2. f \in Frame
      BY <1>1, <3>1, PlainCallType
    <3> QED
      BY <2>1, <3>2 DEF Call, CodeIn, ObserverIn
  <2> HIDE DEF f
  <2>3. FrameOK(f)
    BY <2>2 DEF FrameOK, UserCode
  <2>4. OutsideIn(stack)
    <3>1. DOMAIN stack = {}
      BY <2>1
    <3> QED
      BY <3>1 DEF OutsideIn
  <2> QED
    BY <1>1, <2>1, <2>2, <2>3, <2>4, OutsideOn, CallsPush DEF Step, ByUser
<1>15. CASE MarkStale
  <2>1. stack # <<>> /\ Top.op = "notify" /\ Top \in Frames
    BY <1>15, TopFrame DEF MarkStale
  <2>2. PICK marks : [Top EXCEPT !.marks = marks] \in Frame
                     /\ stack' = Append(Pop, [Top EXCEPT !.marks = marks])
    BY <1>15, MarkStaleIs
  <2> DEFINE f == [Top EXCEPT !.marks = marks]
  <2>3. /\ f.op = Top.op /\ f.by = Top.by /\ f.node = Top.node /\ f.obs = Top.obs /\ f.cbs = Top.cbs
    BY <2>1 DEF Frames
  <2>4. f \in Frame /\ stack' = Append(Pop, f)
    BY <2>2
  <2> HIDE DEF f
  <2>5. FrameOK(f)
    BY <1>4, <2>1, <2>3 DEF FrameOK
  <2> QED
    BY <1>5, <2>1, <2>3, <2>4, <2>5 DEF Step
<1>16. CASE RunSyncEffect
  BY <1>16 DEF RunSyncEffect, Deferred
<1>17. CASE NotifyDone
  <2>1. stack # <<>> /\ Top.op = "notify" /\ MaybeFlush(Pop, readingDepth)
    BY <1>17 DEF NotifyDone
  <2>2. Top.by \in UserCode /\ Top.op \in ByUser
    BY <1>4, <2>1 DEF FrameOK, ByUser
  <2> QED
    BY <1>4, <2>1, <2>2, FlushCalls DEF Step
<1>18. CASE PullSource
  <2>1. stack # <<>> /\ Top.op = "pull" /\ Top \in Frames
    BY <1>18, TopFrame DEF PullSource
  <2>2. PICK d \in Top.todo :
           LET f == [Top EXCEPT !.todo = Top.todo \ {d}]
           IN /\ f \in Frame /\ Append(Pop, f) \in Seq(Frame)
              /\ Pull(Append(Pop, f), d) \in Frame
              /\ stack' = Append(Append(Pop, f), Pull(Append(Pop, f), d))
    BY <1>18, PullSourceIs
  <2> DEFINE f == [Top EXCEPT !.todo = Top.todo \ {d}]
             rest == Append(Pop, f)
  <2>3. /\ f.op = "pull" /\ f.by = Top.by /\ f.node = Top.node /\ f.obs = Top.obs
        /\ f.marks = Top.marks /\ f.cbs = Top.cbs /\ f \in Frame
    BY <2>1, <2>2 DEF Frames
  <2>4. rest \in Seq(Frame) /\ Pull(rest, d) \in Frame /\ stack' = Append(rest, Pull(rest, d))
    BY <2>2
  <2> HIDE DEF f
  <2>5. FrameOK(f)
    BY <1>4, <2>1, <2>3 DEF FrameOK
  <2>6. CallsIn(rest)
    BY <1>5, <2>1, <2>3, <2>5
  <2>7. rest # <<>> /\ rest[Len(rest)] = f
    BY <1>4, <2>1, <2>3, PushIndex
  <2> HIDE DEF rest
  <2>8. On(rest, Pull(rest, d))
    BY <2>3, <2>4, <2>6, <2>7, PullFields, PullOn
  <2> QED
    BY <2>4, <2>6, <2>8, CallsPush DEF Step
<1>19. CASE PullRun
  <2> DEFINE n == Top.node
             f == [Call(stack, "body", n) EXCEPT !.by = n, !.obs = n]
  <2>1. /\ n \in Observers /\ f \in Frame /\ stack' = Append(Pop, f)
        /\ f.op = "body" /\ f.node = n /\ f.by = n /\ f.obs = n /\ f.marks = {} /\ f.cbs = <<>>
    BY <1>19, PullRunIs
  <2> HIDE DEF f
  <2>2. stack # <<>> /\ Top.op = "pull"
    BY <1>19 DEF PullRun
  <2>3. FrameOK(f)
    BY <1>3, <2>1 DEF FrameOK
  <2>4. On(Pop, f)
    BY <1>4, <2>1, <2>2, <2>3 DEF On, Above, Adjacent, ByUser, Inside
  <2> QED
    BY <1>4, <2>1, <2>2, <2>4, CallsPush DEF Step
<1>20. CASE PullDone
  BY <1>4, <1>20 DEF PullDone, Step
<1>22. CASE FinishEffect
  BY <1>4, <1>22 DEF FinishEffect, Step
<1>23. CASE FinishComputed
  <2>1. stack # <<>> /\ stack' = Pop
    BY <1>23 DEF FinishComputed
  <2> QED
    BY <1>4, <2>1 DEF Step
<1>24. ASSUME NEW reading, stack # <<>>, MaybeFlush(Pop, reading),
              \/ Top.op = "get" /\ reading = readingDepth
              \/ Top.op = "with" /\ reading = readingDepth - 1
       PROVE  Step
  <2>1. Top.op \in ByUser
    BY <1>24 DEF ByUser
  <2>2. CASE Top.by \in UserCode
    BY <1>4, <1>24, <2>1, <2>2, FlushCalls DEF Step
  <2>3. CASE Top.by \notin UserCode
    BY <1>4, <1>24, <2>3, ClosureReturns DEF Step
  <2> QED
    BY <2>2, <2>3
<1>25. CASE EndGet
  BY <1>24, <1>25 DEF EndGet
<1>26. CASE With
  <2> DEFINE f == [Top EXCEPT !.op = "with", !.val = value[Top.node]]
  <2>1. /\ f \in Frame /\ stack' = Append(Pop, f)
        /\ f.op = "with" /\ f.node = Top.node /\ f.by = Top.by /\ f.obs = Top.obs
        /\ f.marks = Top.marks /\ f.cbs = Top.cbs
    BY <1>26, WithIs
  <2> HIDE DEF f
  <2>2. stack # <<>> /\ Top.op = "open"
    BY <1>26 DEF With
  <2>3. FrameOK(f)
    BY <1>4, <2>1, <2>2 DEF FrameOK
  <2>4. On(Pop, f)
    BY <1>4, <2>1, <2>2, <2>3 DEF On, Above, Adjacent, ByUser, Inside
  <2> QED
    BY <1>4, <2>1, <2>2, <2>4, CallsPush DEF Step
<1>27. CASE EndWith
  BY <1>24, <1>27 DEF EndWith
<1>28. CASE ReadPanics
  BY <1>1, <1>28 DEF ReadPanics, Panic, Step
<1>29. CASE EndBatch
  <2>1. stack # <<>> /\ Top.op = "batch" /\ (ScheduleOrFlush(Pop) \/ stack' = Pop)
    BY <1>29 DEF EndBatch
  <2>2. Top.by \in UserCode /\ Top.op \in ByUser
    BY <1>4, <2>1 DEF FrameOK, ByUser
  <2> QED
    BY <1>4, <2>1, <2>2, FlushCalls DEF Step
<1>30. CASE EndTick
  BY <1>4, <1>30 DEF EndTick, Step
<1>32. ASSUME NEW c \in Code, NEW d \in Sources, NEW op \in {"get", "open"}, Read(c, d, op)
       PROVE  Step
  <2> DEFINE read == Call(stack, op, d)
             reading == Append(stack, read)
  <2>1. /\ read \in Frame /\ read.op = op /\ read.node = d /\ read.by = CodeIn(stack)
        /\ read.obs = ObserverIn(stack) /\ read.marks = {} /\ read.cbs = <<>>
    BY <1>1, CallType, PlainCallType DEF Ops, Nodes, Call
  <2>2. stack' = Append(reading, Pull(reading, d)) /\ Runs(c)
    BY <1>32 DEF Read, Push
  <2>3. ~InRead
    BY <1>32 DEF Read, ClosuresOnlyRead
  <2> HIDE DEF read
  <2>4. CallsIn(reading)
    <3>1. CASE c \in UserCode
      BY <1>6, <2>1, <2>2, <3>1 DEF ByUser
    <3>2. CASE c \in Observers
      <4>1. /\ stack # <<>> /\ Top.op = "body" /\ Top.by = c /\ CodeIn(stack) = c
        BY <1>32, <2>2, <2>3, <3>2, Runners DEF InRead
      <4>2. On(Pop, Top) /\ \A i \in DOMAIN stack : (i \in DOMAIN Pop /\ Pop[i] = stack[i]) \/ stack[i] = Top
        BY <1>1, <1>4, <4>1, PopIndex DEF Pop, Top
      <4>3. \A i \in DOMAIN stack : Above(stack[i], read)
        BY <2>1, <3>2, <4>1, <4>2 DEF On, Above, Inside
      <4>4. FrameOK(read)
        BY <1>1, <2>1, Inherits DEF FrameOK
      <4>5. Adjacent(Top, read)
        BY <2>1, <4>1 DEF Adjacent, UserOps
      <4>6. On(stack, read)
        BY <4>1, <4>3, <4>4, <4>5 DEF On, Top
      <4> QED
        BY <1>1, <2>1, <4>6, CallsPush
    <3> QED
      BY <3>1, <3>2 DEF Code, UserCode
  <2>5. reading \in Seq(Frame) /\ reading # <<>> /\ reading[Len(reading)] = read
    BY <1>1, <2>1, PushIndex
  <2> HIDE DEF reading
  <2>6. Pull(reading, d) \in Frame
    BY <2>5, PullType DEF Nodes
  <2>7. On(reading, Pull(reading, d))
    BY <2>1, <2>4, <2>5, <2>6, PullFields, PullOn
  <2> QED
    BY <2>2, <2>4, <2>5, <2>6, <2>7, CallsPush DEF Step
<1>33. ASSUME NEW c \in Code, Get(c) \/ Open(c)
       PROVE  Step
  BY <1>32, <1>33, ProgramAssumption DEF Get, Open
<1>34. ASSUME NEW c \in Code, Set(c) \/ Update(c)
       PROVE  Step
  <2>1. PICK s \in CanWrite[c] : stack' = Notify(stack, s) \/ stack' = stack
    BY <1>34 DEF Set, Update
  <2>2. c \in UserCode /\ Runs(c) /\ s \in Signals
    BY <1>34, <2>1, ProgramAssumption DEF Set, Update, ClosuresOnlyRead, Code, UserCode
  <2> DEFINE f == [Call(stack, "notify", s) EXCEPT !.marks = Subs(s) \X {Dirty}]
  <2>3. /\ f \in Frame /\ Notify(stack, s) = Append(stack, f)
        /\ f.op = "notify" /\ f.node = s /\ f.by = CodeIn(stack) /\ f.obs = ObserverIn(stack)
        /\ f.marks = Subs(s) \X {Dirty} /\ f.cbs = <<>>
    <3>1. s \in Signals /\ stack \in Seq(Frame)
      BY <1>1, <2>2
    <3> QED
      BY ONLY <3>1, NotifyIs DEF f
  <2> HIDE DEF f
  <2> QED
    BY <1>1, <1>6, <2>1, <2>2, <2>3 DEF Step, ByUser
<1>35. ASSUME NEW c \in Code, UpdatePanics(c)
       PROVE  Step
  BY <1>1, <1>35 DEF UpdatePanics, Panic, Step
<1>36. ASSUME NEW c \in Code, Batch(c)
       PROVE  Step
  <2> DEFINE f == Call(stack, "batch", None)
  <2>1. /\ f \in Frame /\ f.op = "batch" /\ f.by = CodeIn(stack) /\ f.obs = ObserverIn(stack)
        /\ f.cbs = <<>> /\ f.marks = {}
    BY <1>1, CallType, PlainCallType DEF Ops, Call
  <2>2. c \in UserCode /\ Runs(c) /\ stack' = Append(stack, f)
    BY <1>36 DEF Batch, ClosuresOnlyRead, Code, UserCode, Push
  <2> HIDE DEF f
  <2> QED
    BY <1>6, <2>1, <2>2 DEF Step, ByUser
<1>37. ASSUME NEW c \in Code, NextTick(c)
       PROVE  Step
  <2>1. c \in UserCode /\ Runs(c)
    BY <1>37 DEF NextTick, ClosuresOnlyRead, Code, UserCode
  <2>2. stack' = stack \/ \E t \in Ticks : stack' = Append(stack, TickFrame(stack, t))
    BY <1>37 DEF NextTick, ScheduleOrFlush, Push
  <2>3. ASSUME NEW t \in Ticks
        PROVE  CallsIn(Append(stack, TickFrame(stack, t)))
    <3>1. TickFrame(stack, t) \in Frame
      BY <1>1, TickFrameType
    <3> QED
      BY <1>6, <2>1, <3>1, TickFields DEF ByUser
  <2> QED
    BY <1>1, <2>2, <2>3 DEF Step
<1>38. ASSUME NEW c \in Code, CreateEffect(c)
       PROVE  Step
  <2>1. PICK e \in Effects : stack' = Append(stack, Call(stack, "pull", e))
    BY <1>38 DEF CreateEffect, Push
  <2> DEFINE f == Call(stack, "pull", e)
  <2>2. /\ f \in Frame /\ f.op = "pull" /\ f.by = CodeIn(stack) /\ f.obs = ObserverIn(stack)
        /\ f.cbs = <<>> /\ f.marks = {}
    BY <1>1, CallType, PlainCallType DEF Ops, Nodes, Call
  <2>3. c \in UserCode /\ Runs(c) /\ stack' = Append(stack, f)
    BY <1>38, <2>1 DEF CreateEffect, UserCode
  <2> HIDE DEF f
  <2> QED
    BY <1>6, <2>2, <2>3 DEF Step, ByUser
<1>39. CASE SetScheduler \/ ClearScheduler
  BY <1>1, <1>39 DEF SetScheduler, ClearScheduler, Step
<1>40. CASE UNCHANGED vars
  BY <1>1, <1>40 DEF vars, Step
<1> QED
  BY <1>10, <1>11, <1>12, <1>13, <1>14, <1>15, <1>16, <1>17, <1>18, <1>19, <1>20, <1>22,
     <1>23, <1>25, <1>26, <1>27, <1>28, <1>29, <1>30, <1>33, <1>34, <1>35, <1>36, <1>37,
     <1>38, <1>39, <1>40
  DEF Next, System, User

-----------------------------------------------------------------------------
(* Work waits only for what is under way, or for the host *)

(* The read closures of the code outside the closures. *)
ReadsIn(s) == \E i \in DOMAIN s : s[i].op = "with" /\ s[i].by \in UserCode

LEMMA CountPositive ==
  ASSUME NEW s \in Seq(Frame), NEW op, CountIn(s, op) # 0
  PROVE  \E i \in DOMAIN s : s[i].op = op
<1>1. SUFFICES ASSUME \A i \in DOMAIN s : s[i].op # op
               PROVE  CountIn(s, op) = 0
  OBVIOUS
<1>2. {i \in DOMAIN s : s[i].op = op} = {}
  BY <1>1
<1> QED
  BY <1>2, FS_EmptySet DEF CountIn

LEMMA ReadsPush ==
  ASSUME NEW s \in Seq(Frame), NEW f \in Frame
  PROVE  ReadsIn(s) => ReadsIn(Append(s, f))
<1> DEFINE t == Append(s, f)
<1>1. \A i \in DOMAIN s : i \in DOMAIN t /\ t[i] = s[i]
  BY PushIndex
<1> HIDE DEF t
<1>2. ReadsIn(s) => ReadsIn(t)
  BY <1>1 DEF ReadsIn
<1> QED
  BY <1>2 DEF t

LEMMA ReadsPop ==
  ASSUME NEW s \in Seq(Frame), s # <<>>, s[Len(s)].op # "with"
  PROVE  ReadsIn(s) => ReadsIn(SubSeq(s, 1, Len(s) - 1))
<1> DEFINE t == SubSeq(s, 1, Len(s) - 1)
<1>1. /\ \A i \in DOMAIN t : t[i] = s[i]
      /\ \A i \in DOMAIN s : i \in DOMAIN t \/ i = Len(s)
  BY PopIndex
<1> HIDE DEF t
<1>2. ReadsIn(s) => ReadsIn(t)
  BY <1>1 DEF ReadsIn
<1> QED
  BY <1>2 DEF t

LEMMA ScheduledOrFlushing ==
  ASSUME TypeOK, Idle, NEW s, ScheduleOrFlush(s)
  PROVE  /\ flushing' \/ (scheduler' /\ microtasks' > 0)
         /\ flushScheduled' => microtasks' > 0
  BY DEF TypeOK, Idle, ScheduleOrFlush, CallHook, host

LEMMA IdleNext ==
  ASSUME ClosuresOnlyRead, TypeOK, TypeOK', WellNested, Deferred, Calls, Idle, [Next]_vars
  PROVE  Idle'
<1> DEFINE HeldNext == \/ batchDepth' > 0 \/ flushing'
                       \/ stack' # <<>> /\ stack'[Len(stack')].op = "notify"
                       \/ ReadsIn(stack')
           WorkNext == pending' # <<>> \/ postFlush' # <<>>
           Step == /\ ~HeldNext /\ WorkNext => scheduler' /\ microtasks' > 0
                   /\ flushScheduled' => microtasks' > 0
           (* Nothing is added, and nothing that held the work ends. *)
           Keeps == /\ WorkNext => Work
                    /\ Held => HeldNext
                    /\ UNCHANGED host
           Depths == UNCHANGED <<batchDepth, flushing>>
           Queues == UNCHANGED <<pending, postFlush>>
<1>1. /\ stack \in Seq(Frame) /\ batchDepth = CountIn(stack, "batch")
      /\ readingDepth = CountIn(stack, "with") /\ readingDepth \in Int /\ batchDepth \in Int
      /\ microtasks \in Nat /\ stack' \in Seq(Frame)
      /\ readingDepth \in Nat /\ batchDepth \in Nat
  BY CountType DEF TypeOK, WellNested, Count
<1>2. Held <=> \/ batchDepth > 0 \/ flushing
               \/ stack # <<>> /\ Top.op = "notify"
               \/ ReadsIn(stack)
  BY DEF Held, ReadsIn
<1>3. SUFFICES Step
  BY DEF Idle, Held, Work, Top, ReadsIn
<1>4. ASSUME Keeps
      PROVE  Step
  BY <1>4 DEF Idle, host
<1>5. ASSUME stack # <<>>
      PROVE  /\ Pop \in Seq(Frame)
             /\ Top.op # "with" /\ ReadsIn(stack) => ReadsIn(Pop)
  BY <1>1, <1>5, PopType, ReadsPop DEF Pop, Top
<1>6. \A s \in Seq(Frame) : \A f \in Frame : ReadsIn(s) => ReadsIn(Append(s, f))
  BY ReadsPush
(* A read closure is known to the counter. *)
<1>7. ASSUME NEW s \in Seq(Frame), ReadsIn(s)
      PROVE  CountIn(s, "with") # 0
  BY <1>7, CountZero DEF ReadsIn
<1> HIDE DEF HeldNext, Step
<1> USE DEF In
<1>10. CASE FlushEffect
  <2>1. Head(pending) \in Effects
    BY <1>10 DEF FlushEffect, TypeOK
  <2>2. Pull(stack, Head(pending)) \in Frame
    BY <1>1, <2>1, PullType DEF Nodes
  <2>3. Held => HeldNext
    BY <1>1, <1>2, <1>6, <1>10, <2>2 DEF FlushEffect, Push, HeldNext
  <2> QED
    BY <1>4, <1>10, <2>3 DEF FlushEffect, Work
<1>11. CASE FlushTake
  BY <1>11 DEF FlushTake, Step, Idle, host
<1>12. CASE FlushCallback
  <2>1. stack # <<>> /\ Top.op = "flush" /\ Depths /\ Queues /\ UNCHANGED host
    BY <1>12 DEF FlushCallback
  <2>2. ReadsIn(stack) => ReadsIn(stack')
    <3>1. Append(Pop, Rest) \in Seq(Frame) /\ Rest \in Frame
      BY <1>12, FlushCallbackIs
    <3>2. ReadsIn(stack) => ReadsIn(Append(Pop, Rest))
      BY <1>5, <1>6, <2>1, <3>1
    <3> QED
      BY <1>6, <1>12, <3>1, <3>2, FlushCallbackIs
  <2> QED
    BY <1>2, <1>4, <2>1, <2>2 DEF HeldNext, Work
<1>13. CASE FlushDone
  BY <1>13 DEF FlushDone, Step, Idle, host
<1>14. CASE FlushJobs
  <2>1. flushing' /\ ~flushScheduled'
    BY <1>14 DEF FlushJobs
  <2> QED
    BY <2>1 DEF Step, HeldNext
<1>15. CASE MarkStale
  <2>1. PICK f \in Frame : stack' = Append(Pop, f) /\ f.op = "notify"
    <3>1. stack # <<>> /\ Top.op = "notify" /\ Top \in Frames
      BY <1>15, TopFrame DEF MarkStale
    <3>2. PICK marks : [Top EXCEPT !.marks = marks] \in Frame
                       /\ stack' = Append(Pop, [Top EXCEPT !.marks = marks])
      BY <1>15, MarkStaleIs
    <3>3. [Top EXCEPT !.marks = marks].op = Top.op
      BY <3>1 DEF Frames
    <3> QED
      BY <3>1, <3>2, <3>3
  <2>2. stack' # <<>> /\ stack'[Len(stack')] = f
    BY <1>5, <1>15, <2>1, PushIndex DEF MarkStale
  <2> QED
    BY <1>15, <2>1, <2>2 DEF MarkStale, Step, HeldNext, Idle, host
<1>16. CASE RunSyncEffect
  BY <1>16 DEF RunSyncEffect, Deferred
(* The end of a call that may flush. *)
<1>8. ASSUME NEW reading \in Nat, MaybeFlush(Pop, reading),
             UNCHANGED <<batchDepth, pending, postFlush>>, reading > 0 => ReadsIn(Pop)
      PROVE  Step
  <2>1. CASE Ready(reading)
    BY <1>8, <2>1, ScheduledOrFlushing DEF MaybeFlush, Step, HeldNext
  <2>2. CASE ~Ready(reading)
    <3>1. stack' = Pop /\ UNCHANGED <<host, flushing>>
      BY <1>8, <2>2 DEF MaybeFlush
    <3>2. reading > 0 \/ batchDepth > 0 \/ flushing \/ ~Work
      BY <1>1, <1>8, <2>2 DEF Ready, Work
    <3>3. HeldNext \/ ~WorkNext
      BY <1>8, <3>1, <3>2 DEF HeldNext, Work
    <3> QED
      BY <3>1, <3>3 DEF Step, Idle, host
  <2> QED
    BY <2>1, <2>2
<1>17. CASE NotifyDone
  <2>1. /\ stack # <<>> /\ Top.op = "notify" /\ MaybeFlush(Pop, readingDepth)
        /\ UNCHANGED <<batchDepth, pending, postFlush>>
    BY <1>17 DEF NotifyDone
  <2>2. ASSUME readingDepth > 0
        PROVE  ReadsIn(Pop)
    <3>1. PICK i \in DOMAIN stack : stack[i].op = "with"
      BY <1>1, <2>2, CountPositive
    <3>2. /\ DOMAIN stack = 1 .. Len(stack)
          /\ \A k \in DOMAIN stack : k \in DOMAIN Pop \/ k = Len(stack)
          /\ \A k \in DOMAIN Pop : Pop[k] = stack[k]
      BY <1>1, <2>1, PopIndex DEF Pop
    <3>3. i \in DOMAIN Pop
      BY <2>1, <3>1, <3>2 DEF Top
    <3>4. Above(Pop[i], Top)
      BY <2>1, <3>3, ReturnsTo DEF On
    <3> QED
      BY <3>1, <3>2, <3>3, <3>4 DEF Above, ReadsIn
  <2> QED
    BY <1>1, <1>8, <2>1, <2>2
<1>18. CASE PullSource
  <2>1. stack # <<>> /\ Top.op = "pull" /\ Top \in Frames /\ Depths /\ Queues /\ UNCHANGED host
    BY <1>18, TopFrame DEF PullSource
  <2>2. PICK d \in Top.todo :
           LET f == [Top EXCEPT !.todo = Top.todo \ {d}]
           IN /\ f \in Frame /\ Append(Pop, f) \in Seq(Frame)
              /\ Pull(Append(Pop, f), d) \in Frame
              /\ stack' = Append(Append(Pop, f), Pull(Append(Pop, f), d))
    BY <1>18, PullSourceIs
  <2> DEFINE f == [Top EXCEPT !.todo = Top.todo \ {d}]
             rest == Append(Pop, f)
  <2>3. rest \in Seq(Frame) /\ Pull(rest, d) \in Frame /\ stack' = Append(rest, Pull(rest, d))
        /\ f \in Frame
    BY <2>2
  <2> HIDE DEF f
  <2>4. ReadsIn(stack) => ReadsIn(rest)
    BY <1>5, <1>6, <2>1, <2>3
  <2> HIDE DEF rest
  <2>5. ReadsIn(stack) => ReadsIn(stack')
    BY <1>6, <2>3, <2>4
  <2> QED
    BY <1>2, <1>4, <2>1, <2>5 DEF HeldNext, Work
(* A call that holds no work returns, or gives way to another. *)
<1>9. ASSUME stack # <<>>, Top.op \notin {"with", "notify"}, Depths, Queues, UNCHANGED host,
             stack' = Pop \/ \E f \in Frame : stack' = Append(Pop, f)
      PROVE  Step
  <2>1. ReadsIn(stack) => ReadsIn(Pop)
    BY <1>5, <1>9
  <2>2. ReadsIn(Pop) => ReadsIn(stack')
    <3>1. CASE stack' = Pop
      BY <3>1
    <3>2. CASE \E f \in Frame : stack' = Append(Pop, f)
      BY <1>5, <1>6, <1>9, <3>2
    <3> QED
      BY <1>9, <3>1, <3>2
  <2> QED
    BY <1>2, <1>4, <1>9, <2>1, <2>2 DEF HeldNext, Work
<1>19. CASE PullRun
  <2> DEFINE f == [Call(stack, "body", Top.node) EXCEPT !.by = Top.node, !.obs = Top.node]
  <2>1. f \in Frame /\ stack' = Append(Pop, f)
    BY <1>19, PullRunIs
  <2> HIDE DEF f
  <2>2. stack # <<>> /\ Top.op = "pull" /\ Depths /\ Queues /\ UNCHANGED host
    BY <1>19 DEF PullRun
  <2> QED
    BY <1>9, <2>1, <2>2
<1>20. CASE PullDone
  BY <1>9, <1>20 DEF PullDone
<1>22. CASE FinishEffect
  BY <1>9, <1>22 DEF FinishEffect
<1>23. CASE FinishComputed
  <2>1. stack # <<>> /\ Top.op = "body" /\ stack' = Pop /\ Depths /\ Queues /\ UNCHANGED host
    BY <1>23 DEF FinishComputed
  <2> QED
    BY <1>9, <2>1
<1>24. ASSUME stack # <<>>, Top.op \in {"get", "with"}
       PROVE  CountIn(Pop, "with") = 0
  <2>1. \A i \in DOMAIN Pop : Under(Pop[i], Top)
    BY <1>1, <1>24, DeferPop DEF Deferred, Pop, Top
  <2>2. \A i \in DOMAIN Pop : Pop[i].op # "with"
    BY <1>24, <2>1 DEF Under
  <2>3. Pop \in Seq(Frame)
    BY <1>5, <1>24
  <2> QED
    BY <2>2, <2>3, CountPositive
<1>25. CASE EndGet
  <2>1. stack # <<>> /\ Top.op = "get" /\ MaybeFlush(Pop, readingDepth)
        /\ UNCHANGED <<batchDepth, pending, postFlush>>
    BY <1>25 DEF EndGet
  <2>2. readingDepth = 0
    BY <1>1, <1>24, <2>1, CountPop DEF Pop, Top
  <2> QED
    BY <1>8, <2>1, <2>2
<1>26. CASE With
  <2> DEFINE f == [Top EXCEPT !.op = "with", !.val = value[Top.node]]
  <2>1. f \in Frame /\ stack' = Append(Pop, f)
    BY <1>26, WithIs
  <2> HIDE DEF f
  <2>2. stack # <<>> /\ Top.op = "open" /\ Depths /\ Queues /\ UNCHANGED host
    BY <1>26 DEF With
  <2> QED
    BY <1>9, <2>1, <2>2
<1>27. CASE EndWith
  <2>1. stack # <<>> /\ Top.op = "with" /\ MaybeFlush(Pop, readingDepth - 1)
        /\ UNCHANGED <<batchDepth, pending, postFlush>>
    BY <1>27 DEF EndWith
  <2>2. readingDepth - 1 = 0
    BY <1>1, <1>24, <2>1, CountPop DEF Pop, Top
  <2> QED
    BY <1>8, <2>1, <2>2
<1>28. ASSUME UNCHANGED stack, Depths, Queues, UNCHANGED host
       PROVE  Step
  BY <1>2, <1>4, <1>28 DEF HeldNext, Work, Top
<1>29. CASE EndBatch
  <2>1. stack # <<>> /\ Top.op = "batch" /\ batchDepth' = batchDepth - 1 /\ Queues
    BY <1>29 DEF EndBatch
  <2>2. CASE batchDepth = 1
    <3>1. ScheduleOrFlush(Pop)
      BY <1>29, <2>2 DEF EndBatch
    <3> QED
      BY <3>1, ScheduledOrFlushing DEF Step, HeldNext
  <2>3. CASE batchDepth # 1
    <3>1. CountIn(Pop, "batch") \in Nat
      BY <1>5, <2>1, CountType
    <3>2. CountIn(Pop, "batch") = batchDepth - 1
      BY <1>1, <2>1, CountPop DEF Pop, Top
    <3>3. batchDepth' > 0
      BY <1>1, <2>1, <2>3, <3>1, <3>2
    <3>4. UNCHANGED host
      BY <1>29, <2>3 DEF EndBatch
    <3> QED
      BY <3>3, <3>4 DEF Step, HeldNext, Idle, host
  <2> QED
    BY <2>2, <2>3
<1>30. CASE EndTick
  BY <1>9, <1>30 DEF EndTick
(* User code calls. *)
<1>31. ASSUME Depths, Queues, UNCHANGED host, NEW c, Runs(c), NEW f \in Frame,
              stack' = Append(stack, f)
       PROVE  Step
  <2>1. ReadsIn(stack) => ReadsIn(stack')
    BY <1>1, <1>6, <1>31
  <2>2. ~(stack # <<>> /\ Top.op = "notify")
    BY <1>31 DEF Runs, UserOps
  <2> QED
    BY <1>2, <1>4, <1>31, <2>1, <2>2 DEF HeldNext, Work
<1>32. ASSUME NEW c \in Code, NEW d \in Sources, NEW op \in {"get", "open"}, Read(c, d, op)
       PROVE  Step
  <2> DEFINE read == Call(stack, op, d)
             reading == Append(stack, read)
  <2>1. read \in Frame
    BY <1>1, CallType, PlainCallType DEF Ops, Nodes
  <2>2. /\ stack' = Append(reading, Pull(reading, d)) /\ Runs(c)
        /\ Depths /\ Queues /\ UNCHANGED host
    BY <1>32 DEF Read, Push
  <2> HIDE DEF read
  <2>3. reading \in Seq(Frame) /\ (ReadsIn(stack) => ReadsIn(reading))
    BY <1>1, <1>6, <2>1
  <2> HIDE DEF reading
  <2>4. Pull(reading, d) \in Frame
    BY <2>3, PullType DEF Nodes
  <2>5. ReadsIn(stack) => ReadsIn(stack')
    BY <1>6, <2>2, <2>3, <2>4
  <2>6. ~(stack # <<>> /\ Top.op = "notify")
    BY <2>2 DEF Runs, UserOps
  <2> QED
    BY <1>2, <1>4, <2>2, <2>5, <2>6 DEF HeldNext, Work
<1>33. ASSUME NEW c \in Code, Get(c) \/ Open(c)
       PROVE  Step
  BY <1>32, <1>33, ProgramAssumption DEF Get, Open
<1>34. ASSUME NEW c \in Code, Set(c) \/ Update(c)
       PROVE  Step
  <2>1. PICK s \in Signals : stack' = Notify(stack, s) \/ stack' = stack
    BY <1>34, ProgramAssumption DEF Set, Update
  <2>2. Depths /\ Queues /\ UNCHANGED host /\ Runs(c)
    BY <1>34 DEF Set, Update
  <2> DEFINE f == [Call(stack, "notify", s) EXCEPT !.marks = Subs(s) \X {Dirty}]
  <2>3. f \in Frame /\ Notify(stack, s) = Append(stack, f)
    BY <1>1, NotifyIs
  <2> HIDE DEF f
  <2> QED
    BY <1>28, <1>31, <2>1, <2>2, <2>3
<1>35. ASSUME NEW c \in Code, UpdatePanics(c)
       PROVE  Step
  BY <1>28, <1>35 DEF UpdatePanics, Panic
<1>36. ASSUME NEW c \in Code, Batch(c)
       PROVE  Step
  <2>1. batchDepth' > 0 /\ UNCHANGED host
    BY <1>1, <1>36 DEF Batch
  <2> QED
    BY <2>1 DEF Step, HeldNext, Idle, host
<1>37. ASSUME NEW c \in Code, NextTick(c)
       PROVE  Step
  <2>1. c \in UserCode /\ Runs(c) /\ UNCHANGED <<batchDepth, pending>>
    BY <1>37 DEF NextTick, ClosuresOnlyRead, Code, UserCode
  <2>2. CASE scheduler
    <3>1. ScheduleOrFlush(stack) /\ scheduler'
      BY <1>37, <2>2 DEF NextTick, ScheduleOrFlush
    <3> QED
      BY <3>1, ScheduledOrFlushing, <2>2 DEF Step, ScheduleOrFlush, CallHook, HeldNext, Idle, TypeOK
  <2>3. CASE ~scheduler /\ Defers
    <3>1. UNCHANGED <<host, flushing, stack>>
      BY <1>37, <2>3 DEF NextTick
    <3>2. ReadsIn(stack) \/ batchDepth > 0 \/ flushing \/ pending # <<>>
      <4>1. CASE readingDepth > 0
        <5>1. PICK i \in DOMAIN stack : stack[i].op = "with"
          BY <1>1, <4>1, CountPositive
        <5> QED
          BY <2>1, <5>1, Runners DEF ReadsIn, UserCode, Code
      <4> QED
        BY <2>3, <4>1 DEF Defers
    <3>3. Held
      BY <1>2, <2>3, <3>2 DEF Idle, Work
    <3>4. HeldNext
      BY <1>2, <2>1, <3>1, <3>3 DEF HeldNext, Top
    <3> QED
      BY <3>1, <3>4 DEF Step, Idle, host
  <2>4. CASE ~scheduler /\ ~Defers
    <3>1. PICK t \in Ticks : stack' = Append(stack, TickFrame(stack, t))
      BY <1>37, <2>4 DEF NextTick, Push
    <3>2. TickFrame(stack, t) \in Frame
      BY <1>1, TickFrameType
    <3>3. Depths /\ Queues /\ UNCHANGED host
      BY <1>37, <2>4 DEF NextTick
    <3> QED
      BY <1>31, <2>1, <3>1, <3>2, <3>3
  <2> QED
    BY <2>2, <2>3, <2>4
<1>38. ASSUME NEW c \in Code, CreateEffect(c)
       PROVE  Step
  <2>1. PICK e \in Effects : stack' = Append(stack, Call(stack, "pull", e))
    BY <1>38 DEF CreateEffect, Push
  <2>2. Call(stack, "pull", e) \in Frame
    BY <1>1, CallType, PlainCallType DEF Ops, Nodes
  <2>3. Depths /\ Queues /\ UNCHANGED host /\ Runs(c)
    BY <1>38 DEF CreateEffect
  <2> QED
    BY <1>31, <2>1, <2>2, <2>3
<1>39. CASE SetScheduler
  <2>1. Held => HeldNext
    BY <1>2, <1>39 DEF SetScheduler, HeldNext, Top
  <2> QED
    BY <1>39, <2>1 DEF SetScheduler, Step, Idle, Work
<1>40. CASE UNCHANGED vars \/ ReadPanics
  BY <1>28, <1>40 DEF vars, ReadPanics, Panic
<1>41. ~ClearScheduler
  BY DEF ClearScheduler, ClosuresOnlyRead
<1> QED
  BY <1>10, <1>11, <1>12, <1>13, <1>14, <1>15, <1>16, <1>17, <1>18, <1>19, <1>20, <1>22,
     <1>23, <1>25, <1>26, <1>27, <1>29, <1>30, <1>33, <1>34, <1>35, <1>36, <1>37,
     <1>38, <1>39, <1>40, <1>41
  DEF Next, System, User

LEMMA CallsAlways == ASSUME ClosuresOnlyRead PROVE Spec => [](Deferred /\ Calls /\ Idle)
<1>1. PlainReads
  BY DEF PlainReads, ClosuresOnlyRead
<1>2. Spec => []Deferred
  BY <1>1, DeferredAlways
<1>3. Init => Calls /\ Idle
  <2> SUFFICES ASSUME Init
               PROVE  Calls /\ Idle
    OBVIOUS
  <2>1. stack = <<>> /\ DOMAIN stack = {}
    BY DEF Init
  <2> QED
    BY <2>1 DEF Init, Calls, CallsIn, Idle, Work
<1>4. TypeOK /\ TypeOK' /\ WellNested /\ Deferred /\ Calls /\ Idle /\ [Next]_vars => Calls' /\ Idle'
  BY CallsNext, IdleNext
<1> QED
  BY <1>2, <1>3, <1>4, TypeCorrect, NestingCorrect, PTL DEF Spec

-----------------------------------------------------------------------------
(* What a next_tick callback waits for *)

ActiveIn(s) == {s[i].node : i \in {k \in DOMAIN s : s[k].op \in {"pull", "body"}}}

(* The callbacks that a flush has taken, or that run. *)
CallbacksIn(s) == {t \in Ticks : \E i \in DOMAIN s : t \in Elements(s[i].cbs)}

(* A callback waits for effects that are still queued or running, and once *)
(* it is taken out of the queue it waits for none.                         *)
Waits ==
  /\ \A t \in Ticks : awaits[t] \subseteq Elements(pending) \cup ActiveIn(stack)
  /\ \A t \in CallbacksIn(stack) : awaits[t] = {}

LEMMA WaitsPush ==
  ASSUME NEW s \in Seq(Frame), NEW f \in Frame
  PROVE  /\ ActiveIn(s) \subseteq ActiveIn(Append(s, f))
         /\ f.op \in {"pull", "body"} => f.node \in ActiveIn(Append(s, f))
         /\ CallbacksIn(Append(s, f)) \subseteq CallbacksIn(s) \cup Elements(f.cbs)
<1> DEFINE t == Append(s, f)
<1>1. /\ t[Len(t)] = f /\ Len(t) \in DOMAIN t
      /\ \A i \in DOMAIN s : i \in DOMAIN t /\ t[i] = s[i]
      /\ \A i \in DOMAIN t : i \in DOMAIN s \/ i = Len(t)
  <2>1. Len(t) = Len(s) + 1 /\ Len(s) \in Nat /\ DOMAIN t = 1 .. Len(s) + 1
    BY PushIndex
  <2>2. Len(t) \in DOMAIN t
    BY <2>1
  <2> QED
    BY <2>2, PushIndex
<1> HIDE DEF t
<1>2. ActiveIn(s) \subseteq ActiveIn(t)
  BY <1>1 DEF ActiveIn
<1>3. f.op \in {"pull", "body"} => f.node \in ActiveIn(t)
  BY <1>1 DEF ActiveIn
<1>4. CallbacksIn(t) \subseteq CallbacksIn(s) \cup Elements(f.cbs)
  BY <1>1 DEF CallbacksIn
<1> QED
  BY <1>2, <1>3, <1>4 DEF t

LEMMA WaitsPop ==
  ASSUME NEW s \in Seq(Frame), s # <<>>
  PROVE  LET t == SubSeq(s, 1, Len(s) - 1)
             f == s[Len(s)]
         IN /\ ActiveIn(s) \subseteq ActiveIn(t) \cup (IF f.op \in {"pull", "body"} THEN {f.node} ELSE {})
            /\ CallbacksIn(t) \subseteq CallbacksIn(s)
            /\ Elements(f.cbs) \cap Ticks \subseteq CallbacksIn(s)
<1> DEFINE t == SubSeq(s, 1, Len(s) - 1)
<1>1. /\ Len(s) \in DOMAIN s
      /\ \A i \in DOMAIN t : i \in DOMAIN s /\ t[i] = s[i]
      /\ \A i \in DOMAIN s : i \in DOMAIN t \/ i = Len(s)
  BY PopIndex
<1> HIDE DEF t
<1>2. ActiveIn(s) \subseteq ActiveIn(t)
        \cup (IF s[Len(s)].op \in {"pull", "body"} THEN {s[Len(s)].node} ELSE {})
  BY <1>1 DEF ActiveIn
<1>3. CallbacksIn(t) \subseteq CallbacksIn(s) /\ Elements(s[Len(s)].cbs) \cap Ticks \subseteq CallbacksIn(s)
  BY <1>1 DEF CallbacksIn
<1> QED
  BY <1>2, <1>3 DEF t

(* What a queue holds is its head and what remains. *)
LEMMA HeadTail ==
  ASSUME NEW S, NEW s \in Seq(S), s # <<>>
  PROVE  Head(s) \in S /\ Elements(s) \subseteq {Head(s)} \cup Elements(Tail(s))
<1>1. Head(s) = s[1] /\ Head(s) \in S /\ Tail(s) \in Seq(S) /\ Len(Tail(s)) = Len(s) - 1
  OBVIOUS
<1>2. ASSUME NEW i \in DOMAIN s, i # 1
      PROVE  i - 1 \in DOMAIN Tail(s) /\ Tail(s)[i - 1] = s[i]
  BY <1>1, <1>2
<1>3. ASSUME NEW i \in DOMAIN s
      PROVE  s[i] \in {Head(s)} \cup Elements(Tail(s))
  <2>1. CASE i = 1
    BY <1>1, <2>1
  <2>2. CASE i # 1
    BY <1>2, <2>2 DEF Elements
  <2> QED
    BY <2>1, <2>2
<1>4. Elements(s) \subseteq {Head(s)} \cup Elements(Tail(s))
  BY <1>3 DEF Elements
<1> QED
  BY <1>1, <1>4

LEMMA WaitsNext ==
  ASSUME ClosuresOnlyRead, TypeOK, TypeOK', WellNested, Deferred, Calls, Calls', Idle, Waits,
         [Next]_vars
  PROVE  Waits'
<1> DEFINE Step == /\ \A t \in Ticks : awaits'[t] \subseteq Elements(pending') \cup ActiveIn(stack')
                   /\ \A t \in CallbacksIn(stack') : awaits'[t] = {}
           Keeps(s) == ActiveIn(stack) \subseteq ActiveIn(s) /\ CallbacksIn(s) \subseteq CallbacksIn(stack)
           Queues == UNCHANGED <<pending, awaits>>
<1>1. /\ stack \in Seq(Frame) /\ pending \in Seq(Effects)
      /\ awaits \in [Ticks -> SUBSET Effects] /\ Elements(<<>>) = {}
  BY DEF TypeOK, Elements
<1>2. SUFFICES Step
  <2>1. ActiveIn(stack)' = ActiveIn(stack') /\ CallbacksIn(stack)' = CallbacksIn(stack')
    BY DEF ActiveIn, CallbacksIn, Elements
  <2>2. Elements(pending)' = Elements(pending')
    BY DEF Elements
  <2> QED
    BY <2>1, <2>2 DEF Waits
<1>3. ASSUME stack # <<>>
      PROVE  /\ Pop \in Seq(Frame)
             /\ ActiveIn(stack) \subseteq ActiveIn(Pop)
                  \cup (IF Top.op \in {"pull", "body"} THEN {Top.node} ELSE {})
             /\ CallbacksIn(Pop) \subseteq CallbacksIn(stack)
             /\ Elements(Top.cbs) \cap Ticks \subseteq CallbacksIn(stack)
  BY <1>1, <1>3, PopType, WaitsPop DEF Pop, Top
<1>4. ASSUME NEW s \in Seq(Frame), NEW f \in Frame
      PROVE  /\ ActiveIn(s) \subseteq ActiveIn(Append(s, f))
             /\ f.op \in {"pull", "body"} => f.node \in ActiveIn(Append(s, f))
             /\ CallbacksIn(Append(s, f)) \subseteq CallbacksIn(s) \cup Elements(f.cbs)
  BY WaitsPush
<1>5. ASSUME Keeps(stack'), Elements(pending) \subseteq Elements(pending'), awaits' = awaits
      PROVE  Step
  BY <1>5 DEF Waits
<1>6. ASSUME NEW s \in Seq(Frame), Keeps(s), NEW f \in Frame, f.cbs = <<>>
      PROVE  Append(s, f) \in Seq(Frame) /\ Keeps(Append(s, f))
  BY <1>1, <1>4, <1>6
<1>7. Keeps(stack)
  OBVIOUS
(* The innermost call goes on. *)
<1>8. ASSUME stack # <<>>, NEW f \in Frame, f.cbs = Top.cbs \/ f.cbs = <<>>,
             Top.op \in {"pull", "body"} => f.op \in {"pull", "body"} /\ f.node = Top.node
      PROVE  Append(Pop, f) \in Seq(Frame) /\ Keeps(Append(Pop, f))
  <2>1. Append(Pop, f) \in Seq(Frame) /\ ActiveIn(stack) \subseteq ActiveIn(Append(Pop, f))
    BY <1>3, <1>4, <1>8
  <2>2. CallbacksIn(Append(Pop, f)) \subseteq CallbacksIn(stack)
    <3>1. Elements(f.cbs) \cap Ticks \subseteq CallbacksIn(stack)
      BY <1>1, <1>3, <1>8
    <3>2. CallbacksIn(Append(Pop, f)) \subseteq Ticks
      BY DEF CallbacksIn
    <3> QED
      BY <1>3, <1>4, <1>8, <3>1, <3>2
  <2> QED
    BY <2>1, <2>2
(* It returns, and a flush may begin. *)
<1>9. ASSUME NEW s \in Seq(Frame), Keeps(s), NEW reading,
             ScheduleOrFlush(s) \/ MaybeFlush(s, reading)
      PROVE  Keeps(stack')
  <2>1. Call(s, "flush", None) \in Frame /\ Call(s, "flush", None).cbs = <<>>
    BY CallType, PlainCallType DEF Ops
  <2>2. Keeps(Append(s, Call(s, "flush", None)))
    BY <1>6, <1>9, <2>1
  <2> QED
    BY <1>9, <2>2 DEF ScheduleOrFlush, MaybeFlush
<1> HIDE DEF Step
<1> USE DEF In
<1>10. CASE FlushEffect
  <2>1. Head(pending) \in Effects /\ Elements(pending) \subseteq {Head(pending)} \cup Elements(pending')
    <3>1. pending # <<>> /\ pending' = Tail(pending)
      BY <1>10 DEF FlushEffect
    <3> QED
      BY <1>1, <3>1, HeadTail
  <2> DEFINE f == Pull(stack, Head(pending))
  <2>2. f \in Frame
    BY <1>1, <2>1, PullType DEF Nodes
  <2>3. f.op = "pull" /\ f.node = Head(pending) /\ f.cbs = <<>>
    BY PullFields
  <2>4. stack' = Append(stack, f) /\ awaits' = awaits
    BY <1>10 DEF FlushEffect, Push
  <2> HIDE DEF f
  <2> QED
    BY <1>1, <1>4, <2>1, <2>2, <2>3, <2>4 DEF Step, Waits
<1>11. CASE FlushTake
  <2>1. stack # <<>> /\ Top.op = "flush" /\ pending = <<>> /\ awaits' = awaits
    BY <1>11 DEF FlushTake
  <2>2. ActiveIn(stack) = {}
    <3>1. On(Pop, Top)
      BY <2>1, ReturnsTo
    <3>2. /\ \A i \in DOMAIN Pop : Pop[i] = stack[i]
          /\ \A i \in DOMAIN stack : i \in DOMAIN Pop \/ i = Len(stack)
      BY <1>1, <2>1, PopIndex DEF Pop
    <3>3. \A i \in DOMAIN stack : stack[i].op \notin {"pull", "body"}
      BY <2>1, <3>1, <3>2 DEF On, Above, Inside, Top
    <3> QED
      BY <3>3 DEF ActiveIn
  <2>3. \A t \in Ticks : awaits[t] = {}
    BY <1>1, <2>1, <2>2 DEF Waits
  <2> QED
    BY <2>1, <2>3 DEF Step, CallbacksIn
<1>12. CASE FlushCallback
  <2>1. stack # <<>> /\ Top.op = "flush" /\ Top \in Frames /\ Top.cbs # <<>> /\ Queues
    BY <1>12, TopFrame DEF FlushCallback
  <2>2. /\ Rest.op = Top.op /\ Rest.cbs = Tail(Top.cbs)
        /\ Rest \in Frame /\ Append(Pop, Rest) \in Seq(Frame) /\ Head(Top.cbs) \in Ticks
        /\ TickFrame(Append(Pop, Rest), Head(Top.cbs)) \in Frame
        /\ stack' = Append(Append(Pop, Rest), TickFrame(Append(Pop, Rest), Head(Top.cbs)))
    BY <1>12, <2>1, FlushCallbackIs DEF Rest, Frames
  <2>3. Elements(Rest.cbs) \subseteq Elements(Top.cbs) /\ Elements(<<Head(Top.cbs)>>) \subseteq Elements(Top.cbs)
    <3>1. Top.cbs \in Seq(Ticks)
      BY <2>1 DEF Frames
    <3> QED
      BY <2>1, <2>2, <3>1 DEF Elements
  <2> DEFINE rest == Append(Pop, Rest)
             tick == TickFrame(rest, Head(Top.cbs))
  <2>4. tick.cbs = <<Head(Top.cbs)>>
    BY TickFields
  <2>5. rest \in Seq(Frame) /\ tick \in Frame /\ stack' = Append(rest, tick)
    BY <2>2
  <2>6. ActiveIn(stack) \subseteq ActiveIn(rest) /\ CallbacksIn(rest) \subseteq CallbacksIn(stack)
    <3>1. CallbacksIn(rest) \subseteq Ticks
      BY DEF CallbacksIn
    <3>2. CallbacksIn(rest) \subseteq CallbacksIn(Pop) \cup Elements(Rest.cbs)
      BY <1>3, <1>4, <2>1, <2>2
    <3>3. ActiveIn(Pop) \subseteq ActiveIn(rest)
      BY <1>3, <1>4, <2>1, <2>2
    <3> HIDE DEF rest
    <3> QED
      BY <1>3, <2>1, <2>3, <3>1, <3>2, <3>3
  <2> HIDE DEF rest, tick
  <2>7. Keeps(stack')
    <3>1. CallbacksIn(stack') \subseteq Ticks
      BY DEF CallbacksIn
    <3>2. Elements(tick.cbs) \cap Ticks \subseteq CallbacksIn(stack)
      BY <1>3, <2>1, <2>3, <2>4
    <3> QED
      BY <1>4, <2>5, <2>6, <3>1, <3>2
  <2> QED
    BY <1>5, <2>1, <2>7
<1>13. ASSUME stack # <<>>, Top.op \notin {"pull", "body"}, stack' = Pop, Queues
       PROVE  Step
  BY <1>3, <1>5, <1>13
<1>14. CASE FlushDone \/ EndTick
  BY <1>13, <1>14 DEF FlushDone, EndTick
<1>15. ASSUME NEW f \in Frame, f.cbs = <<>>, stack' = Append(stack, f), Queues
       PROVE  Step
  <2>1. Keeps(stack')
    BY <1>1, <1>6, <1>7, <1>15
  <2> QED
    BY <1>5, <1>15, <2>1
<1>16. CASE FlushJobs
  <2>1. Call(stack, "flush", None) \in Frame /\ Call(stack, "flush", None).cbs = <<>>
    BY <1>1, CallType, PlainCallType DEF Ops
  <2> QED
    BY <1>15, <1>16, <2>1 DEF FlushJobs, Push
<1>17. CASE MarkStale
  <2>1. stack # <<>> /\ Top.op = "notify" /\ Top \in Frames /\ awaits' = awaits
    BY <1>17, TopFrame DEF MarkStale
  <2>2. PICK marks : [Top EXCEPT !.marks = marks] \in Frame
                     /\ stack' = Append(Pop, [Top EXCEPT !.marks = marks])
                     /\ \A e \in Elements(pending) : e \in Elements(pending')
    BY <1>17, MarkStaleIs
  <2> DEFINE f == [Top EXCEPT !.marks = marks]
  <2>3. f.cbs = Top.cbs /\ f \in Frame /\ stack' = Append(Pop, f)
    BY <2>1, <2>2 DEF Frames
  <2> HIDE DEF f
  <2>4. Keeps(stack')
    BY <1>8, <2>1, <2>3
  <2> QED
    BY <1>5, <2>1, <2>2, <2>4
<1>18. CASE RunSyncEffect
  BY <1>18 DEF RunSyncEffect, Deferred
<1>19. ASSUME NEW reading, stack # <<>>, Top.op \notin {"pull", "body"}, Queues,
              \/ MaybeFlush(Pop, reading) \/ ScheduleOrFlush(Pop) \/ stack' = Pop
       PROVE  Step
  <2>1. Keeps(Pop) /\ Pop \in Seq(Frame)
    BY <1>3, <1>19
  <2>2. Keeps(stack')
    BY <1>9, <1>19, <2>1
  <2> QED
    BY <1>5, <1>19, <2>2
<1>20. CASE NotifyDone \/ EndGet \/ EndWith \/ EndBatch
  BY <1>19, <1>20 DEF NotifyDone, EndGet, EndWith, EndBatch
<1>21. CASE PullSource
  <2>1. stack # <<>> /\ Top.op = "pull" /\ Top \in Frames /\ Queues
    BY <1>21, TopFrame DEF PullSource
  <2>2. PICK d \in Top.todo :
           LET f == [Top EXCEPT !.todo = Top.todo \ {d}]
           IN /\ f \in Frame /\ Append(Pop, f) \in Seq(Frame)
              /\ Pull(Append(Pop, f), d) \in Frame
              /\ stack' = Append(Append(Pop, f), Pull(Append(Pop, f), d))
    BY <1>21, PullSourceIs
  <2> DEFINE f == [Top EXCEPT !.todo = Top.todo \ {d}]
             rest == Append(Pop, f)
  <2>3. f.op = "pull" /\ f.node = Top.node /\ f.cbs = Top.cbs /\ f \in Frame
    BY <2>1, <2>2 DEF Frames
  <2>4. Pull(rest, d) \in Frame /\ stack' = Append(rest, Pull(rest, d))
    BY <2>2
  <2> HIDE DEF f
  <2>5. rest \in Seq(Frame) /\ Keeps(rest)
    BY <1>8, <2>1, <2>3
  <2> HIDE DEF rest
  <2>6. Keeps(stack')
    BY <1>6, <2>4, <2>5, PullFields
  <2> QED
    BY <1>5, <2>1, <2>6
<1>22. CASE PullRun
  <2> DEFINE f == [Call(stack, "body", Top.node) EXCEPT !.by = Top.node, !.obs = Top.node]
  <2>1. f \in Frame /\ stack' = Append(Pop, f) /\ f.op = "body" /\ f.node = Top.node /\ f.cbs = <<>>
    BY <1>22, PullRunIs
  <2> HIDE DEF f
  <2>2. stack # <<>> /\ Top.op = "pull" /\ Queues
    BY <1>22 DEF PullRun
  <2>3. Keeps(stack')
    BY <1>8, <2>1, <2>2
  <2> QED
    BY <1>5, <2>2, <2>3
<1>23. ASSUME stack # <<>>, Settle(Top.node), stack' = Pop, pending' = pending
       PROVE  Step
  BY <1>1, <1>3, <1>23 DEF Settle, Step, Waits, CallbacksIn
<1>24. CASE PullDone
  BY <1>23, <1>24 DEF PullDone
<1>25. CASE FinishEffect
  BY <1>23, <1>25 DEF FinishEffect
<1>26. CASE FinishComputed
  <2>1. stack # <<>> /\ Top.node \in Computeds /\ stack' = Pop /\ Queues
    BY <1>26 DEF FinishComputed
  <2>2. Top.node \notin Effects
    BY <2>1, ProgramAssumption
  <2> QED
    BY <1>1, <1>3, <2>1, <2>2 DEF Step, Waits
<1>27. CASE With
  <2> DEFINE f == [Top EXCEPT !.op = "with", !.val = value[Top.node]]
  <2>1. f \in Frame /\ stack' = Append(Pop, f) /\ f.cbs = Top.cbs
    BY <1>27, WithIs
  <2> HIDE DEF f
  <2>2. stack # <<>> /\ Top.op = "open" /\ Queues
    BY <1>27 DEF With
  <2>3. Keeps(stack')
    BY <1>8, <2>1, <2>2
  <2> QED
    BY <1>5, <2>2, <2>3
<1>28. ASSUME UNCHANGED stack, Queues
       PROVE  Step
  BY <1>5, <1>7, <1>28
<1>29. ASSUME NEW c \in Code, NEW d \in Sources, NEW op \in {"get", "open"}, Read(c, d, op)
       PROVE  Step
  <2> DEFINE read == Call(stack, op, d)
             reading == Append(stack, read)
  <2>1. read \in Frame /\ read.cbs = <<>>
    BY <1>1, CallType, PlainCallType DEF Ops, Nodes
  <2>2. stack' = Append(reading, Pull(reading, d)) /\ Queues
    BY <1>29 DEF Read, Push
  <2> HIDE DEF read
  <2>3. reading \in Seq(Frame) /\ Keeps(reading)
    BY <1>1, <1>6, <1>7, <2>1
  <2> HIDE DEF reading
  <2>4. Pull(reading, d) \in Frame
    BY <2>3, PullType DEF Nodes
  <2>5. Keeps(stack')
    BY <1>6, <2>2, <2>3, <2>4, PullFields
  <2> QED
    BY <1>5, <2>2, <2>5
<1>30. ASSUME NEW c \in Code, Get(c) \/ Open(c)
       PROVE  Step
  BY <1>29, <1>30, ProgramAssumption DEF Get, Open
<1>31. ASSUME NEW c \in Code, Set(c) \/ Update(c)
       PROVE  Step
  <2>1. PICK s \in Signals : stack' = Notify(stack, s) \/ stack' = stack
    BY <1>31, ProgramAssumption DEF Set, Update
  <2> DEFINE f == [Call(stack, "notify", s) EXCEPT !.marks = Subs(s) \X {Dirty}]
  <2>2. f \in Frame /\ Notify(stack, s) = Append(stack, f) /\ f.cbs = <<>>
    BY <1>1, NotifyIs
  <2>3. Queues
    BY <1>31 DEF Set, Update
  <2> HIDE DEF f
  <2> QED
    BY <1>15, <1>28, <2>1, <2>2, <2>3
<1>32. ASSUME NEW c \in Code, Batch(c) \/ CreateEffect(c)
       PROVE  Step
  <2>1. PICK op \in {"batch", "pull"}, n \in Effects \cup {None} :
           /\ stack' = Append(stack, Call(stack, op, n))
           /\ op = "pull" => n \in Effects
    BY <1>32 DEF Batch, CreateEffect, Push
  <2>2. Call(stack, op, n) \in Frame /\ Call(stack, op, n).cbs = <<>>
    BY <1>1, <2>1, CallType, PlainCallType DEF Ops, Nodes
  <2>3. Queues
    BY <1>32 DEF Batch, CreateEffect
  <2> QED
    BY <1>15, <2>1, <2>2, <2>3
<1>33. ASSUME NEW c \in Code, NextTick(c)
       PROVE  Step
  <2>1. PICK t \in Ticks :
           /\ ~InUse(t) /\ awaits' = [awaits EXCEPT ![t] = Elements(pending)]
           /\ \/ stack' = stack
              \/ ~Defers /\ stack' = Append(stack, TickFrame(stack, t))
    BY <1>33 DEF NextTick, ScheduleOrFlush, Push
  <2>2. pending' = pending
    BY <1>33 DEF NextTick
  <2>3. t \notin CallbacksIn(stack)
    BY <2>1 DEF InUse, CallbacksIn
  <2>4. CASE stack' = stack
    BY <1>1, <2>1, <2>2, <2>3, <2>4 DEF Step, Waits, CallbacksIn
  <2>5. CASE ~Defers /\ stack' = Append(stack, TickFrame(stack, t))
    <3>1. TickFrame(stack, t) \in Frame /\ TickFrame(stack, t).cbs = <<t>>
      BY <1>1, TickFrameType, TickFields
    <3>2. Elements(<<t>>) = {t} /\ Elements(pending) = {}
      BY <1>1, <2>5 DEF Elements, Defers
    <3>3. ActiveIn(stack) \subseteq ActiveIn(stack') /\ CallbacksIn(stack') \subseteq CallbacksIn(stack) \cup {t}
      BY <1>1, <1>4, <2>5, <3>1, <3>2
    <3> QED
      BY <1>1, <2>1, <2>2, <3>2, <3>3 DEF Step, Waits, CallbacksIn
  <2> QED
    BY <2>1, <2>4, <2>5
<1>34. CASE UNCHANGED vars \/ ReadPanics \/ SetScheduler \/ ClearScheduler
  BY <1>28, <1>34 DEF vars, ReadPanics, Panic, SetScheduler, ClearScheduler
<1>35. ASSUME NEW c \in Code, UpdatePanics(c)
       PROVE  Step
  BY <1>28, <1>35 DEF UpdatePanics, Panic
<1> QED
  BY <1>10, <1>11, <1>12, <1>14, <1>16, <1>17, <1>18, <1>20, <1>21, <1>22, <1>24, <1>25,
     <1>26, <1>27, <1>30, <1>31, <1>32, <1>33, <1>34, <1>35
  DEF Next, System, User

(* next_tick runs its callback at once only if nothing is pending, and     *)
(* flush_pending takes the callbacks only when the queue is empty: a       *)
(* callback runs after the effects that were pending when it was given.    *)
THEOREM CallbacksWait == ASSUME ClosuresOnlyRead PROVE Spec => []CallbacksAfterEffects
<1>1. Init => Waits
  <2> SUFFICES ASSUME Init
               PROVE  Waits
    OBVIOUS
  <2>1. DOMAIN stack = {} /\ \A t \in Ticks : awaits[t] = {}
    BY DEF Init
  <2> QED
    BY <2>1 DEF Waits, CallbacksIn
<1>2. /\ TypeOK /\ TypeOK' /\ WellNested /\ Deferred /\ Calls /\ Calls' /\ Idle /\ Waits /\ [Next]_vars
      => Waits'
  BY WaitsNext
<1>3. TypeOK /\ Waits => CallbacksAfterEffects
  <2> SUFFICES ASSUME TypeOK, Waits, NEW i \in DOMAIN stack, stack[i].op = "tick"
               PROVE  awaits[Head(stack[i].cbs)] = {}
    BY DEF CallbacksAfterEffects
  <2>1. stack[i] \in Frame
    BY DEF TypeOK
  <2>2. stack[i].cbs \in Seq(Ticks) /\ Len(stack[i].cbs) = 1
    BY <2>1 DEF Frame, Frames, WellFormed
  <2>3. Head(stack[i].cbs) \in Ticks /\ Head(stack[i].cbs) \in Elements(stack[i].cbs)
    BY <2>2 DEF Elements
  <2> QED
    BY <2>3 DEF Waits, CallbacksIn
<1> QED
  BY <1>1, <1>2, <1>3, CallsAlways, TypeCorrect, NestingCorrect, PTL DEF Spec

-----------------------------------------------------------------------------
(* The order in which nodes wait for each other.  A closure can only refer *)
(* to nodes that exist when it is made, so a computed reads sources that   *)
(* are older than itself, directly and through other computeds.            *)

Reads(n) == CanRead[n] \cup CanWith[n]

Ranks == {r \in [Nodes -> Nat] : \A n \in Observers : \A d \in Reads(n) : r[d] < r[n]}

Acyclic == Ranks # {}

Rank == CHOOSE r : r \in Ranks

(* g is called by f, or deeper. *)
Lower(f, g) ==
  /\ f.op \in {"pull", "body"} => Rank[g.node] < Rank[f.node]
  /\ f.op \in {"get", "open"} => Rank[g.node] <= Rank[f.node]

Beneath(s, f) == \A i \in DOMAIN s : Lower(s[i], f)

(* A pull visits what the node reads. *)
VisitsReads(f) == f.op = "pull" /\ f.todo # {} => f.node \in Observers /\ f.todo \subseteq Reads(f.node)

OrderedIn(s) ==
  /\ \A i, j \in DOMAIN s : i < j => Lower(s[i], s[j])
  /\ \A i \in DOMAIN s : VisitsReads(s[i])

EdgesRead ==
  \A n \in Observers : confirmed[n] \subseteq deps[n] /\ deps[n] \subseteq Reads(n)

Ordered == OrderedIn(stack) /\ EdgesRead

LEMMA RankOrders ==
  ASSUME Acyclic
  PROVE  /\ \A n \in Nodes : Rank[n] \in Nat
         /\ \A n \in Observers : \A d \in Reads(n) : Rank[d] < Rank[n]
<1>1. PICK r : r \in Ranks
  BY DEF Acyclic
<1>2. Rank \in Ranks
  BY <1>1 DEF Rank
<1>3. Rank \in [Nodes -> Nat] /\ \A n \in Observers : \A d \in Reads(n) : Rank[d] < Rank[n]
  BY <1>2 DEF Ranks
<1> QED
  BY <1>3

LEMMA OrderPush ==
  ASSUME NEW s \in Seq(Frame), OrderedIn(s), NEW f \in Frame, Beneath(s, f), VisitsReads(f)
  PROVE  OrderedIn(Append(s, f))
<1> DEFINE t == Append(s, f)
<1>1. /\ Len(t) = Len(s) + 1 /\ Len(s) \in Nat /\ t[Len(t)] = f
      /\ DOMAIN s = 1 .. Len(s) /\ DOMAIN t = 1 .. Len(s) + 1
      /\ \A i \in DOMAIN s : i \in DOMAIN t /\ i < Len(t) /\ t[i] = s[i]
      /\ \A i \in DOMAIN t : i \in DOMAIN s \/ i = Len(t)
  BY PushIndex
<1> HIDE DEF t
<1>2. \A i \in DOMAIN t : VisitsReads(t[i])
  BY <1>1 DEF OrderedIn
<1>3. ASSUME NEW i \in DOMAIN t, NEW j \in DOMAIN t, i < j
      PROVE  Lower(t[i], t[j])
  <2>1. i \in DOMAIN s /\ t[i] = s[i]
    BY <1>1, <1>3
  <2>2. (j \in DOMAIN s /\ t[j] = s[j]) \/ t[j] = f
    BY <1>1
  <2> QED
    BY <1>3, <2>1, <2>2 DEF OrderedIn, Beneath
<1> QED
  BY <1>2, <1>3 DEF OrderedIn, t

LEMMA OrderPop ==
  ASSUME NEW s \in Seq(Frame), s # <<>>, OrderedIn(s)
  PROVE  LET t == SubSeq(s, 1, Len(s) - 1)
         IN OrderedIn(t) /\ Beneath(t, s[Len(s)]) /\ VisitsReads(s[Len(s)])
<1> DEFINE t == SubSeq(s, 1, Len(s) - 1)
<1>1. /\ DOMAIN s = 1 .. Len(s) /\ DOMAIN t = 1 .. Len(s) - 1 /\ Len(s) \in DOMAIN s
      /\ \A i \in DOMAIN t : i \in DOMAIN s /\ i < Len(s) /\ t[i] = s[i]
  BY PopIndex
<1> HIDE DEF t
<1>2. OrderedIn(t)
  BY <1>1 DEF OrderedIn
<1>3. Beneath(t, s[Len(s)]) /\ VisitsReads(s[Len(s)])
  BY <1>1 DEF OrderedIn, Beneath
<1> QED
  BY <1>2, <1>3 DEF t

(* The calls that bring no node up to date are not made inside of one that *)
(* does.                                                                   *)
LEMMA OutsideBeneath ==
  ASSUME NEW s \in Seq(Frame), NEW f \in Frame, CallsIn(Append(s, f)),
         f.op \notin Inside \cup {"with"}
  PROVE  Beneath(s, f) /\ VisitsReads(f) /\ \A i \in DOMAIN s : s[i].op \notin Inside
<1>1. On(s, f)
  <2> DEFINE t == Append(s, f)
  <2>1. t \in Seq(Frame) /\ t # <<>> /\ t[Len(t)] = f /\ SubSeq(t, 1, Len(t) - 1) = s
    BY PushIndex
  <2>2. CallsIn(t)
    OBVIOUS
  <2> HIDE DEF t
  <2> QED
    BY <2>1, <2>2, CallsPop
<1>2. \A i \in DOMAIN s : s[i].op \notin Inside
  BY <1>1 DEF On, Above
<1> QED
  BY <1>2 DEF Beneath, Lower, VisitsReads, Inside

LEMMA InsideBeneath ==
  ASSUME Acyclic, NEW s \in Seq(Frame), NEW f \in Frame, CallsIn(Append(s, f)), OrderedIn(s),
         s # <<>> => Lower(s[Len(s)], f), f.op \in Inside
  PROVE  Beneath(s, f)
<1>1. On(s, f) /\ CallsIn(s)
  <2> DEFINE t == Append(s, f)
  <2>1. t \in Seq(Frame) /\ t # <<>> /\ t[Len(t)] = f /\ SubSeq(t, 1, Len(t) - 1) = s
    BY PushIndex
  <2>2. CallsIn(t)
    OBVIOUS
  <2> HIDE DEF t
  <2> QED
    BY <2>1, <2>2, CallsPop
<1>2. SUFFICES ASSUME NEW i \in DOMAIN s, i # Len(s), s[i].op \in Inside
               PROVE  Lower(s[i], f)
  BY <1>1 DEF Beneath, Lower, Inside
<1> DEFINE g == s[Len(s)]
<1>3. /\ i \in 1 .. Len(s) /\ Len(s) \in DOMAIN s /\ i < Len(s) /\ s # <<>>
      /\ s[i] \in Frame /\ g \in Frame
  BY <1>2
<1>4. Above(s[i], g) /\ Lower(s[i], g) /\ Above(g, f) /\ Lower(g, f)
  BY <1>1, <1>3 DEF CallsIn, OrderedIn, On
<1>5. \A n \in UserCode : n \notin Observers
  BY ProgramAssumption DEF UserCode, Nodes, Sources, Observers
<1>6. g.op \in Inside
  BY <1>2, <1>4, <1>5 DEF Above, Inside
<1>7. s[i].node \in Nodes /\ g.node \in Nodes /\ f.node \in Nodes
  BY <1>2, <1>3, <1>6 DEF Frame, WellFormed, Inside, Nodes, Sources, Observers
<1> HIDE DEF g
<1>8. Rank[s[i].node] \in Nat /\ Rank[g.node] \in Nat /\ Rank[f.node] \in Nat
  BY <1>7, RankOrders
<1>9. Rank[f.node] <= Rank[g.node]
  BY <1>4, <1>6, <1>8 DEF Lower, Inside
<1> QED
  BY <1>4, <1>8, <1>9 DEF Lower

(* A call that brings no node up to date and notifies nobody. *)
Outer(f) == f.op \notin Inside \cup {"with", "notify"} /\ f.marks = {}

(* The steps that leave the nodes alone: they end such a call, or a        *)
(* notification with nothing left to mark, and make at most two others.    *)
OuterStep ==
  /\ UNCHANGED graph
  /\ Elements(pending) \subseteq Elements(pending')
  /\ \E s \in Seq(Frame) :
       /\ \/ s = stack
          \/ stack # <<>> /\ s = Pop /\ Top.op \notin Inside \cup {"with"} /\ Top.marks = {}
       /\ \/ stack' = s
          \/ \E f \in Frame :
               /\ Outer(f)
               /\ \/ stack' = Append(s, f)
                  \/ \E e \in Frame : Outer(e) /\ stack' = Append(Append(s, f), e)

LEMMA FlushIsOuter ==
  ASSUME NEW s \in Seq(Frame), NEW reading, ScheduleOrFlush(s) \/ MaybeFlush(s, reading)
  PROVE  stack' = s \/ \E f \in Frame : Outer(f) /\ stack' = Append(s, f)
<1> DEFINE f == Call(s, "flush", None)
<1>1. f \in Frame /\ f.op = "flush" /\ f.marks = {}
  BY CallType, PlainCallType DEF Ops
<1>2. stack' = s \/ stack' = Append(s, f)
  BY DEF ScheduleOrFlush, MaybeFlush
<1> HIDE DEF f
<1> QED
  BY <1>1, <1>2 DEF Outer, Inside

LEMMA OuterSteps ==
  ASSUME TypeOK, TypeOK', Calls,
         \/ FlushTake \/ FlushCallback \/ FlushDone \/ FlushJobs \/ NotifyDone \/ EndBatch
         \/ EndTick \/ SetScheduler \/ ClearScheduler \/ ReadPanics \/ UNCHANGED vars
         \/ \E c \in Code : Batch(c) \/ NextTick(c) \/ UpdatePanics(c)
  PROVE  OuterStep
<1> DEFINE Same == UNCHANGED graph /\ Elements(pending) \subseteq Elements(pending')
           Back == stack # <<>> /\ Top.op \notin Inside \cup {"with"} /\ Top.marks = {}
<1>1. stack \in Seq(Frame)
  BY DEF TypeOK
<1>2. ASSUME stack # <<>>
      PROVE  /\ Pop \in Seq(Frame) /\ Top \in Frames
             /\ Top.op # "notify" => Top.marks = {}
  BY <1>2, TopFrame, ReturnsTo DEF On, FrameOK
<1>3. ASSUME Same, stack' = stack
      PROVE  OuterStep
  BY <1>1, <1>3 DEF OuterStep
<1>4. ASSUME Same, NEW f \in Frame, Outer(f), stack' = Append(stack, f)
      PROVE  OuterStep
  BY <1>1, <1>4 DEF OuterStep
<1>5. ASSUME Same, Back, stack' = Pop \/ \E f \in Frame : Outer(f) /\ stack' = Append(Pop, f)
      PROVE  OuterStep
  BY <1>2, <1>5 DEF OuterStep
<1> USE DEF In
<1>6. CASE FlushTake
  <2> DEFINE f == [Top EXCEPT !.cbs = postFlush]
  <2>1. stack # <<>> /\ Top.op = "flush" /\ Same
    BY <1>6 DEF FlushTake
  <2>2. f.op = Top.op /\ f.marks = Top.marks
    BY <1>2, <2>1 DEF Frames
  <2>3. f \in Frame /\ stack' = Append(Pop, f)
    BY <1>6, FlushTakeIs
  <2> HIDE DEF f
  <2>4. Outer(f) /\ Back
    BY <1>2, <2>1, <2>2 DEF Outer, Inside
  <2> QED
    BY <1>5, <2>1, <2>3, <2>4
<1>7. CASE FlushCallback
  <2>1. stack # <<>> /\ Top.op = "flush" /\ Same
    BY <1>7 DEF FlushCallback
  <2>2. Rest.op = Top.op /\ Rest.marks = Top.marks
    BY <1>2, <2>1 DEF Rest, Frames
  <2> DEFINE e == TickFrame(Append(Pop, Rest), Head(Top.cbs))
  <2>3. e.op = "tick" /\ e.marks = {}
    BY TickFields
  <2>4. e \in Frame /\ Rest \in Frame /\ stack' = Append(Append(Pop, Rest), e)
    BY <1>7, FlushCallbackIs
  <2> HIDE DEF e
  <2>5. Outer(e) /\ Outer(Rest) /\ Back
    BY <1>2, <2>1, <2>2, <2>3 DEF Outer, Inside
  <2> QED
    BY <1>2, <2>1, <2>4, <2>5 DEF OuterStep
<1>8. CASE FlushDone \/ EndTick
  <2>1. stack # <<>> /\ Top.op \in {"flush", "tick"} /\ Same /\ stack' = Pop
    BY <1>8 DEF FlushDone, EndTick
  <2>2. Back
    BY <1>2, <2>1 DEF Inside
  <2> QED
    BY <1>5, <2>1, <2>2
<1>9. CASE FlushJobs
  <2> DEFINE f == Call(stack, "flush", None)
  <2>1. f \in Frame /\ f.op = "flush" /\ f.marks = {}
    BY <1>1, CallType, PlainCallType DEF Ops
  <2>2. stack' = Append(stack, f) /\ Same
    BY <1>9 DEF FlushJobs, Push
  <2> HIDE DEF f
  <2>3. Outer(f)
    BY <2>1 DEF Outer, Inside
  <2> QED
    BY <1>4, <2>1, <2>2, <2>3
<1>10. CASE NotifyDone \/ EndBatch
  <2>1. /\ stack # <<>> /\ Top.op \in {"notify", "batch"} /\ Same
        /\ Top.op = "notify" => Top.marks = {}
        /\ stack' = Pop \/ ScheduleOrFlush(Pop) \/ MaybeFlush(Pop, readingDepth)
    BY <1>10 DEF NotifyDone, EndBatch
  <2>2. Back
    BY <1>2, <2>1 DEF Inside
  <2>3. stack' = Pop \/ \E f \in Frame : Outer(f) /\ stack' = Append(Pop, f)
    BY <1>2, <2>1, FlushIsOuter
  <2> QED
    BY <1>5, <2>1, <2>2, <2>3
<1>11. CASE SetScheduler \/ ClearScheduler \/ ReadPanics \/ UNCHANGED vars
  BY <1>3, <1>11 DEF SetScheduler, ClearScheduler, ReadPanics, Panic, vars
<1>12. ASSUME NEW c \in Code, Batch(c)
       PROVE  OuterStep
  <2> DEFINE f == Call(stack, "batch", None)
  <2>1. f \in Frame /\ f.op = "batch" /\ f.marks = {}
    BY <1>1, CallType, PlainCallType DEF Ops
  <2>2. stack' = Append(stack, f) /\ Same
    BY <1>12 DEF Batch, Push
  <2> HIDE DEF f
  <2>3. Outer(f)
    BY <2>1 DEF Outer, Inside
  <2> QED
    BY <1>4, <2>1, <2>2, <2>3
<1>13. ASSUME NEW c \in Code, NextTick(c)
       PROVE  OuterStep
  <2>1. PICK t \in Ticks : \/ ScheduleOrFlush(stack) \/ stack' = stack
                           \/ stack' = Append(stack, TickFrame(stack, t))
    BY <1>13 DEF NextTick, Push
  <2>2. Same
    BY <1>13 DEF NextTick
  <2> DEFINE f == TickFrame(stack, t)
  <2>3. f \in Frame /\ f.op = "tick" /\ f.marks = {}
    BY <1>1, TickFrameType, TickFields
  <2>4. \/ stack' = stack
        \/ stack' = Append(stack, f)
        \/ \E e \in Frame : Outer(e) /\ stack' = Append(stack, e)
    BY <1>1, <2>1, FlushIsOuter
  <2> HIDE DEF f
  <2>5. Outer(f)
    BY <2>3 DEF Outer, Inside
  <2> QED
    BY <1>3, <1>4, <2>2, <2>3, <2>4, <2>5
<1>14. ASSUME NEW c \in Code, UpdatePanics(c)
       PROVE  OuterStep
  BY <1>3, <1>14 DEF UpdatePanics, Panic
<1> QED
  BY <1>6, <1>7, <1>8, <1>9, <1>10, <1>11, <1>12, <1>13, <1>14


LEMMA CallsPushed ==
  ASSUME NEW s \in Seq(Frame), NEW f \in Frame, CallsIn(Append(s, f))
  PROVE  CallsIn(s) /\ On(s, f)
<1> DEFINE t == Append(s, f)
<1>1. t \in Seq(Frame) /\ t # <<>> /\ t[Len(t)] = f /\ SubSeq(t, 1, Len(t) - 1) = s
  BY PushIndex
<1>2. CallsIn(t)
  OBVIOUS
<1> HIDE DEF t
<1> QED
  BY <1>1, <1>2, CallsPop

LEMMA OrderOuter ==
  ASSUME NEW s \in Seq(Frame), OrderedIn(s), NEW f \in Frame, Outer(f), CallsIn(Append(s, f))
  PROVE  OrderedIn(Append(s, f))
<1>1. f.op \notin Inside \cup {"with"}
  BY DEF Outer
<1> QED
  BY <1>1, OutsideBeneath, OrderPush

LEMMA OrderOuterStep ==
  ASSUME TypeOK, Calls, Calls', Ordered, OuterStep
  PROVE  OrderedIn(stack')
<1>1. PICK s \in Seq(Frame) :
        /\ s = stack \/ (stack # <<>> /\ s = Pop)
        /\ \/ stack' = s
           \/ \E f \in Frame :
                /\ Outer(f)
                /\ \/ stack' = Append(s, f)
                   \/ \E e \in Frame : Outer(e) /\ stack' = Append(Append(s, f), e)
  BY DEF OuterStep
<1>2. OrderedIn(s)
  BY <1>1, OrderPop DEF Ordered, Pop, TypeOK
<1>3. CallsIn(stack')
  BY DEF Calls, CallsIn
<1>4. ASSUME NEW f \in Frame, Outer(f), stack' = Append(s, f)
      PROVE  OrderedIn(stack')
  BY <1>2, <1>3, <1>4, OrderOuter
<1>5. ASSUME NEW f \in Frame, Outer(f), NEW e \in Frame, Outer(e), stack' = Append(Append(s, f), e)
      PROVE  OrderedIn(stack')
  <2>1. Append(s, f) \in Seq(Frame)
    OBVIOUS
  <2>2. CallsIn(Append(s, f))
    BY <1>3, <1>5, <2>1, CallsPushed
  <2>3. OrderedIn(Append(s, f))
    BY <1>2, <1>5, <2>2, OrderOuter
  <2> QED
    BY <1>3, <1>5, <2>1, <2>3, OrderOuter
<1> QED
  BY <1>1, <1>2, <1>4, <1>5

LEMMA OrderedNext ==
  ASSUME ClosuresOnlyRead, Acyclic, TypeOK, TypeOK', Deferred, Calls, Calls', Ordered, [Next]_vars
  PROVE  Ordered'
<1> DEFINE Reading == \A n \in Observers : confirmed'[n] \subseteq deps'[n] /\ deps'[n] \subseteq Reads(n)
           Edges == UNCHANGED <<deps, confirmed>>
           Step == OrderedIn(stack') /\ Reading
<1>1. /\ stack \in Seq(Frame) /\ OrderedIn(stack) /\ CallsIn(stack) /\ CallsIn(stack')
      /\ deps \in [Observers -> SUBSET Sources] /\ confirmed \in [Observers -> SUBSET Sources]
      /\ \A n \in Observers : confirmed[n] \subseteq deps[n] /\ deps[n] \subseteq Reads(n)
  BY DEF TypeOK, Ordered, EdgesRead, Calls, CallsIn
<1>2. SUFFICES Step
  BY DEF Ordered, OrderedIn, EdgesRead
<1>3. ASSUME stack # <<>>
      PROVE  /\ Pop \in Seq(Frame) /\ Top \in Frame /\ OrderedIn(Pop) /\ Beneath(Pop, Top)
             /\ VisitsReads(Top) /\ On(Pop, Top)
  BY <1>1, <1>3, OrderPop, TopFrame, ReturnsTo DEF Pop, Top
<1>4. ASSUME OrderedIn(stack'), Edges
      PROVE  Step
  BY <1>1, <1>4
<1>5. ASSUME stack # <<>>, NEW f \in Frame, f.node = Top.node,
             f.op = "pull" => Top.op = "pull" /\ f.todo \subseteq Top.todo
      PROVE  OrderedIn(Append(Pop, f))
  <2>1. Beneath(Pop, f) /\ VisitsReads(f)
    BY <1>3, <1>5 DEF Beneath, Lower, VisitsReads
  <2> QED
    BY <1>3, <1>5, <2>1, OrderPush
(* A source is pulled. *)
<1>6. ASSUME NEW s \in Seq(Frame), OrderedIn(s), NEW d \in Nodes, stack' = Append(s, Pull(s, d)),
             s # <<>> => Lower(s[Len(s)], Pull(s, d))
      PROVE  OrderedIn(stack')
  <2>1. Pull(s, d) \in Frame
    BY PullType
  <2>2. Pull(s, d).op = "pull" /\ Pull(s, d).node = d
        /\ Pull(s, d).todo = IF state[d] = Check THEN deps[d] ELSE {}
    BY PullFields
  <2>3. VisitsReads(Pull(s, d))
    <3>1. state[d] = Check => d \in Observers
      BY DEF TypeOK, Nodes, Sources, Observers, Clean, Check
    <3> QED
      BY <1>1, <2>2, <3>1 DEF VisitsReads
  <2>4. Beneath(s, Pull(s, d))
    BY <1>1, <1>6, <2>1, <2>2, InsideBeneath DEF Inside
  <2> QED
    BY <1>6, <2>1, <2>3, <2>4, OrderPush
<1>7. ASSUME NEW reading, stack # <<>>, Edges, ScheduleOrFlush(Pop) \/ MaybeFlush(Pop, reading)
      PROVE  Step
  <2>1. stack' = Pop \/ \E f \in Frame : Outer(f) /\ stack' = Append(Pop, f)
    BY <1>3, <1>7, FlushIsOuter
  <2> QED
    BY <1>1, <1>3, <1>4, <1>7, <2>1, OrderOuter
<1> HIDE DEF Step
<1> USE DEF In
<1>10. CASE FlushEffect
  <2>1. stack # <<>> /\ Top.op = "flush" /\ Edges /\ Head(pending) \in Nodes
    BY <1>10 DEF FlushEffect, TypeOK, Nodes, graph
  <2>2. stack' = Append(stack, Pull(stack, Head(pending)))
    BY <1>10 DEF FlushEffect, Push
  <2>3. Lower(Top, Pull(stack, Head(pending)))
    BY <2>1 DEF Lower
  <2> QED
    BY <1>1, <1>4, <1>6, <2>1, <2>2, <2>3 DEF Top
<1>11. ASSUME OuterStep
       PROVE  Step
  BY <1>4, <1>11, OrderOuterStep DEF OuterStep, graph
<1>12. CASE MarkStale
  <2>1. stack # <<>> /\ Top.op = "notify" /\ Top \in Frames /\ Edges
    BY <1>12, TopFrame DEF MarkStale
  <2>2. PICK marks : [Top EXCEPT !.marks = marks] \in Frame
                     /\ stack' = Append(Pop, [Top EXCEPT !.marks = marks])
    BY <1>12, MarkStaleIs
  <2> DEFINE f == [Top EXCEPT !.marks = marks]
  <2>3. f.op = Top.op /\ f.node = Top.node /\ f \in Frame /\ stack' = Append(Pop, f)
    BY <2>1, <2>2 DEF Frames
  <2> HIDE DEF f
  <2> QED
    BY <1>4, <1>5, <2>1, <2>3
<1>13. CASE RunSyncEffect
  BY <1>13 DEF RunSyncEffect, Deferred
<1>14. CASE PullSource
  <2>1. stack # <<>> /\ Top.op = "pull" /\ Top \in Frames /\ Edges
    BY <1>14, TopFrame DEF PullSource, graph
  <2>2. PICK d \in Top.todo :
           LET f == [Top EXCEPT !.todo = Top.todo \ {d}]
           IN /\ f \in Frame /\ Append(Pop, f) \in Seq(Frame)
              /\ Pull(Append(Pop, f), d) \in Frame
              /\ stack' = Append(Append(Pop, f), Pull(Append(Pop, f), d))
    BY <1>14, PullSourceIs
  <2> DEFINE f == [Top EXCEPT !.todo = Top.todo \ {d}]
             rest == Append(Pop, f)
  <2>3. f.op = "pull" /\ f.node = Top.node /\ f.todo \subseteq Top.todo /\ f \in Frame
    BY <2>1, <2>2 DEF Frames
  <2>4. rest \in Seq(Frame) /\ Pull(rest, d) \in Frame /\ stack' = Append(rest, Pull(rest, d))
    BY <2>2
  <2> HIDE DEF f
  <2>5. OrderedIn(rest)
    BY <1>5, <2>1, <2>3
  <2>6. rest # <<>> /\ rest[Len(rest)] = f
    BY <1>3, <2>1, <2>3, PushIndex
  <2> HIDE DEF rest
  <2>7. Top.node \in Observers /\ d \in Reads(Top.node)
    BY <1>3, <2>1, <2>2 DEF VisitsReads
  <2>8. Rank[d] < Rank[Top.node]
    BY <2>7, RankOrders
  <2>9. Lower(f, Pull(rest, d)) /\ d \in Nodes
    <3>1. d \in Nodes
      BY <2>1, <2>2 DEF Frames, Nodes
    <3> QED
      BY <2>3, <2>8, <3>1, PullFields DEF Lower
  <2> QED
    BY <1>4, <1>6, <2>1, <2>4, <2>5, <2>6, <2>9
<1>15. CASE PullRun
  <2> DEFINE f == [Call(stack, "body", Top.node) EXCEPT !.by = Top.node, !.obs = Top.node]
  <2>1. f \in Frame /\ stack' = Append(Pop, f) /\ f.op = "body" /\ f.node = Top.node
    BY <1>15, PullRunIs
  <2> HIDE DEF f
  <2>2. stack # <<>> /\ confirmed' = [confirmed EXCEPT ![Top.node] = {}] /\ deps' = deps
    BY <1>15 DEF PullRun
  <2>3. Reading
    BY <1>1, <2>2
  <2> QED
    BY <1>5, <2>1, <2>2, <2>3 DEF Step
<1>16. CASE PullDone
  BY <1>3, <1>4, <1>16 DEF PullDone
<1>17. CASE FinishEffect
  <2>1. /\ stack # <<>> /\ stack' = Pop /\ confirmed' = confirmed
        /\ deps' = [deps EXCEPT ![Top.node] = confirmed[Top.node]]
    BY <1>17 DEF FinishEffect, EndTracking
  <2>2. Reading
    BY <1>1, <2>1
  <2> QED
    BY <1>3, <2>1, <2>2 DEF Step
<1>18. CASE FinishComputed
  <2>1. /\ stack # <<>> /\ stack' = Pop /\ confirmed' = confirmed
        /\ deps' = [deps EXCEPT ![Top.node] = confirmed[Top.node]]
    BY <1>18 DEF FinishComputed, EndTracking
  <2>2. Reading
    BY <1>1, <2>1
  <2> QED
    BY <1>3, <2>1, <2>2 DEF Step
<1>19. CASE EndGet \/ EndWith
  <2>1. stack # <<>> /\ Edges /\ \E reading : MaybeFlush(Pop, reading)
    BY <1>19 DEF EndGet, EndWith
  <2> QED
    BY <1>7, <2>1
<1>20. CASE With
  <2> DEFINE f == [Top EXCEPT !.op = "with", !.val = value[Top.node]]
  <2>1. f \in Frame /\ stack' = Append(Pop, f) /\ f.op = "with" /\ f.node = Top.node
    BY <1>20, WithIs
  <2> HIDE DEF f
  <2>2. stack # <<>> /\ Edges
    BY <1>20 DEF With
  <2> QED
    BY <1>4, <1>5, <2>1, <2>2
<1>21. ASSUME NEW c \in Code, NEW d \in Reads(c), NEW op \in {"get", "open"}, Read(c, d, op)
       PROVE  Step
  <2> DEFINE read == Call(stack, op, d)
             reading == Append(stack, read)
  <2>1. read \in Frame /\ read.op = op /\ read.node = d /\ read.todo = {} /\ d \in Nodes /\ d \in Sources
    <3>1. d \in Sources
      BY <1>21, ProgramAssumption DEF Reads
    <3> QED
      BY <1>1, <3>1, CallType, PlainCallType DEF Ops, Nodes, Call
  <2>2. /\ stack' = Append(reading, Pull(reading, d)) /\ Runs(c) /\ ~InRead
    BY <1>21 DEF Read, Push, ClosuresOnlyRead
  <2> HIDE DEF read
  <2>3. reading \in Seq(Frame) /\ reading # <<>> /\ reading[Len(reading)] = read
    BY <1>1, <2>1, PushIndex
  <2>4. CallsIn(reading)
    <3>1. Pull(reading, d) \in Frame
      BY <2>1, <2>3, PullType
    <3> HIDE DEF reading
    <3> QED
      BY <1>1, <2>2, <2>3, <3>1, CallsPushed
  <2>5. c \in Observers =>
          stack # <<>> /\ Top.op = "body" /\ Top.node = c /\ ObserverIn(stack) = c
    BY <2>2, Runners DEF InRead, ObserverIn, Top
  <2>6. c \in UserCode => ObserverIn(stack) = None
    BY <1>1, <2>2, Inherits, Runners
  <2>7. c \in Observers \/ c \in UserCode
    BY DEF Code, UserCode
  <2>8. OrderedIn(reading)
    <3>1. Beneath(stack, read)
      <4>1. CASE c \in Observers
        <5>1. Rank[d] < Rank[c] /\ Lower(Top, read)
          BY <2>1, <2>5, <4>1, RankOrders DEF Lower
        <5> QED
          BY <1>1, <2>1, <2>4, <5>1, InsideBeneath DEF Top, Inside
      <4>2. CASE c \in UserCode
        <5>1. \A i \in DOMAIN stack : stack[i].op \notin Inside
          BY <2>2, <4>2, Runners
        <5> QED
          BY <5>1 DEF Beneath, Lower, Inside
      <4> QED
        BY <2>7, <4>1, <4>2
    <3>2. VisitsReads(read)
      BY <2>1 DEF VisitsReads
    <3> QED
      BY <1>1, <2>1, <3>1, <3>2, OrderPush
  <2> HIDE DEF reading
  <2>9. OrderedIn(stack')
    <3>1. Rank[d] \in Nat
      BY <2>1, RankOrders
    <3>2. Lower(read, Pull(reading, d))
      BY <2>1, <3>1, PullFields DEF Lower
    <3> QED
      BY <1>6, <2>1, <2>2, <2>3, <2>8, <3>2
  <2>10. Reading
    <3>1. CASE c \in Observers
      <4>1. /\ deps' = [deps EXCEPT ![c] = @ \cup {d}]
            /\ confirmed' = [confirmed EXCEPT ![c] = @ \cup {d}]
        <5>1. c # None
          BY ProgramAssumption
        <5> QED
          BY <1>21, <2>5, <3>1, <5>1 DEF Read, Observer
      <4> QED
        BY <1>1, <4>1
    <3>2. CASE c \in UserCode
      BY <1>1, <1>21, <2>6, <3>2 DEF Read, Observer
    <3> QED
      BY <2>7, <3>1, <3>2
  <2> QED
    BY <2>9, <2>10 DEF Step
<1>22. ASSUME NEW c \in Code, Get(c) \/ Open(c)
       PROVE  Step
  BY <1>21, <1>22 DEF Get, Open, Reads
<1>23. ASSUME NEW c \in Code, Set(c) \/ Update(c)
       PROVE  Step
  <2>1. PICK s \in Signals : stack' = Notify(stack, s) \/ stack' = stack
    BY <1>23, ProgramAssumption DEF Set, Update
  <2> DEFINE f == [Call(stack, "notify", s) EXCEPT !.marks = Subs(s) \X {Dirty}]
  <2>2. f \in Frame /\ Notify(stack, s) = Append(stack, f) /\ f.op = "notify"
    BY <1>1, NotifyIs
  <2>3. Edges
    BY <1>23 DEF Set, Update
  <2> HIDE DEF f
  <2>4. stack' = Append(stack, f) => Beneath(stack, f) /\ VisitsReads(f)
    BY <1>1, <2>2, OutsideBeneath DEF Inside
  <2> QED
    BY <1>1, <1>4, <2>1, <2>2, <2>3, <2>4, OrderPush
<1>24. ASSUME NEW c \in Code, CreateEffect(c)
       PROVE  Step
  <2>1. PICK e \in Effects : stack' = Append(stack, Call(stack, "pull", e))
    BY <1>24 DEF CreateEffect, Push
  <2> DEFINE f == Call(stack, "pull", e)
  <2>2. f \in Frame /\ f.op = "pull" /\ f.todo = {} /\ stack' = Append(stack, f)
    BY <1>1, <2>1, CallType, PlainCallType DEF Ops, Nodes, Call
  <2>3. Edges /\ Runs(c) /\ c \in UserCode
    BY <1>24 DEF CreateEffect, UserCode
  <2> HIDE DEF f
  <2>4. \A i \in DOMAIN stack : stack[i].op \notin Inside
    BY <2>3, Runners
  <2>5. Beneath(stack, f) /\ VisitsReads(f)
    BY <2>2, <2>4 DEF Beneath, Lower, Inside, VisitsReads
  <2> QED
    BY <1>1, <1>4, <2>2, <2>3, <2>5, OrderPush
<1> QED
  <2>1. \A c \in Code : Batch(c) \/ NextTick(c) \/ UpdatePanics(c) => Step
    BY <1>11, OuterSteps
  <2>2. \/ FlushTake \/ FlushCallback \/ FlushDone \/ FlushJobs \/ NotifyDone \/ EndBatch
        \/ EndTick \/ SetScheduler \/ ClearScheduler \/ ReadPanics \/ UNCHANGED vars
        => Step
    BY <1>11, OuterSteps
  <2> QED
    BY <2>1, <2>2, <1>10, <1>12, <1>13, <1>14, <1>15, <1>16, <1>17, <1>18, <1>19, <1>20,
       <1>22, <1>23, <1>24
    DEF Next, System, User

-----------------------------------------------------------------------------
(* Freshness.  It is stated of any state of the nodes and any stack, so    *)
(* that a step can be taken apart into what it does to each.               *)

Graphs ==
  [value : [Sources -> Values \cup {None}], state : [Nodes -> {Clean, Check, Dirty}],
   deps : [Observers -> SUBSET Sources], confirmed : [Observers -> SUBSET Sources],
   seen : [Observers -> SUBSET (Sources \X Values)]]

Now == [value |-> value, state |-> state, deps |-> deps, confirmed |-> confirmed, seen |-> seen]

(* The calls of mark_stale that are still to be made, and the values that  *)
(* read closures have taken out.                                           *)
MarksIn(s) == {m \in Observers \X {Check, Dirty} : \E i \in DOMAIN s : m \in s[i].marks}

OutIn(s) ==
  {w \in Sources \X Values :
     \E i \in DOMAIN s : s[i].op = "with" /\ s[i].node = w[1] /\ s[i].val = w[2]}

(* p[2] is still what p[1] holds. *)
Current(g, W, p) == g.value[p[1]] = p[2] \/ p \in W

(* An observer of something stale is stale, or about to be marked. *)
Spread(g, M) ==
  \A n \in Observers : \A d \in g.deps[n] :
    g.state[d] = Clean \/ g.state[n] # Clean \/ \E t \in {Check, Dirty} : <<n, t>> \in M

(* What an observer has seen is current, until it is Dirty or about to be. *)
Sound(g, M, W) ==
  \A n \in Observers : \A p \in g.seen[n] :
    /\ p[1] \in g.confirmed[n]
    /\ g.state[n] # Dirty /\ <<n, Dirty>> \notin M => Current(g, W, p)

(* A source has no value only before its first run and while a closure     *)
(* reads it.                                                               *)
Valued(g, W) ==
  \A d \in Sources :
    /\ g.value[d] = None => g.state[d] = Dirty \/ \E v \in Values : <<d, v>> \in W
    /\ \A v \in Values : <<d, v>> \in W => g.value[d] = None

(* A stale effect is queued or being run. *)
Queued(g, s, Q) == \A e \in Effects : g.state[e] # Clean => e \in Q \cup ActiveIn(s)

(* What holds in each active call.  X is the node that the call waits for. *)
FreshPull(g, f, X) ==
  f.node \in Observers /\ g.state[f.node] # Dirty
    => \A d \in g.deps[f.node] : d \in f.todo \cup X \/ g.state[d] = Clean

FreshRead(g, f, X) ==
  /\ X = {} => g.state[f.node] = Clean
  /\ f.obs # None => f.node \in g.confirmed[f.obs]

FreshBody(g, W, f, X) ==
  /\ g.state[f.node] = Dirty
  /\ \A p \in g.seen[f.node] : Current(g, W, p) /\ g.state[p[1]] = Clean
  /\ \A d \in g.confirmed[f.node] : d \in X \/ \E p \in g.seen[f.node] : p[1] = d

FreshNotify(g, f) ==
  \A x \in Observers : f.node \in g.deps[x] => g.state[x] = Dirty \/ <<x, Dirty>> \in f.marks

FreshCall(g, W, f, X) ==
  /\ f.op = "pull" => FreshPull(g, f, X)
  /\ f.op \in {"get", "open"} => FreshRead(g, f, X)
  /\ f.op = "body" => FreshBody(g, W, f, X)
  /\ f.op = "notify" => FreshNotify(g, f)

(* The node that f brings up to date. *)
NodeOf(f) == IF f.op \in Inside THEN {f.node} ELSE {}

Awaited(s, i, X) == IF i < Len(s) THEN NodeOf(s[i + 1]) ELSE X

FreshCalls(g, W, s, X) == \A i \in DOMAIN s : FreshCall(g, W, s[i], Awaited(s, i, X))

FreshIn(g, s, Q) ==
  /\ Spread(g, MarksIn(s)) /\ Sound(g, MarksIn(s), OutIn(s)) /\ Valued(g, OutIn(s))
  /\ FreshCalls(g, OutIn(s), s, {})
  /\ Queued(g, s, Q)

Fresh == FreshIn(Now, stack, Elements(pending))

LEMMA NowType ==
  /\ TypeOK => Now \in Graphs
  /\ TypeOK' => Now' \in Graphs
  BY DEF TypeOK, Now, Graphs

LEMMA NowFields ==
  /\ Now.value = value /\ Now.state = state /\ Now.deps = deps
  /\ Now.confirmed = confirmed /\ Now.seen = seen
  /\ Now'.value = value' /\ Now'.state = state' /\ Now'.deps = deps'
  /\ Now'.confirmed = confirmed' /\ Now'.seen = seen'
  BY DEF Now

LEMMA FreshPrimed ==
  ASSUME FreshIn(Now', stack', Elements(pending'))
  PROVE  Fresh'
<1>1. MarksIn(stack)' = MarksIn(stack') /\ OutIn(stack)' = OutIn(stack')
      /\ ActiveIn(stack)' = ActiveIn(stack') /\ Elements(pending)' = Elements(pending')
  BY DEF MarksIn, OutIn, ActiveIn, Elements
<1>2. FreshIn(Now, stack, Elements(pending))' <=> FreshIn(Now', stack', Elements(pending'))
  BY <1>1 DEF FreshIn, Spread, Sound, Valued, Queued, FreshCalls, FreshCall, FreshPull, FreshRead,
              FreshBody, FreshNotify, Current, Awaited, NodeOf, Inside
<1> QED
  BY <1>2 DEF Fresh

(* What is pushed and popped *)

LEMMA MarksPush ==
  ASSUME NEW s \in Seq(Frame), NEW f \in Frame
  PROVE  /\ MarksIn(Append(s, f)) = MarksIn(s) \cup f.marks
         /\ f.op # "with" => OutIn(Append(s, f)) = OutIn(s)
         /\ f.op = "with" => OutIn(Append(s, f)) = OutIn(s) \cup {<<f.node, f.val>>}
<1> DEFINE t == Append(s, f)
<1>1. /\ t[Len(t)] = f /\ Len(t) \in DOMAIN t
      /\ \A i \in DOMAIN s : i \in DOMAIN t /\ t[i] = s[i]
      /\ \A i \in DOMAIN t : i \in DOMAIN s \/ i = Len(t)
  <2>1. Len(t) = Len(s) + 1 /\ Len(s) \in Nat /\ DOMAIN t = 1 .. Len(s) + 1
    BY PushIndex
  <2>2. Len(t) \in DOMAIN t
    BY <2>1
  <2> QED
    BY <2>2, PushIndex
<1>2. /\ f.marks \subseteq Observers \X {Check, Dirty}
      /\ f.op = "with" => f.node \in Sources /\ f.val \in Values
  BY DEF Frame, Frames, WellFormed
<1> HIDE DEF t
<1>3. MarksIn(t) = MarksIn(s) \cup f.marks
  BY <1>1, <1>2 DEF MarksIn
<1>4. f.op # "with" => OutIn(t) = OutIn(s)
  BY <1>1 DEF OutIn
<1>5. f.op = "with" => OutIn(t) = OutIn(s) \cup {<<f.node, f.val>>}
  BY <1>1, <1>2 DEF OutIn
<1> QED
  BY <1>3, <1>4, <1>5 DEF t

LEMMA PushPop ==
  ASSUME NEW s \in Seq(Frame), s # <<>>
  PROVE  LET t == SubSeq(s, 1, Len(s) - 1)
         IN t \in Seq(Frame) /\ s[Len(s)] \in Frame /\ s = Append(t, s[Len(s)])
<1> DEFINE t == SubSeq(s, 1, Len(s) - 1)
           u == Append(t, s[Len(s)])
<1>1. /\ t \in Seq(Frame) /\ Len(t) = Len(s) - 1 /\ Len(s) \in Nat \ {0} /\ s[Len(s)] \in Frame
      /\ DOMAIN s = 1 .. Len(s) /\ DOMAIN t = 1 .. Len(s) - 1
      /\ \A i \in DOMAIN t : t[i] = s[i]
  BY PopIndex
<1>2. /\ u \in Seq(Frame) /\ Len(u) = Len(t) + 1 /\ u[Len(t) + 1] = s[Len(s)]
      /\ \A i \in DOMAIN t : u[i] = t[i]
  BY <1>1, PushIndex
<1> HIDE DEF t, u
<1>3. Len(u) = Len(s) /\ \A i \in 1 .. Len(s) : u[i] = s[i]
  BY <1>1, <1>2
<1>4. u = s
  BY <1>2, <1>3
<1> QED
  BY <1>1, <1>4 DEF t, u

LEMMA FreshCallsPush ==
  ASSUME NEW g, NEW W, NEW X, NEW s \in Seq(Frame), NEW f \in Frame,
         FreshCalls(g, W, s, NodeOf(f)), FreshCall(g, W, f, X)
  PROVE  FreshCalls(g, W, Append(s, f), X)
<1> DEFINE t == Append(s, f)
<1>1. /\ Len(t) = Len(s) + 1 /\ Len(s) \in Nat /\ t[Len(s) + 1] = f
      /\ DOMAIN s = 1 .. Len(s) /\ DOMAIN t = 1 .. Len(s) + 1
      /\ \A i \in DOMAIN s : t[i] = s[i]
  BY PushIndex
<1> HIDE DEF t
<1>2. ASSUME NEW i \in DOMAIN t
      PROVE  FreshCall(g, W, t[i], Awaited(t, i, X))
  <2>1. CASE i = Len(s) + 1
    BY <1>1, <2>1 DEF Awaited
  <2>2. CASE i = Len(s)
    <3>1. i \in DOMAIN s /\ Awaited(t, i, X) = NodeOf(f) /\ Awaited(s, i, NodeOf(f)) = NodeOf(f)
      BY <1>1, <1>2, <2>2 DEF Awaited
    <3> QED
      BY <1>1, <3>1 DEF FreshCalls
  <2>3. CASE i < Len(s)
    <3>1. i \in DOMAIN s /\ i + 1 \in DOMAIN s
      BY <1>1, <1>2, <2>3
    <3>2. Awaited(t, i, X) = NodeOf(s[i + 1]) /\ Awaited(s, i, NodeOf(f)) = NodeOf(s[i + 1])
      BY <1>1, <2>3, <3>1 DEF Awaited
    <3> QED
      BY <1>1, <3>1, <3>2 DEF FreshCalls
  <2> QED
    BY <1>1, <1>2, <2>1, <2>2, <2>3
<1> QED
  BY <1>2 DEF FreshCalls, t

LEMMA FreshCallsPop ==
  ASSUME NEW g, NEW W, NEW X, NEW s \in Seq(Frame), NEW f \in Frame,
         FreshCalls(g, W, Append(s, f), X)
  PROVE  FreshCalls(g, W, s, NodeOf(f)) /\ FreshCall(g, W, f, X)
<1> DEFINE t == Append(s, f)
<1>1. /\ Len(t) = Len(s) + 1 /\ Len(s) \in Nat /\ t[Len(s) + 1] = f
      /\ DOMAIN s = 1 .. Len(s) /\ DOMAIN t = 1 .. Len(s) + 1
      /\ \A i \in DOMAIN s : t[i] = s[i]
  BY PushIndex
<1>2. FreshCalls(g, W, t, X)
  OBVIOUS
<1> HIDE DEF t
<1>3. FreshCall(g, W, f, X)
  <2>1. Len(s) + 1 \in DOMAIN t /\ Awaited(t, Len(s) + 1, X) = X
    BY <1>1 DEF Awaited
  <2> QED
    BY <1>1, <1>2, <2>1 DEF FreshCalls
<1>4. ASSUME NEW i \in DOMAIN s
      PROVE  FreshCall(g, W, s[i], Awaited(s, i, NodeOf(f)))
  <2>1. i \in DOMAIN t /\ t[i] = s[i] /\ i < Len(t)
    BY <1>1
  <2>2. Awaited(t, i, X) = NodeOf(t[i + 1])
    BY <2>1 DEF Awaited
  <2>3. Awaited(s, i, NodeOf(f)) = NodeOf(t[i + 1])
    <3>1. CASE i = Len(s)
      BY <1>1, <3>1 DEF Awaited
    <3>2. CASE i < Len(s)
      <4>1. i + 1 \in DOMAIN s
        BY <1>1, <3>2
      <4> QED
        BY <1>1, <3>2, <4>1 DEF Awaited
    <3> QED
      BY <1>1, <3>1, <3>2
  <2> QED
    BY <1>2, <2>1, <2>2, <2>3 DEF FreshCalls
<1> QED
  BY <1>3, <1>4 DEF FreshCalls

(* Each call keeps what it has, whatever it waits for. *)
LEMMA FreshCallsKeep ==
  ASSUME NEW g, NEW W, NEW h, NEW V, NEW X, NEW s \in Seq(Frame), FreshCalls(g, W, s, X),
         \A i \in DOMAIN s : \A Y : FreshCall(g, W, s[i], Y) => FreshCall(h, V, s[i], Y)
  PROVE  FreshCalls(h, V, s, X)
  BY DEF FreshCalls

(* A call that waits for nothing has more than one that waits. *)
LEMMA FreshCallsMore ==
  ASSUME NEW g, NEW W, NEW X, NEW s \in Seq(Frame), FreshCalls(g, W, s, {})
  PROVE  FreshCalls(g, W, s, X)
<1> SUFFICES ASSUME NEW i \in DOMAIN s
             PROVE  FreshCall(g, W, s[i], Awaited(s, i, X))
  BY DEF FreshCalls
<1>1. FreshCall(g, W, s[i], Awaited(s, i, {}))
  BY DEF FreshCalls
<1>2. Awaited(s, i, X) = Awaited(s, i, {}) \/ Awaited(s, i, {}) = {}
  BY DEF Awaited
<1>3. FreshCall(g, W, s[i], {}) => FreshCall(g, W, s[i], Awaited(s, i, X))
  BY DEF FreshCall, FreshPull, FreshRead, FreshBody
<1> QED
  BY <1>1, <1>2, <1>3

(* Calls outside of any that brings a node up to date. *)
LEMMA FreshCallsOutside ==
  ASSUME NEW g, NEW W, NEW X, NEW s \in Seq(Frame),
         \A i \in DOMAIN s : s[i].op \notin Inside \cup {"notify"}
  PROVE  FreshCalls(g, W, s, X)
  BY DEF FreshCalls, FreshCall, Inside

(* Only the innermost call can be a notification, and nothing but a        *)
(* notification is called from a read closure.                             *)
LEMMA QuietBelow ==
  ASSUME NEW s \in Seq(Frame), NEW f \in Frame, CallsIn(Append(s, f)), DeferredIn(Append(s, f))
  PROVE  /\ MarksIn(s) = {}
         /\ \A i \in DOMAIN s : s[i].op # "notify"
         /\ f.op # "notify" => f.marks = {} /\ MarksIn(Append(s, f)) = {} /\ OutIn(s) = {}
         /\ f.op \notin {"with", "notify"} => OutIn(Append(s, f)) = {}
<1>1. CallsIn(s) /\ FrameOK(f)
  BY CallsPushed DEF On
<1>2. \A i \in DOMAIN s : Under(s[i], f)
  <2> DEFINE t == Append(s, f)
  <2>1. t \in Seq(Frame) /\ t # <<>> /\ t[Len(t)] = f /\ SubSeq(t, 1, Len(t) - 1) = s
    BY PushIndex
  <2>2. DeferredIn(t)
    OBVIOUS
  <2> HIDE DEF t
  <2> QED
    BY <2>1, <2>2, DeferPop
<1>3. \A i \in DOMAIN s : s[i].op # "notify"
  BY <1>2 DEF Under
<1>4. MarksIn(s) = {}
  BY <1>1, <1>3 DEF MarksIn, CallsIn, FrameOK
<1>5. f.op # "notify" => OutIn(s) = {}
  BY <1>2 DEF OutIn, Under
<1>6. f.op # "notify" => f.marks = {}
  BY <1>1 DEF FrameOK
<1> QED
  BY <1>3, <1>4, <1>5, <1>6, MarksPush

LEMMA ActivePush ==
  ASSUME NEW s \in Seq(Frame), NEW f \in Frame
  PROVE  /\ ActiveIn(s) \subseteq ActiveIn(Append(s, f))
         /\ f.op \in {"pull", "body"} => f.node \in ActiveIn(Append(s, f))
         /\ ActiveIn(Append(s, f)) \subseteq
              ActiveIn(s) \cup (IF f.op \in {"pull", "body"} THEN {f.node} ELSE {})
<1> DEFINE t == Append(s, f)
<1>1. t \in Seq(Frame) /\ t # <<>> /\ t[Len(t)] = f /\ SubSeq(t, 1, Len(t) - 1) = s
  BY PushIndex
<1> HIDE DEF t
<1>2. ActiveIn(t) \subseteq ActiveIn(s) \cup (IF f.op \in {"pull", "body"} THEN {f.node} ELSE {})
  BY <1>1, WaitsPop
<1>3. ActiveIn(s) \subseteq ActiveIn(Append(s, f))
      /\ (f.op \in {"pull", "body"} => f.node \in ActiveIn(Append(s, f)))
  BY WaitsPush
<1>4. ActiveIn(Append(s, f)) \subseteq
        ActiveIn(s) \cup (IF f.op \in {"pull", "body"} THEN {f.node} ELSE {})
  BY <1>2 DEF t
<1> QED
  BY <1>3, <1>4

LEMMA FreshOuterPush ==
  ASSUME NEW g, NEW Q, NEW s \in Seq(Frame), FreshIn(g, s, Q), NEW f \in Frame, Outer(f)
  PROVE  FreshIn(g, Append(s, f), Q)
<1>1. MarksIn(Append(s, f)) = MarksIn(s) /\ OutIn(Append(s, f)) = OutIn(s)
  <2>1. f.op # "with" /\ f.marks = {}
    BY DEF Outer
  <2>2. MarksIn(Append(s, f)) = MarksIn(s) \cup f.marks /\ OutIn(Append(s, f)) = OutIn(s)
    BY <2>1, MarksPush
  <2> QED
    BY <2>1, <2>2
<1>2. FreshCalls(g, OutIn(s), Append(s, f), {})
  <2>1. NodeOf(f) = {} /\ FreshCall(g, OutIn(s), f, {})
    BY DEF Outer, NodeOf, FreshCall, Inside
  <2> QED
    BY <2>1, FreshCallsPush DEF FreshIn
<1>3. Queued(g, Append(s, f), Q)
  BY ActivePush DEF FreshIn, Queued
<1> QED
  BY <1>1, <1>2, <1>3 DEF FreshIn

LEMMA FreshOuterPop ==
  ASSUME NEW g, NEW Q, NEW s \in Seq(Frame), NEW f \in Frame, FreshIn(g, Append(s, f), Q),
         f.op \notin Inside \cup {"with"}, f.marks = {}
  PROVE  FreshIn(g, s, Q)
<1>1. MarksIn(Append(s, f)) = MarksIn(s) /\ OutIn(Append(s, f)) = OutIn(s)
  <2>1. f.op # "with"
    OBVIOUS
  <2>2. MarksIn(Append(s, f)) = MarksIn(s) \cup f.marks /\ OutIn(Append(s, f)) = OutIn(s)
    BY <2>1, MarksPush
  <2> QED
    BY <2>2
<1>2. FreshCalls(g, OutIn(s), s, {})
  <2>1. NodeOf(f) = {}
    BY DEF NodeOf
  <2>2. FreshCalls(g, OutIn(s), Append(s, f), {})
    BY <1>1 DEF FreshIn
  <2>3. FreshCalls(g, OutIn(s), s, NodeOf(f))
    BY <2>2, FreshCallsPop
  <2> QED
    BY <2>1, <2>3
<1>3. Queued(g, s, Q)
  BY ActivePush DEF FreshIn, Queued, Inside
<1> QED
  BY <1>1, <1>2, <1>3 DEF FreshIn

(* A pull that begins. *)
LEMMA FreshPullBegins ==
  ASSUME NEW g, NEW W, NEW f, f.op = "pull", g.state[f.node] \in {Clean, Check, Dirty},
         f.todo = IF g.state[f.node] = Check THEN g.deps[f.node] ELSE {},
         Spread(g, {})
  PROVE  FreshCall(g, W, f, {})
<1> SUFFICES ASSUME f.node \in Observers, g.state[f.node] # Dirty, NEW d \in g.deps[f.node]
             PROVE  d \in f.todo \/ g.state[d] = Clean
  BY DEF FreshCall, FreshPull
<1> QED
  BY DEF Spread

(* The node that the innermost call waits for is up to date. *)
LEMMA FreshCallsBack ==
  ASSUME NEW g, NEW W, NEW n, NEW s \in Seq(Frame), FreshCalls(g, W, s, {n}), g.state[n] = Clean,
         NEW f, NodeOf(f) = {n}, f.op \in {"pull", "body"}, s # <<>> => Adjacent(s[Len(s)], f)
  PROVE  FreshCalls(g, W, s, {})
<1> SUFFICES ASSUME NEW i \in DOMAIN s
             PROVE  FreshCall(g, W, s[i], Awaited(s, i, {}))
  BY DEF FreshCalls
<1>1. FreshCall(g, W, s[i], Awaited(s, i, {n}))
  BY DEF FreshCalls
<1>2. CASE i < Len(s)
  BY <1>1, <1>2 DEF Awaited
<1>3. CASE i = Len(s)
  <2>1. Awaited(s, i, {}) = {} /\ Awaited(s, i, {n}) = {n}
    BY <1>3 DEF Awaited
  <2>2. Adjacent(s[i], f) /\ f.node = n
    BY <1>3 DEF NodeOf, Inside
  <2>3. s[i].op # "body" /\ (s[i].op \in {"get", "open"} => s[i].node = n)
    BY <2>2 DEF Adjacent
  <2> QED
    BY <1>1, <2>1, <2>3 DEF FreshCall, FreshPull, FreshRead
<1> QED
  BY <1>2, <1>3

(* A node is declared Clean: its pull or its run returns.  g is before the *)
(* step, h after it.                                                       *)
LEMMA FreshSettle ==
  ASSUME Acyclic, NEW g \in Graphs, NEW h \in Graphs, NEW Q, NEW s \in Seq(Frame), NEW f \in Frame,
         NEW n \in Nodes, f.node = n, f.op \in {"pull", "body"},
         CallsIn(Append(s, f)), DeferredIn(Append(s, f)), OrderedIn(Append(s, f)),
         FreshIn(g, Append(s, f), Q),
         \A m \in Observers : g.confirmed[m] \subseteq g.deps[m] /\ g.deps[m] \subseteq Reads(m),
         h.state[n] = Clean,
         \A x \in Nodes \ {n} : h.state[x] = g.state[x] \/ (h.state[x] = Dirty /\ g.state[x] # Clean),
         \A m \in Observers \ {n} : h.deps[m] = g.deps[m],
         n \in Observers => /\ h.deps[n] \subseteq g.deps[n] /\ \A d \in h.deps[n] : g.state[d] = Clean
                            /\ \A p \in g.seen[n] : Current(g, {}, p),
         h.confirmed = g.confirmed, h.seen = g.seen,
         \A x \in Sources \ {n} : h.value[x] = g.value[x],
         n \in Sources =>
           /\ h.value[n] # None
           /\ h.value[n] # g.value[n] =>
                g.state[n] = Dirty /\ \A m \in Observers \ {n} : n \in g.deps[m] => h.state[m] = Dirty
  PROVE  FreshIn(h, s, Q)
<1> DEFINE u == Append(s, f)
<1>1. /\ MarksIn(s) = {} /\ MarksIn(u) = {} /\ OutIn(s) = {} /\ OutIn(u) = {}
      /\ \A i \in DOMAIN s : s[i].op # "notify"
  BY QuietBelow
<1>2. /\ Spread(g, {}) /\ Sound(g, {}, {}) /\ Valued(g, {}) /\ FreshCalls(g, {}, u, {})
      /\ Queued(g, u, Q)
  BY <1>1 DEF FreshIn
<1>3. On(s, f) /\ Beneath(s, f)
  <2>1. u \in Seq(Frame) /\ u # <<>> /\ u[Len(u)] = f /\ SubSeq(u, 1, Len(u) - 1) = s
    BY PushIndex
  <2>2. OrderedIn(u)
    OBVIOUS
  <2> HIDE DEF u
  <2>3. Beneath(s, f)
    BY <2>1, <2>2, OrderPop
  <2> QED
    BY <2>3, CallsPushed
<1>4. /\ g.seen \in [Observers -> SUBSET (Sources \X Values)]
      /\ g.deps \in [Observers -> SUBSET Sources] /\ h.deps \in [Observers -> SUBSET Sources]
      /\ g.confirmed \in [Observers -> SUBSET Sources]
      /\ g.state \in [Nodes -> {Clean, Check, Dirty}] /\ h.state \in [Nodes -> {Clean, Check, Dirty}]
      /\ Sources \subseteq Nodes /\ Observers \subseteq Nodes /\ Effects \subseteq Nodes
  BY DEF Graphs, Nodes, Sources, Observers
(* What was Clean remains so, and what was not Clean does, apart from n. *)
<1>5. \A x \in Nodes : g.state[x] = Clean => h.state[x] = Clean
  OBVIOUS
<1>6. \A x \in Nodes \ {n} : /\ h.state[x] = Clean => g.state[x] = Clean
                             /\ h.state[x] # Dirty => g.state[x] # Dirty
  BY DEF Clean, Dirty
<1>7. ASSUME NEW m \in Observers, NEW p \in g.seen[m]
      PROVE  /\ p[1] \in Sources /\ p[1] \in g.deps[m] /\ (m = n => p[1] # n)
  <2>1. p[1] \in g.confirmed[m] /\ p[1] \in Sources
    BY <1>2, <1>4, <1>7 DEF Sound
  <2>2. p[1] \in g.deps[m] /\ p[1] \in Reads(m)
    BY <2>1
  <2>3. Rank[p[1]] < Rank[m] /\ Rank[m] \in Nat
    BY <1>4, <2>2, RankOrders
  <2> QED
    BY <2>1, <2>2, <2>3
<1> HIDE DEF u
<1>8. Spread(h, {})
  <2> SUFFICES ASSUME NEW m \in Observers, NEW d \in h.deps[m], h.state[d] # Clean, h.state[m] = Clean
               PROVE  FALSE
    BY DEF Spread
  <2>1. d \in Nodes /\ m \in Nodes /\ d # n
    BY <1>4
  <2>2. CASE m = n
    BY <1>5, <2>1, <2>2
  <2>3. CASE m # n
    <3>1. d \in g.deps[m] /\ g.state[m] = Clean
      BY <1>6, <2>1, <2>3
    <3>2. g.state[d] = Clean
      BY <1>2, <3>1 DEF Spread
    <3> QED
      BY <1>5, <2>1, <3>2
  <2> QED
    BY <2>2, <2>3
<1>9. ASSUME NEW m \in Observers, NEW p \in g.seen[m], Current(g, {}, p), m # n => h.state[m] # Dirty
      PROVE  Current(h, {}, p)
  <2>1. p[1] \in Sources /\ p[1] \in g.deps[m] /\ (m = n => p[1] # n)
    BY <1>7, <1>9
  <2>2. CASE p[1] # n
    BY <1>9, <2>1, <2>2 DEF Current
  <2>3. CASE p[1] = n
    BY <1>9, <2>1, <2>3 DEF Current
  <2> QED
    BY <2>2, <2>3
<1>10. Sound(h, {}, {})
  <2> SUFFICES ASSUME NEW m \in Observers, NEW p \in h.seen[m]
               PROVE  p[1] \in h.confirmed[m] /\ (h.state[m] # Dirty => Current(h, {}, p))
    BY DEF Sound
  <2>1. p \in g.seen[m] /\ p[1] \in h.confirmed[m]
    BY <1>2 DEF Sound
  <2>2. ASSUME h.state[m] # Dirty
        PROVE  Current(g, {}, p)
    <3>1. CASE m = n
      BY <2>1, <3>1
    <3>2. CASE m # n
      BY <1>2, <1>4, <1>6, <2>1, <2>2, <3>2 DEF Sound
    <3> QED
      BY <3>1, <3>2
  <2> QED
    BY <1>9, <2>1, <2>2
<1>11. Valued(h, {})
  <2> SUFFICES ASSUME NEW d \in Sources, h.value[d] = None
               PROVE  h.state[d] = Dirty
    BY DEF Valued
  <2>1. d # n /\ g.value[d] = None
    OBVIOUS
  <2>2. g.state[d] = Dirty
    BY <1>2, <2>1 DEF Valued
  <2> QED
    BY <1>4, <2>1, <2>2
<1>12. Queued(h, s, Q)
  <2> SUFFICES ASSUME NEW e \in Effects, h.state[e] # Clean
               PROVE  e \in Q \cup ActiveIn(s)
    BY DEF Queued
  <2>1. e # n /\ g.state[e] # Clean
    BY <1>4, <1>5
  <2>2. e \in Q \cup ActiveIn(u)
    BY <1>2, <2>1 DEF Queued
  <2> QED
    BY <2>1, <2>2, ActivePush DEF u
<1>13. FreshCalls(g, {}, s, NodeOf(f)) /\ NodeOf(f) = {n}
  <2>1. FreshCalls(g, {}, Append(s, f), {})
    BY <1>2 DEF u
  <2> QED
    BY <2>1, FreshCallsPop DEF NodeOf, Inside
<1>14. FreshCalls(h, {}, s, {n})
  <2>1. ASSUME NEW i \in DOMAIN s, NEW Y, FreshCall(g, {}, s[i], Y)
        PROVE  FreshCall(h, {}, s[i], Y)
    <3>1. s[i] \in Frame /\ Lower(s[i], f) /\ s[i].op # "notify"
      BY <1>1, <1>3, <2>1 DEF Beneath
    <3> DEFINE b == s[i]
               m == b.node
    <3>2. b.op \in {"pull", "body"} => m \in Nodes /\ m # n
      <4>1. b.op \in {"pull", "body"} => m \in Nodes
        BY <1>4, <3>1 DEF Frame, WellFormed
      <4>2. m \in Nodes => Rank[m] \in Nat
        BY RankOrders
      <4>3. b.op \in {"pull", "body"} => Rank[n] < Rank[m]
        BY <3>1 DEF Lower
      <4> QED
        BY <4>1, <4>2, <4>3
    <3>3. b.op \in {"get", "open"} => m \in Nodes
      BY <1>4, <3>1 DEF Frame, WellFormed
    <3>4. b.op = "body" => m \in Observers
      BY <3>1 DEF Frame, WellFormed
    <3>5. FreshCall(g, {}, b, Y) /\ b.op # "notify"
      BY <2>1, <3>1
    <3> HIDE DEF b
    <3>6. b.op = "pull" => FreshPull(h, b, Y)
      BY <1>4, <1>5, <1>6, <3>2, <3>5 DEF FreshCall, FreshPull
    <3>7. b.op \in {"get", "open"} => FreshRead(h, b, Y)
      BY <1>5, <3>3, <3>5 DEF FreshCall, FreshRead
    <3>8. b.op = "body" => FreshBody(h, {}, b, Y)
      <4> SUFFICES ASSUME b.op = "body"
                   PROVE  FreshBody(h, {}, b, Y)
        OBVIOUS
      <4>1. FreshBody(g, {}, b, Y) /\ m # n /\ m \in Observers
        BY <3>2, <3>4, <3>5 DEF FreshCall
      <4>2. h.state[m] = Dirty
        BY <1>4, <4>1 DEF FreshBody
      <4>3. ASSUME NEW p \in g.seen[m]
            PROVE  Current(h, {}, p) /\ h.state[p[1]] = Clean
        <5>1. Current(g, {}, p) /\ g.state[p[1]] = Clean /\ p[1] \in Sources
          BY <1>7, <4>1, <4>3 DEF FreshBody
        <5>2. p[1] = n => h.value[n] = g.value[n]
          BY <5>1 DEF Clean, Dirty
        <5>3. h.value[p[1]] = g.value[p[1]]
          BY <5>1, <5>2
        <5> QED
          BY <1>4, <1>5, <5>1, <5>3 DEF Current
      <4> QED
        BY <4>1, <4>2, <4>3 DEF FreshBody
    <3> QED
      BY <3>5, <3>6, <3>7, <3>8 DEF FreshCall, b
  <2> QED
    BY <1>13, <2>1, FreshCallsKeep
<1>15. FreshCalls(h, {}, s, {})
  <2>1. NodeOf(f) = {n} /\ f.op \in {"pull", "body"} /\ h.state[n] = Clean
    BY <1>13
  <2>2. s # <<>> => Adjacent(s[Len(s)], f)
    BY <1>3 DEF On
  <2> QED
    BY <1>14, <2>1, <2>2, FreshCallsBack
<1> QED
  BY <1>1, <1>8, <1>10, <1>11, <1>12, <1>15 DEF FreshIn

(* The call of a closure of an observer: the closure runs below.           *)
LEMMA ReadBy ==
  ASSUME NEW s \in Seq(Frame), NEW f \in Frame, CallsIn(Append(s, f)), f.op \in {"get", "open"}
  PROVE  /\ f.obs = None => \A i \in DOMAIN s : s[i].op \notin Inside
         /\ f.obs # None =>
              /\ s # <<>> /\ f.obs \in Observers
              /\ s[Len(s)].op = "body" /\ s[Len(s)].node = f.obs
<1>1. On(s, f) /\ CallsIn(s)
  BY CallsPushed
<1>2. Main \notin Observers /\ Tick \notin Observers /\ None \notin Code
  BY ProgramAssumption DEF Nodes, Sources, Observers
<1>3. f.by \in Code /\ f.obs = IF f.by \in UserCode THEN None ELSE f.by
  BY <1>1 DEF On, FrameOK, Frame, Frames
<1>4. CASE f.obs = None
  <2>1. f.by \notin Observers
    BY <1>2, <1>3, <1>4 DEF UserCode
  <2> QED
    BY <1>1, <1>4, <2>1 DEF On, Above, Inside
<1>5. CASE f.obs # None
  <2>1. f.by \in Observers /\ f.obs = f.by
    BY <1>3, <1>5 DEF UserCode, Code
  <2>2. s # <<>>
    BY <1>1, <1>2, <2>1 DEF On, ByUser
  <2> DEFINE b == s[Len(s)]
  <2>3. Len(s) \in DOMAIN s /\ b \in Frame
    BY <2>2
  <2>4. b.op \in UserOps /\ b.by = f.by /\ Above(b, f) /\ FrameOK(b)
    BY <1>1, <2>2, <2>3 DEF On, Adjacent, ByUser, CallsIn
  <2> HIDE DEF b
  <2>5. b.op = "body"
    BY <1>2, <2>1, <2>4 DEF UserOps, Above, FrameOK, UserCode
  <2>6. b.node = b.by
    BY <2>3, <2>5 DEF Frame, WellFormed
  <2> QED
    BY <1>5, <2>1, <2>2, <2>4, <2>5, <2>6 DEF b
<1> QED
  BY <1>4, <1>5

(* The value is delivered, and may be taken out. *)
(* The value v of d, taken out of its node. *)
Lent(d, v) == {<<d, v>>}

(* The read f delivers the value of d, and takes out V. *)
Delivers(g, h, f, d, V) ==
  /\ f.node = d /\ f.op \in {"get", "open"}
  /\ g.value[d] # None /\ h.state = g.state /\ h.deps = g.deps /\ h.confirmed = g.confirmed
  /\ h.seen = IF f.obs = None THEN g.seen
              ELSE [g.seen EXCEPT ![f.obs] = @ \cup {<<d, g.value[d]>>}]
  /\ \/ V = {} /\ h.value = g.value
     \/ /\ V = Lent(d, g.value[d])
        /\ h.value[d] = None /\ \A x \in Sources \ {d} : h.value[x] = g.value[x]

LEMMA FreshDeliver ==
  ASSUME Acyclic, NEW g \in Graphs, NEW h \in Graphs, NEW V, NEW Q, NEW s \in Seq(Frame),
         NEW f \in Frame, NEW d \in Sources, Delivers(g, h, f, d, V),
         CallsIn(Append(s, f)), DeferredIn(Append(s, f)), OrderedIn(Append(s, f)),
         FreshIn(g, Append(s, f), Q)
  PROVE  /\ OutIn(s) = {} /\ MarksIn(s) = {}
         /\ Spread(h, {}) /\ Sound(h, {}, V) /\ Valued(h, V) /\ FreshCalls(h, V, s, {})
         /\ Queued(h, s, Q)
<1> USE DEF Lent, Delivers
<1> DEFINE u == Append(s, f)
           new == <<d, g.value[d]>>
<1>1. /\ MarksIn(s) = {} /\ MarksIn(u) = {} /\ OutIn(s) = {} /\ OutIn(u) = {}
      /\ \A i \in DOMAIN s : s[i].op # "notify"
  BY QuietBelow
<1>2. /\ Spread(g, {}) /\ Sound(g, {}, {}) /\ Valued(g, {}) /\ FreshCalls(g, {}, u, {})
      /\ Queued(g, u, Q)
  BY <1>1 DEF FreshIn
<1>3. Beneath(s, f)
  <2>1. u \in Seq(Frame) /\ u # <<>> /\ u[Len(u)] = f /\ SubSeq(u, 1, Len(u) - 1) = s
    BY PushIndex
  <2>2. OrderedIn(u)
    OBVIOUS
  <2> HIDE DEF u
  <2> QED
    BY <2>1, <2>2, OrderPop
<1>4. FreshCalls(g, {}, s, {d}) /\ FreshRead(g, f, {})
  <2>1. FreshCalls(g, {}, Append(s, f), {}) /\ NodeOf(f) = {d}
    BY <1>2 DEF u, NodeOf, Inside
  <2>2. FreshCalls(g, {}, s, NodeOf(f)) /\ FreshCall(g, {}, f, {})
    BY <2>1, FreshCallsPop
  <2> QED
    BY <2>1, <2>2 DEF FreshCall
<1>5. Queued(h, s, Q)
  BY <1>2, ActivePush DEF Queued, u
<1> HIDE DEF u
<1>6. /\ g.seen \in [Observers -> SUBSET (Sources \X Values)]
      /\ g.value \in [Sources -> Values \cup {None}]
  BY DEF Graphs
<1>7. f.obs # None => f.obs \in Observers
  BY ReadBy
<1>8. \A m \in Observers : \A p \in h.seen[m] : p \in g.seen[m] \/ (p = new /\ m = f.obs /\ f.obs # None)
  BY <1>6, <1>7
<1>9. \A p \in Sources \X Values : Current(g, {}, p) => Current(h, V, p)
  <2> SUFFICES ASSUME NEW p \in Sources \X Values, g.value[p[1]] = p[2]
               PROVE  Current(h, V, p)
    BY DEF Current
  <2>1. p = <<p[1], p[2]>> /\ p[1] \in Sources
    OBVIOUS
  <2>2. CASE p[1] = d
    BY <1>6, <2>1, <2>2 DEF Current
  <2>3. CASE p[1] # d
    BY <1>6, <2>1, <2>3 DEF Current
  <2> QED
    BY <2>2, <2>3
<1>10. Current(h, V, new) /\ new[1] = d /\ new \in Sources \X Values
  <2>1. g.value[d] \in Values
    BY <1>6
  <2>2. Current(g, {}, new)
    BY DEF Current
  <2> QED
    BY <1>9, <2>1, <2>2
<1>11. g.state[d] = Clean /\ (f.obs # None => d \in g.confirmed[f.obs])
  BY <1>4 DEF FreshRead
<1> HIDE DEF new
<1>12. Spread(h, {})
  BY <1>2 DEF Spread
<1>13. Sound(h, {}, V)
  <2> SUFFICES ASSUME NEW m \in Observers, NEW p \in h.seen[m]
               PROVE  p[1] \in h.confirmed[m] /\ (h.state[m] # Dirty => Current(h, V, p))
    BY DEF Sound
  <2>1. CASE p \in g.seen[m]
    <3>1. p \in Sources \X Values
      BY <1>6, <2>1
    <3> QED
      BY <1>2, <1>9, <2>1, <3>1 DEF Sound
  <2>2. CASE p = new /\ m = f.obs /\ f.obs # None
    BY <1>10, <1>11, <2>2
  <2> QED
    BY <1>8, <2>1, <2>2
<1>14. Valued(h, V)
  <2> SUFFICES ASSUME NEW x \in Sources
               PROVE  /\ h.value[x] = None => h.state[x] = Dirty \/ \E v \in Values : <<x, v>> \in V
                      /\ \A v \in Values : <<x, v>> \in V => h.value[x] = None
    BY DEF Valued
  <2>1. g.value[x] = None => g.state[x] = Dirty
    BY <1>2 DEF Valued
  <2>2. g.value[d] \in Values
    BY <1>6
  <2>3. CASE V = {} /\ h.value = g.value
    BY <2>1, <2>3
  <2>4. CASE /\ V = {<<d, g.value[d]>>}
             /\ h.value[d] = None /\ \A y \in Sources \ {d} : h.value[y] = g.value[y]
    BY <1>6, <2>1, <2>2, <2>4
  <2> QED
    BY <2>3, <2>4
<1>15. FreshCalls(h, V, s, {})
  <2>1. CASE f.obs = None
    BY <1>1, <2>1, ReadBy, FreshCallsOutside
  <2>2. CASE f.obs # None
    <3> DEFINE o == f.obs
               t == SubSeq(s, 1, Len(s) - 1)
               b == s[Len(s)]
    <3>1. s # <<>> /\ o \in Observers /\ b.op = "body" /\ b.node = o
      BY <2>2, ReadBy
    <3>2. t \in Seq(Frame) /\ b \in Frame /\ s = Append(t, b)
      BY <3>1, PushPop
    <3>3. \A i \in DOMAIN t : Lower(t[i], b)
      <4>1. OrderedIn(s)
        <5>1. Append(s, f) \in Seq(Frame) /\ Append(s, f) # <<>>
              /\ SubSeq(Append(s, f), 1, Len(Append(s, f)) - 1) = s
          BY PushIndex
        <5> QED
          BY <5>1, OrderPop
      <4> QED
        BY <3>1, <4>1, OrderPop DEF Beneath
    <3> HIDE DEF t, b
    <3>4. FreshCalls(g, {}, t, NodeOf(b)) /\ FreshCall(g, {}, b, {d})
      BY <1>4, <3>2, FreshCallsPop
    <3>5. FreshCall(h, V, b, {})
      <4>1. FreshBody(g, {}, b, {d})
        BY <3>1, <3>4 DEF FreshCall
      <4>2. new \in h.seen[o] /\ g.seen[o] \subseteq h.seen[o]
        BY <1>6, <2>2, <3>1 DEF new
      <4>3. ASSUME NEW p \in h.seen[o]
            PROVE  Current(h, V, p) /\ h.state[p[1]] = Clean
        <5>1. CASE p \in g.seen[o]
          <6>1. p \in Sources \X Values
            BY <1>6, <3>1, <5>1
          <6> QED
            BY <1>9, <3>1, <4>1, <5>1, <6>1 DEF FreshBody
        <5>2. CASE p = new
          BY <1>10, <1>11, <5>2
        <5> QED
          BY <1>8, <3>1, <5>1, <5>2
      <4>4. ASSUME NEW c \in h.confirmed[o]
            PROVE  \E p \in h.seen[o] : p[1] = c
        <5>1. CASE c = d
          BY <1>10, <4>2, <5>1
        <5>2. CASE c # d
          BY <3>1, <4>1, <4>2, <4>4, <5>2 DEF FreshBody
        <5> QED
          BY <5>1, <5>2
      <4>5. h.state[o] = Dirty
        BY <3>1, <4>1 DEF FreshBody
      <4>6. FreshBody(h, V, b, {})
        BY <3>1, <4>3, <4>4, <4>5 DEF FreshBody
      <4> QED
        BY <3>1, <4>6 DEF FreshCall
    <3>6. ASSUME NEW i \in DOMAIN t, NEW Y, FreshCall(g, {}, t[i], Y)
          PROVE  FreshCall(h, V, t[i], Y)
      <4> DEFINE e == t[i]
                 m == e.node
      <4>1. e \in Frame /\ Lower(e, b) /\ FreshCall(g, {}, e, Y)
        BY <3>2, <3>3, <3>6
      <4>2. e.op = "body" => m \in Observers
        BY <4>1 DEF Frame, WellFormed
      <4>3. e.op = "body" => m # o
        <5>1. Rank[o] \in Nat
          BY <3>1, RankOrders DEF Nodes, Observers, Sources
        <5> QED
          BY <3>1, <4>1, <5>1 DEF Lower
      <4> HIDE DEF e
      <4>4. e.op = "body" => FreshBody(h, V, e, Y)
        <5> SUFFICES ASSUME e.op = "body"
                     PROVE  FreshBody(h, V, e, Y)
          OBVIOUS
        <5>1. FreshBody(g, {}, e, Y) /\ h.seen[m] = g.seen[m]
          BY <1>6, <3>1, <4>1, <4>2, <4>3 DEF FreshCall
        <5>2. g.seen[m] \subseteq Sources \X Values
          BY <1>6, <4>2
        <5> QED
          BY <1>9, <5>1, <5>2 DEF FreshBody
      <4> QED
        BY <4>1, <4>4 DEF FreshCall, FreshPull, FreshRead, FreshNotify, e
    <3>7. FreshCalls(h, V, t, NodeOf(b))
      BY <3>2, <3>4, <3>6, FreshCallsKeep
    <3> QED
      BY <3>2, <3>5, <3>7, FreshCallsPush
  <2> QED
    BY <2>1, <2>2
<1> QED
  BY <1>1, <1>5, <1>12, <1>13, <1>14, <1>15

(* A read begins: its source is recorded, and pulled. *)
LEMMA FreshReading ==
  ASSUME Acyclic, NEW g \in Graphs, NEW h \in Graphs, NEW Q, NEW s \in Seq(Frame),
         NEW f \in Frame, NEW e \in Frame, NEW d \in Sources,
         f.node = d, f.op \in {"get", "open"}, f.obs # None => d \in Reads(f.obs),
         e.op = "pull", e.node = d, e.todo = IF g.state[d] = Check THEN g.deps[d] ELSE {},
         CallsIn(Append(Append(s, f), e)), DeferredIn(Append(s, f)), OrderedIn(s),
         FreshIn(g, s, Q), h.value = g.value, h.state = g.state, h.seen = g.seen,
         h.deps = IF f.obs = None THEN g.deps ELSE [g.deps EXCEPT ![f.obs] = @ \cup {d}],
         h.confirmed = IF f.obs = None THEN g.confirmed
                       ELSE [g.confirmed EXCEPT ![f.obs] = @ \cup {d}]
  PROVE  FreshIn(h, Append(Append(s, f), e), Q)
<1> DEFINE r == Append(s, f)
<1>1. r \in Seq(Frame) /\ CallsIn(r)
  <2>1. r \in Seq(Frame) /\ CallsIn(Append(r, e))
    OBVIOUS
  <2> HIDE DEF r
  <2> QED
    BY <2>1, CallsPushed
<1>2. /\ MarksIn(s) = {} /\ OutIn(s) = {} /\ MarksIn(r) = {} /\ OutIn(r) = {}
      /\ \A i \in DOMAIN s : s[i].op # "notify"
  BY <1>1, QuietBelow
<1>3. /\ Spread(g, {}) /\ Sound(g, {}, {}) /\ Valued(g, {}) /\ FreshCalls(g, {}, s, {})
      /\ Queued(g, s, Q)
  BY <1>2 DEF FreshIn
<1>4. MarksIn(Append(r, e)) = {} /\ OutIn(Append(r, e)) = {}
  <2>1. On(r, e)
    BY <1>1, CallsPushed
  <2>2. e.marks = {}
    BY <2>1 DEF On, FrameOK
  <2> HIDE DEF r
  <2>3. MarksIn(Append(r, e)) = MarksIn(r) \cup e.marks /\ OutIn(Append(r, e)) = OutIn(r)
    BY <1>1, MarksPush
  <2> QED
    BY <1>2, <2>2, <2>3
<1>5. Queued(h, Append(r, e), Q)
  <2>1. ActiveIn(s) \subseteq ActiveIn(r)
    BY ActivePush
  <2>2. ActiveIn(r) \subseteq ActiveIn(Append(r, e))
    BY <1>1, ActivePush
  <2> HIDE DEF r
  <2> QED
    BY <1>3, <2>1, <2>2 DEF Queued
<1> HIDE DEF r
<1>6. /\ g.deps \in [Observers -> SUBSET Sources] /\ g.confirmed \in [Observers -> SUBSET Sources]
      /\ g.state \in [Nodes -> {Clean, Check, Dirty}] /\ d \in Nodes
  BY DEF Graphs, Nodes
<1>7. f.obs # None => /\ s # <<>> /\ f.obs \in Observers
                      /\ s[Len(s)].op = "body" /\ s[Len(s)].node = f.obs
  BY <1>1, ReadBy DEF r
<1>8. f.obs # None => g.state[f.obs] = Dirty
  <2> SUFFICES ASSUME f.obs # None
               PROVE  g.state[f.obs] = Dirty
    OBVIOUS
  <2>1. Len(s) \in DOMAIN s
    BY <1>7
  <2> QED
    BY <1>3, <1>7, <2>1 DEF FreshCalls, FreshCall, FreshBody
<1>9. \A m \in Observers : /\ g.confirmed[m] \subseteq h.confirmed[m]
                           /\ m # f.obs => h.deps[m] = g.deps[m] /\ h.confirmed[m] = g.confirmed[m]
                           /\ h.deps[m] \subseteq g.deps[m] \cup {d}
                           /\ h.confirmed[m] \subseteq g.confirmed[m] \cup {d}
  BY <1>6, <1>7
<1>10. f.obs # None => d \in h.confirmed[f.obs]
  BY <1>6, <1>7
<1>11. Spread(h, {})
  BY <1>3, <1>8, <1>9 DEF Spread, Clean, Dirty
<1>12. Sound(h, {}, {})
  BY <1>3, <1>9 DEF Sound, Current
<1>13. Valued(h, {})
  BY <1>3 DEF Valued
<1>14. FreshCalls(h, {}, s, {d})
  <2>1. CASE f.obs = None
    <3>1. \A i \in DOMAIN s : s[i].op \notin Inside
      BY <1>1, <2>1, ReadBy DEF r
    <3> QED
      BY <1>2, <3>1, FreshCallsOutside
  <2>2. CASE f.obs # None
    <3> DEFINE o == f.obs
               t == SubSeq(s, 1, Len(s) - 1)
               b == s[Len(s)]
    <3>1. s # <<>> /\ o \in Observers /\ b.op = "body" /\ b.node = o
      BY <1>7, <2>2
    <3>2. t \in Seq(Frame) /\ b \in Frame /\ s = Append(t, b)
      BY <3>1, PushPop
    <3>3. \A i \in DOMAIN t : Lower(t[i], b)
      BY <3>1, OrderPop DEF Beneath
    <3> HIDE DEF t, b
    <3>4. FreshCalls(g, {}, t, NodeOf(b)) /\ FreshCall(g, {}, b, {})
      BY <1>3, <3>2, FreshCallsPop
    <3>5. FreshCall(h, {}, b, {d})
      BY <1>9, <3>1, <3>4 DEF FreshCall, FreshBody, Current
    <3>6. ASSUME NEW i \in DOMAIN t, NEW Y, FreshCall(g, {}, t[i], Y)
          PROVE  FreshCall(h, {}, t[i], Y)
      <4> DEFINE c == t[i]
                 m == c.node
      <4>1. c \in Frame /\ Lower(c, b) /\ FreshCall(g, {}, c, Y)
        BY <3>2, <3>3, <3>6
      <4>2. /\ c.op = "body" => m \in Observers
            /\ c.op \in {"get", "open"} => c.obs = None \/ c.obs \in Observers
            /\ c.op # "notify"
        <5>1. /\ c.op = "body" => m \in Observers
              /\ c.op \in {"get", "open"} => c.obs = None \/ c.obs \in Observers
          BY <4>1 DEF Frame, WellFormed, Frames
        <5>2. c.op # "notify"
          BY <1>2, <3>2, PushIndex
        <5> QED
          BY <5>1, <5>2
      <4>3. c.op = "body" => m # o
        <5>1. Rank[o] \in Nat
          BY <3>1, RankOrders DEF Nodes, Observers, Sources
        <5> QED
          BY <3>1, <4>1, <5>1 DEF Lower
      <4> HIDE DEF c
      <4>4. c.op = "body" => FreshBody(h, {}, c, Y)
        BY <1>9, <4>1, <4>2, <4>3 DEF FreshCall, FreshBody, Current
      <4>5. c.op = "pull" => FreshPull(h, c, Y)
        BY <1>8, <1>9, <2>2, <4>1 DEF FreshCall, FreshPull
      <4>6. c.op \in {"get", "open"} => FreshRead(h, c, Y)
        BY <1>9, <4>1, <4>2 DEF FreshCall, FreshRead
      <4> QED
        BY <4>2, <4>4, <4>5, <4>6 DEF FreshCall, c
    <3>7. FreshCalls(h, {}, t, NodeOf(b))
      BY <3>2, <3>4, <3>6, FreshCallsKeep
    <3> QED
      BY <3>2, <3>5, <3>7, FreshCallsPush
  <2> QED
    BY <2>1, <2>2
<1>15. FreshCalls(h, {}, r, {d})
  <2>1. FreshCall(h, {}, f, {d}) /\ NodeOf(f) = {d}
    BY <1>10 DEF FreshCall, FreshRead, NodeOf, Inside
  <2> QED
    BY <1>14, <2>1, FreshCallsPush DEF r
<1>16. FreshCalls(h, {}, Append(r, e), {})
  <2>1. d \in Observers => h.deps[d] = g.deps[d]
    <3>1. f.obs # None => d # f.obs
      <4> SUFFICES ASSUME f.obs # None
                   PROVE  d # f.obs
        OBVIOUS
      <4>1. f.obs \in Observers /\ d \in Reads(f.obs) /\ f.obs \in Nodes
        BY <1>7 DEF Nodes, Observers, Sources
      <4>2. Rank[d] < Rank[f.obs] /\ Rank[d] \in Nat
        BY <1>6, <4>1, RankOrders
      <4> QED
        BY <4>2
    <3> QED
      BY <1>9, <3>1, ProgramAssumption
  <2>2. FreshCall(h, {}, e, {})
    <3>1. CASE d \in Observers
      <4>1. e.todo = IF h.state[e.node] = Check THEN h.deps[e.node] ELSE {}
        BY <2>1, <3>1
      <4> QED
        BY <1>6, <1>11, <4>1, FreshPullBegins
    <3>2. CASE d \notin Observers
      BY <3>2 DEF FreshCall, FreshPull
    <3> QED
      BY <3>1, <3>2
  <2>3. NodeOf(e) = {d}
    BY DEF NodeOf, Inside
  <2> QED
    BY <1>1, <1>15, <2>2, <2>3, FreshCallsPush
<1> QED
  BY <1>4, <1>5, <1>11, <1>12, <1>13, <1>16 DEF FreshIn, r

(* A run begins. *)
LEMMA FreshRun ==
  ASSUME Acyclic, NEW g \in Graphs, NEW h \in Graphs, NEW Q, NEW s \in Seq(Frame),
         NEW f \in Frame, NEW e \in Frame, NEW n \in Observers,
         f.op = "pull", f.node = n, e.op = "body", e.node = n, e.marks = {}, g.state[n] = Dirty,
         CallsIn(Append(s, f)), DeferredIn(Append(s, f)), OrderedIn(Append(s, f)),
         \A m \in Observers : g.confirmed[m] \subseteq g.deps[m] /\ g.deps[m] \subseteq Reads(m),
         FreshIn(g, Append(s, f), Q), h.value = g.value, h.state = g.state, h.deps = g.deps,
         h.confirmed = [g.confirmed EXCEPT ![n] = {}], h.seen = [g.seen EXCEPT ![n] = {}]
  PROVE  FreshIn(h, Append(s, e), Q)
<1> DEFINE u == Append(s, f)
<1>1. /\ MarksIn(s) = {} /\ MarksIn(u) = {} /\ OutIn(s) = {} /\ OutIn(u) = {}
      /\ \A i \in DOMAIN s : s[i].op # "notify"
  BY QuietBelow
<1>2. /\ Spread(g, {}) /\ Sound(g, {}, {}) /\ Valued(g, {}) /\ FreshCalls(g, {}, u, {})
      /\ Queued(g, u, Q)
  BY <1>1 DEF FreshIn
<1>3. Beneath(s, f)
  <2>1. u \in Seq(Frame) /\ u # <<>> /\ u[Len(u)] = f /\ SubSeq(u, 1, Len(u) - 1) = s
    BY PushIndex
  <2>2. OrderedIn(u)
    OBVIOUS
  <2> HIDE DEF u
  <2> QED
    BY <2>1, <2>2, OrderPop
<1>4. FreshCalls(g, {}, s, {n})
  <2>1. FreshCalls(g, {}, Append(s, f), {}) /\ NodeOf(f) = {n}
    BY <1>2 DEF u, NodeOf, Inside
  <2>2. FreshCalls(g, {}, s, NodeOf(f))
    BY <2>1, FreshCallsPop
  <2> QED
    BY <2>1, <2>2
<1>5. Queued(h, Append(s, e), Q)
  BY <1>2, ActivePush DEF Queued, u
<1>6. MarksIn(Append(s, e)) = {} /\ OutIn(Append(s, e)) = {}
  BY <1>1, MarksPush
<1> HIDE DEF u
<1>7. /\ g.seen \in [Observers -> SUBSET (Sources \X Values)]
      /\ g.confirmed \in [Observers -> SUBSET Sources]
      /\ h.seen[n] = {} /\ h.confirmed[n] = {}
      /\ \A m \in Observers \ {n} : h.seen[m] = g.seen[m] /\ h.confirmed[m] = g.confirmed[m]
  BY DEF Graphs
<1>8. Spread(h, {}) /\ Valued(h, {})
  BY <1>2 DEF Spread, Valued
<1>9. Sound(h, {}, {})
  BY <1>2, <1>7 DEF Sound, Current
<1>10. FreshCalls(h, {}, s, {n})
  <2>1. ASSUME NEW i \in DOMAIN s, NEW Y, FreshCall(g, {}, s[i], Y)
        PROVE  FreshCall(h, {}, s[i], Y)
    <3> DEFINE b == s[i]
    <3>1. b \in Frame /\ Lower(b, f) /\ FreshCall(g, {}, b, Y) /\ b.op # "notify"
      BY <1>1, <1>3, <2>1 DEF Beneath
    <3>2. /\ b.op = "body" => b.node \in Observers
          /\ b.op \in {"get", "open"} => b.node \in Nodes /\ (b.obs = None \/ b.obs \in Observers)
      BY <3>1 DEF Frame, WellFormed, Frames, Nodes
    <3> HIDE DEF b
    <3>3. n \in Nodes /\ Rank[n] \in Nat /\ \A m \in Nodes : Rank[m] \in Nat
      BY RankOrders DEF Nodes, Observers, Sources
    <3>4. b.op = "body" => b.node # n
      BY <3>1, <3>3 DEF Lower
    <3>5. b.op = "body" => FreshBody(h, {}, b, Y)
      BY <1>7, <3>1, <3>2, <3>4 DEF FreshCall, FreshBody, Current
    <3>6. b.op = "pull" => FreshPull(h, b, Y)
      BY <3>1 DEF FreshCall, FreshPull
    <3>7. b.op \in {"get", "open"} => FreshRead(h, b, Y)
      <4> SUFFICES ASSUME b.op \in {"get", "open"}
                   PROVE  FreshRead(h, b, Y)
        OBVIOUS
      <4>1. FreshRead(g, b, Y)
        BY <3>1 DEF FreshCall
      <4>2. ASSUME b.obs = n
            PROVE  FALSE
        <5>1. n # None
          BY ProgramAssumption DEF Nodes, Observers, Sources
        <5>2. b.node \in g.confirmed[n]
          BY <4>1, <4>2, <5>1 DEF FreshRead
        <5>3. Rank[b.node] < Rank[n] /\ Rank[n] <= Rank[b.node]
          BY <3>1, <5>2, RankOrders DEF Lower
        <5> QED
          BY <3>2, <3>3, <5>3
      <4> QED
        BY <1>7, <3>2, <4>1, <4>2 DEF FreshRead
    <3> QED
      BY <3>1, <3>5, <3>6, <3>7 DEF FreshCall, b
  <2> QED
    BY <1>4, <2>1, FreshCallsKeep
<1>11. FreshCalls(h, {}, Append(s, e), {})
  <2>1. FreshCall(h, {}, e, {}) /\ NodeOf(e) = {n}
    BY <1>7 DEF FreshCall, FreshBody, NodeOf, Inside
  <2> QED
    BY <1>10, <2>1, FreshCallsPush
<1> QED
  BY <1>5, <1>6, <1>8, <1>9, <1>11 DEF FreshIn

(* A read closure returns: the value goes back into its node. *)
LEMMA FreshPutBack ==
  ASSUME NEW g \in Graphs, NEW h \in Graphs, NEW Q, NEW s \in Seq(Frame), NEW f \in Frame,
         f.op = "with", CallsIn(Append(s, f)), DeferredIn(Append(s, f)),
         FreshIn(g, Append(s, f), Q), h.value = [g.value EXCEPT ![f.node] = f.val],
         h.state = g.state, h.deps = g.deps, h.confirmed = g.confirmed, h.seen = g.seen
  PROVE  FreshIn(h, s, Q)
<1> DEFINE u == Append(s, f)
           d == f.node
           v == f.val
           V == {<<d, v>>}
<1>1. MarksIn(s) = {} /\ MarksIn(u) = {} /\ OutIn(s) = {}
  BY QuietBelow
<1>2. OutIn(u) = V
  BY <1>1, MarksPush
<1>3. /\ Spread(g, {}) /\ Sound(g, {}, V) /\ Valued(g, V) /\ FreshCalls(g, V, u, {})
      /\ Queued(g, u, Q)
  BY <1>1, <1>2 DEF FreshIn
<1>4. FreshCalls(g, V, s, {})
  <2>1. FreshCalls(g, V, Append(s, f), {}) /\ NodeOf(f) = {}
    BY <1>3 DEF NodeOf, Inside
  <2>2. FreshCalls(g, V, s, NodeOf(f))
    BY <2>1, FreshCallsPop
  <2> QED
    BY <2>1, <2>2
<1>5. Queued(h, s, Q)
  BY <1>3, ActivePush DEF Queued
<1> HIDE DEF u
<1>6. /\ g.seen \in [Observers -> SUBSET (Sources \X Values)]
      /\ g.value \in [Sources -> Values \cup {None}]
      /\ d \in Sources /\ v \in Values
  BY DEF Graphs, Frame, WellFormed
<1> HIDE DEF d, v
<1>7. g.value[d] = None /\ h.value[d] = v /\ \A x \in Sources \ {d} : h.value[x] = g.value[x]
  BY <1>3, <1>6 DEF Valued, d, v
<1>8. ASSUME NEW p \in Sources \X Values, Current(g, V, p)
      PROVE  Current(h, {}, p)
  <2>1. p[1] \in Sources /\ p[2] \in Values /\ p[2] # None
    BY ProgramAssumption
  <2>2. CASE p \in V
    BY <1>7, <2>2 DEF Current
  <2>3. CASE g.value[p[1]] = p[2]
    BY <1>7, <2>1, <2>3 DEF Current
  <2> QED
    BY <1>8, <2>2, <2>3 DEF Current
<1>9. Spread(h, {})
  BY <1>3 DEF Spread
<1>10. Sound(h, {}, {})
  <2> SUFFICES ASSUME NEW m \in Observers, NEW p \in h.seen[m]
               PROVE  p[1] \in h.confirmed[m] /\ (h.state[m] # Dirty => Current(h, {}, p))
    BY DEF Sound
  <2>1. p \in Sources \X Values
    BY <1>6
  <2> QED
    BY <1>3, <1>8, <2>1 DEF Sound
<1>11. Valued(h, {})
  <2> SUFFICES ASSUME NEW x \in Sources, h.value[x] = None
               PROVE  h.state[x] = Dirty
    BY DEF Valued
  <2>1. x # d /\ g.value[x] = None
    BY <1>6, <1>7, ProgramAssumption
  <2> QED
    BY <1>3, <2>1 DEF Valued
<1>12. FreshCalls(h, {}, s, {})
  <2>1. ASSUME NEW i \in DOMAIN s, NEW Y, FreshCall(g, V, s[i], Y)
        PROVE  FreshCall(h, {}, s[i], Y)
    <3> DEFINE b == s[i]
    <3>1. b \in Frame /\ FreshCall(g, V, b, Y)
      BY <2>1
    <3>2. b.op = "body" => b.node \in Observers
      BY <3>1 DEF Frame, WellFormed
    <3> HIDE DEF b
    <3>3. b.op = "body" => g.seen[b.node] \subseteq Sources \X Values
      BY <1>6, <3>2
    <3>4. b.op = "body" => FreshBody(h, {}, b, Y)
      BY <1>8, <3>1, <3>3 DEF FreshCall, FreshBody
    <3> QED
      BY <3>1, <3>4 DEF FreshCall, FreshPull, FreshRead, FreshNotify, b
  <2> QED
    BY <1>4, <2>1, FreshCallsKeep
<1> QED
  BY <1>1, <1>5, <1>9, <1>10, <1>11, <1>12 DEF FreshIn

(* A signal is written. *)
LEMMA FreshWrite ==
  ASSUME NEW g \in Graphs, NEW h \in Graphs, NEW Q, NEW s \in Seq(Frame), NEW f \in Frame,
         NEW d \in Sources, NEW v \in Values, f.op = "notify", f.node = d,
         f.marks = {x \in Observers : d \in g.deps[x]} \X {Dirty},
         CallsIn(Append(s, f)), DeferredIn(Append(s, f)),
         FreshIn(g, s, Q), g.value[d] # None, h.value = [g.value EXCEPT ![d] = v],
         h.state = g.state, h.deps = g.deps, h.confirmed = g.confirmed, h.seen = g.seen,
         \A m \in Observers : g.confirmed[m] \subseteq g.deps[m]
  PROVE  FreshIn(h, Append(s, f), Q)
<1>1. /\ MarksIn(s) = {} /\ \A i \in DOMAIN s : s[i].op # "notify"
  BY QuietBelow
<1>2. MarksIn(Append(s, f)) = f.marks /\ OutIn(Append(s, f)) = OutIn(s)
  BY <1>1, MarksPush
<1> DEFINE W == OutIn(s)
<1>3. Spread(g, {}) /\ Sound(g, {}, W) /\ Valued(g, W) /\ Queued(g, s, Q)
  BY <1>1 DEF FreshIn
<1> HIDE DEF W
<1>4. /\ g.seen \in [Observers -> SUBSET (Sources \X Values)]
      /\ g.value \in [Sources -> Values \cup {None}]
      /\ h.value[d] = v /\ \A x \in Sources \ {d} : h.value[x] = g.value[x]
  BY DEF Graphs
<1>5. Spread(h, f.marks)
  BY <1>3 DEF Spread
<1>6. Sound(h, f.marks, W)
  <2> SUFFICES ASSUME NEW m \in Observers, NEW p \in h.seen[m]
               PROVE  /\ p[1] \in h.confirmed[m]
                      /\ h.state[m] # Dirty /\ <<m, Dirty>> \notin f.marks => Current(h, W, p)
    BY DEF Sound
  <2>1. p[1] \in g.confirmed[m] /\ p[1] \in Sources
    BY <1>3, <1>4 DEF Sound
  <2>2. h.state[m] # Dirty => Current(g, W, p)
    BY <1>3 DEF Sound
  <2>3. p[1] = d => <<m, Dirty>> \in f.marks
    BY <2>1
  <2> QED
    BY <1>4, <2>1, <2>2, <2>3 DEF Current
<1>7. Valued(h, W)
  <2> SUFFICES ASSUME NEW x \in Sources
               PROVE  /\ h.value[x] = None => h.state[x] = Dirty \/ \E y \in Values : <<x, y>> \in W
                      /\ \A y \in Values : <<x, y>> \in W => h.value[x] = None
    BY DEF Valued
  <2>1. /\ g.value[x] = None => g.state[x] = Dirty \/ \E y \in Values : <<x, y>> \in W
        /\ \A y \in Values : <<x, y>> \in W => g.value[x] = None
    BY <1>3 DEF Valued
  <2>2. CASE x = d
    BY <1>4, <2>1, <2>2, ProgramAssumption
  <2>3. CASE x # d
    BY <1>4, <2>1, <2>3
  <2> QED
    BY <2>2, <2>3
<1>8. Queued(h, Append(s, f), Q)
  BY <1>3, ActivePush DEF Queued
<1>9. FreshCalls(h, W, Append(s, f), {})
  <2>1. FreshCall(h, W, f, {})
    BY DEF FreshCall, FreshNotify
  <2>2. \A i \in DOMAIN s : s[i].op \notin Inside
    BY OutsideBeneath DEF Inside
  <2>3. FreshCalls(h, W, s, NodeOf(f))
    BY <1>1, <2>2, FreshCallsOutside
  <2> QED
    BY <2>1, <2>3, FreshCallsPush
<1> QED
  BY <1>2, <1>5, <1>6, <1>7, <1>8, <1>9 DEF FreshIn, W

(* The calls of mark_stale that one for n and t makes. *)
Onward(g, n, t) ==
  IF g.state[n] < t THEN {<<x, Check>> : x \in {y \in Observers : n \in g.deps[y]}} ELSE {}

(* One call of mark_stale, with the queue Q before it and R after. *)
Marks(g, h, f, e, n, t, Q, R) ==
  /\ t \in {Check, Dirty}
  /\ f.op = "notify" /\ e.op = "notify" /\ e.node = f.node /\ <<n, t>> \in f.marks
  /\ e.marks = (f.marks \ {<<n, t>>}) \cup Onward(g, n, t)
  /\ h.state[n] = IF g.state[n] < t THEN t ELSE g.state[n]
  /\ \A x \in Nodes \ {n} : h.state[x] = g.state[x]
  /\ h.value = g.value /\ h.deps = g.deps /\ h.confirmed = g.confirmed /\ h.seen = g.seen
  /\ Q \subseteq R /\ (g.state[n] < t /\ g.state[n] = Clean /\ n \in Effects => n \in R)

LEMMA FreshMark ==
  ASSUME NEW g \in Graphs, NEW h \in Graphs, NEW Q, NEW R, NEW s \in Seq(Frame),
         NEW f \in Frame, NEW e \in Frame, NEW n \in Observers, NEW t,
         Marks(g, h, f, e, n, t, Q, R),
         CallsIn(Append(s, f)), DeferredIn(Append(s, f)), FreshIn(g, Append(s, f), Q)
  PROVE  FreshIn(h, Append(s, e), R)
<1> USE DEF Onward, Marks
<1> DEFINE W == OutIn(s)
<1>1. MarksIn(s) = {} /\ \A i \in DOMAIN s : s[i].op # "notify"
  BY QuietBelow
<1>2. /\ MarksIn(Append(s, f)) = f.marks /\ OutIn(Append(s, f)) = W
      /\ MarksIn(Append(s, e)) = e.marks /\ OutIn(Append(s, e)) = W
  <2>1. MarksIn(Append(s, f)) = f.marks /\ OutIn(Append(s, f)) = W
    <3>1. f.op # "with"
      OBVIOUS
    <3>2. MarksIn(Append(s, f)) = MarksIn(s) \cup f.marks /\ OutIn(Append(s, f)) = W
      BY <3>1, MarksPush
    <3> QED
      BY <1>1, <3>2
  <2>2. e.op # "with"
    OBVIOUS
  <2>3. MarksIn(Append(s, e)) = MarksIn(s) \cup e.marks /\ OutIn(Append(s, e)) = W
    BY <2>2, MarksPush
  <2> QED
    BY <1>1, <2>1, <2>3
<1>3. /\ Spread(g, f.marks) /\ Sound(g, f.marks, W) /\ Valued(g, W)
      /\ FreshCalls(g, W, Append(s, f), {}) /\ Queued(g, Append(s, f), Q)
  BY <1>2 DEF FreshIn
<1> HIDE DEF W
<1>4. /\ g.state \in [Nodes -> {Clean, Check, Dirty}] /\ n \in Nodes
      /\ Sources \subseteq Nodes /\ Observers \subseteq Nodes /\ Effects \subseteq Nodes
      /\ g.deps \in [Observers -> SUBSET Sources]
  BY DEF Graphs, Nodes, Sources, Observers
(* Nothing becomes less stale, and the node marked is at least t. *)
<1>5. /\ \A x \in Nodes \ {n} : h.state[x] = g.state[x]
      /\ h.state[n] \in {Check, Dirty} /\ (t = Dirty => h.state[n] = Dirty)
      /\ g.state[n] = Dirty => h.state[n] = Dirty
      /\ g.state[n] < t \/ h.state[n] = g.state[n]
  BY <1>4 DEF Clean, Check, Dirty
<1>6. \A m \in f.marks : m \in e.marks \/ m = <<n, t>>
  OBVIOUS
<1>7. g.state[n] < t => \A x \in Observers : n \in g.deps[x] => <<x, Check>> \in e.marks
  OBVIOUS
<1>8. Spread(h, e.marks)
  <2> SUFFICES ASSUME NEW m \in Observers, NEW d \in h.deps[m], h.state[d] # Clean, h.state[m] = Clean
               PROVE  \E y \in {Check, Dirty} : <<m, y>> \in e.marks
    BY DEF Spread
  <2>1. m # n /\ d \in Nodes /\ g.state[m] = Clean /\ d \in g.deps[m]
    BY <1>4, <1>5 DEF Clean, Check, Dirty
  <2>2. CASE g.state[d] # Clean
    <3>1. PICK y \in {Check, Dirty} : <<m, y>> \in f.marks
      BY <1>3, <2>1, <2>2 DEF Spread
    <3> QED
      BY <1>6, <2>1, <3>1
  <2>3. CASE g.state[d] = Clean
    <3>1. d = n /\ g.state[n] < t
      BY <1>5, <2>1, <2>3
    <3> QED
      BY <1>7, <2>1, <3>1
  <2> QED
    BY <2>2, <2>3
<1>9. Sound(h, e.marks, W)
  <2> SUFFICES ASSUME NEW m \in Observers, NEW p \in h.seen[m]
               PROVE  /\ p[1] \in h.confirmed[m]
                      /\ h.state[m] # Dirty /\ <<m, Dirty>> \notin e.marks => Current(h, W, p)
    BY DEF Sound
  <2>1. /\ p[1] \in g.confirmed[m]
        /\ g.state[m] # Dirty /\ <<m, Dirty>> \notin f.marks => Current(g, W, p)
    BY <1>3 DEF Sound
  <2>2. h.state[m] # Dirty /\ <<m, Dirty>> \notin e.marks
          => g.state[m] # Dirty /\ <<m, Dirty>> \notin f.marks
    BY <1>4, <1>5, <1>6
  <2> QED
    BY <2>1, <2>2 DEF Current
<1>10. Valued(h, W)
  BY <1>3, <1>4, <1>5 DEF Valued
<1>11. Queued(h, Append(s, e), R)
  <2> SUFFICES ASSUME NEW x \in Effects, h.state[x] # Clean
               PROVE  x \in R \cup ActiveIn(Append(s, e))
    BY DEF Queued
  <2>1. CASE g.state[x] # Clean
    <3>1. x \in Q \cup ActiveIn(Append(s, f))
      BY <1>3, <2>1 DEF Queued
    <3> QED
      BY <3>1, ActivePush
  <2>2. CASE g.state[x] = Clean
    BY <1>4, <1>5, <2>2
  <2> QED
    BY <2>1, <2>2
<1>12. FreshCalls(h, W, Append(s, e), {})
  <2>1. FreshNotify(g, f)
    BY <1>3, FreshCallsPop DEF FreshCall
  <2>2. FreshNotify(h, e)
    BY <1>4, <1>5, <1>6, <2>1 DEF FreshNotify
  <2>3. FreshCall(h, W, e, {})
    BY <2>2 DEF FreshCall
  <2>4. \A i \in DOMAIN s : s[i].op \notin Inside
    BY OutsideBeneath DEF Inside
  <2>5. FreshCalls(h, W, s, NodeOf(e))
    BY <1>1, <2>4, FreshCallsOutside
  <2> QED
    BY <2>3, <2>5, FreshCallsPush
<1> QED
  BY <1>2, <1>8, <1>9, <1>10, <1>11, <1>12 DEF FreshIn

(* An effect is made, and pulled for the first time. *)
LEMMA FreshCreate ==
  ASSUME NEW g \in Graphs, NEW h \in Graphs, NEW Q, NEW s \in Seq(Frame), NEW f \in Frame,
         NEW e \in Effects, f.op = "pull", f.node = e,
         CallsIn(Append(s, f)), DeferredIn(Append(s, f)), \A i \in DOMAIN s : s[i].op \notin Inside,
         FreshIn(g, s, Q), h.state = [g.state EXCEPT ![e] = Dirty],
         h.value = g.value, h.deps = g.deps, h.confirmed = g.confirmed, h.seen = g.seen
  PROVE  FreshIn(h, Append(s, f), Q)
<1>1. /\ MarksIn(s) = {} /\ OutIn(s) = {} /\ MarksIn(Append(s, f)) = {} /\ OutIn(Append(s, f)) = {}
      /\ \A i \in DOMAIN s : s[i].op # "notify"
  BY QuietBelow
<1>2. Spread(g, {}) /\ Sound(g, {}, {}) /\ Valued(g, {}) /\ Queued(g, s, Q)
  BY <1>1 DEF FreshIn
<1>3. /\ g.state \in [Nodes -> {Clean, Check, Dirty}] /\ g.deps \in [Observers -> SUBSET Sources]
      /\ e \in Nodes /\ e \notin Sources
      /\ Sources \subseteq Nodes /\ Observers \subseteq Nodes /\ Effects \subseteq Nodes
  BY ProgramAssumption DEF Graphs, Nodes, Sources, Observers
<1>4. h.state[e] = Dirty /\ \A x \in Nodes \ {e} : h.state[x] = g.state[x]
  BY <1>3
<1>5. Spread(h, {})
  BY <1>2, <1>3, <1>4 DEF Spread, Clean, Dirty
<1>6. Sound(h, {}, {})
  BY <1>2, <1>3, <1>4 DEF Sound, Current
<1>7. Valued(h, {})
  BY <1>2, <1>3, <1>4 DEF Valued
<1>8. Queued(h, Append(s, f), Q)
  BY <1>2, <1>3, <1>4, ActivePush DEF Queued
<1>9. FreshCalls(h, {}, Append(s, f), {})
  <2>1. FreshCall(h, {}, f, {})
    BY <1>4 DEF FreshCall, FreshPull
  <2>2. FreshCalls(h, {}, s, NodeOf(f))
    BY <1>1, FreshCallsOutside
  <2> QED
    BY <2>1, <2>2, FreshCallsPush
<1> QED
  BY <1>1, <1>5, <1>6, <1>7, <1>8, <1>9 DEF FreshIn

(* The runtime pulls a node. *)
LEMMA FreshPulls ==
  ASSUME NEW g \in Graphs, NEW Q, NEW R, NEW s \in Seq(Frame), NEW f \in Frame,
         f.op = "pull", f.todo = IF g.state[f.node] = Check THEN g.deps[f.node] ELSE {},
         CallsIn(Append(s, f)), DeferredIn(Append(s, f)),
         Spread(g, {}), Sound(g, {}, {}), Valued(g, {}), FreshCalls(g, {}, s, {f.node}),
         Queued(g, s, Q), Q \subseteq R \cup {f.node}
  PROVE  FreshIn(g, Append(s, f), R)
<1>1. MarksIn(Append(s, f)) = {} /\ OutIn(Append(s, f)) = {}
  BY QuietBelow
<1>2. FreshCalls(g, {}, Append(s, f), {})
  <2>1. g.state[f.node] \in {Clean, Check, Dirty}
    BY DEF Graphs, Frame, WellFormed
  <2>2. FreshCall(g, {}, f, {})
    BY <2>1, FreshPullBegins
  <2>3. NodeOf(f) = {f.node}
    BY DEF NodeOf, Inside
  <2> QED
    BY <2>2, <2>3, FreshCallsPush
<1>3. Queued(g, Append(s, f), R)
  BY ActivePush DEF Queued
<1> QED
  BY <1>1, <1>2, <1>3 DEF FreshIn

LEMMA FreshOuterStep ==
  ASSUME TypeOK, NEW g, NEW Q, NEW R, Q \subseteq R, FreshIn(g, stack, Q), OuterStep
  PROVE  FreshIn(g, stack', R)
<1>1. PICK s \in Seq(Frame) :
        /\ \/ s = stack
           \/ stack # <<>> /\ s = Pop /\ Top.op \notin Inside \cup {"with"} /\ Top.marks = {}
        /\ \/ stack' = s
           \/ \E f \in Frame :
                /\ Outer(f)
                /\ \/ stack' = Append(s, f)
                   \/ \E e \in Frame : Outer(e) /\ stack' = Append(Append(s, f), e)
  BY DEF OuterStep
<1>2. FreshIn(g, stack, R)
  BY DEF FreshIn, Queued
<1>3. FreshIn(g, s, R)
  <2>1. stack # <<>> => Pop \in Seq(Frame) /\ Top \in Frame /\ stack = Append(Pop, Top)
    BY PushPop DEF Pop, Top, TypeOK
  <2>2. CASE s = stack
    BY <1>2, <2>2
  <2>3. CASE stack # <<>> /\ s = Pop /\ Top.op \notin Inside \cup {"with"} /\ Top.marks = {}
    <3>1. FreshIn(g, Append(Pop, Top), R) /\ Pop \in Seq(Frame) /\ Top \in Frame
      BY <1>2, <2>1, <2>3
    <3>2. FreshIn(g, Pop, R)
      BY <2>3, <3>1, FreshOuterPop
    <3> QED
      BY <2>3, <3>2
  <2> QED
    BY <1>1, <2>2, <2>3
<1>4. ASSUME NEW f \in Frame, Outer(f)
      PROVE  FreshIn(g, Append(s, f), R)
  BY <1>3, <1>4, FreshOuterPush
<1>5. ASSUME NEW f \in Frame, Outer(f), NEW e \in Frame, Outer(e)
      PROVE  FreshIn(g, Append(Append(s, f), e), R)
  <2>1. Append(s, f) \in Seq(Frame)
    OBVIOUS
  <2> QED
    BY <1>4, <1>5, <2>1, FreshOuterPush
<1> QED
  BY <1>1, <1>3, <1>4, <1>5

LEMMA FreshNext ==
  ASSUME ClosuresOnlyRead, Acyclic, TypeOK, TypeOK', Deferred, Deferred', Calls, Calls',
         Ordered, Ordered', Fresh, [Next]_vars
  PROVE  Fresh'
<1>1. PICK g \in Graphs : /\ g = Now /\ g.value = value /\ g.state = state /\ g.deps = deps
                          /\ g.confirmed = confirmed /\ g.seen = seen
  BY NowType, NowFields
<1>2. PICK h \in Graphs : /\ h = Now' /\ h.value = value' /\ h.state = state' /\ h.deps = deps'
                          /\ h.confirmed = confirmed' /\ h.seen = seen'
  BY NowType, NowFields
<1> DEFINE Q == Elements(pending)
           Step == FreshIn(h, stack', Elements(pending'))
<1>3. SUFFICES Step
  BY <1>2, FreshPrimed
<1>4. /\ stack \in Seq(Frame) /\ CallsIn(stack) /\ DeferredIn(stack) /\ OrderedIn(stack)
      /\ FreshIn(g, stack, Q)
      /\ \A n \in Observers : confirmed[n] \subseteq deps[n] /\ deps[n] \subseteq Reads(n)
  BY <1>1 DEF TypeOK, Calls, Deferred, Ordered, EdgesRead, Fresh
<1>5. CallsIn(stack') /\ DeferredIn(stack') /\ OrderedIn(stack')
  BY DEF Calls, CallsIn, Deferred, DeferredIn, Ordered, OrderedIn
<1>6. ASSUME stack # <<>>
      PROVE  /\ Pop \in Seq(Frame) /\ Top \in Frame /\ Top \in Frames /\ stack = Append(Pop, Top)
             /\ Top.op # "notify" =>
                  /\ MarksIn(stack) = {} /\ Spread(g, {}) /\ OutIn(Pop) = {} /\ Top.marks = {}
                  /\ Top.op # "with" =>
                       /\ OutIn(stack) = {} /\ Sound(g, {}, {}) /\ Valued(g, {})
                       /\ FreshCalls(g, {}, stack, {}) /\ FreshCall(g, {}, Top, {})
  <2>1. Pop \in Seq(Frame) /\ Top \in Frame /\ stack = Append(Pop, Top)
    BY <1>4, <1>6, PushPop DEF Pop, Top
  <2>2. Top \in Frames
    BY <2>1 DEF Frame
  <2>3. /\ Top.op # "notify" => MarksIn(stack) = {} /\ OutIn(Pop) = {} /\ Top.marks = {}
        /\ Top.op \notin {"with", "notify"} => OutIn(stack) = {}
    BY <1>4, <2>1, QuietBelow
  <2>4. Top.op # "notify" => Spread(g, {})
    BY <1>4, <2>3 DEF FreshIn
  <2>5. Top.op \notin {"with", "notify"} =>
          Sound(g, {}, {}) /\ Valued(g, {}) /\ FreshCalls(g, {}, stack, {})
    BY <1>4, <2>3 DEF FreshIn
  <2>6. Top.op \notin {"with", "notify"} => FreshCall(g, {}, Top, {})
    BY <2>1, <2>5, FreshCallsPop
  <2> QED
    BY <2>1, <2>2, <2>3, <2>4, <2>5, <2>6
<1> HIDE DEF Q
<1>27. ASSUME stack # <<>>
       PROVE  /\ CallsIn(Append(Pop, Top)) /\ DeferredIn(Append(Pop, Top))
              /\ OrderedIn(Append(Pop, Top)) /\ FreshIn(g, Append(Pop, Top), Q)
  <2>1. stack = Append(Pop, Top)
    BY <1>6, <1>27
  <2> QED
    BY <1>4, <2>1
<1>28. \A m \in Observers : g.confirmed[m] \subseteq g.deps[m] /\ g.deps[m] \subseteq Reads(m)
  BY <1>1, <1>4
<1>7. ASSUME NEW R, NEW reading, stack # <<>>, FreshIn(h, Pop, R), R \subseteq Elements(pending'),
             ScheduleOrFlush(Pop) \/ MaybeFlush(Pop, reading)
      PROVE  Step
  <2>1. FreshIn(h, Pop, Elements(pending'))
    BY <1>7 DEF FreshIn, Queued
  <2>2. stack' = Pop \/ \E f \in Frame : Outer(f) /\ stack' = Append(Pop, f)
    BY <1>6, <1>7, FlushIsOuter
  <2> QED
    BY <1>6, <1>7, <2>1, <2>2, FreshOuterPush
<1> HIDE DEF Step
<1> USE DEF In
<1>8. ASSUME UNCHANGED graph
      PROVE  h = g
  <2>1. Now' = Now
    BY <1>8 DEF Now, graph
  <2> QED
    BY <1>1, <1>2, <2>1
<1>10. CASE FlushEffect
  <2> DEFINE f == Pull(stack, Head(pending))
  <2>1. stack # <<>> /\ Top.op = "flush" /\ pending # <<>> /\ pending' = Tail(pending) /\ UNCHANGED graph
    BY <1>10 DEF FlushEffect
  <2>2. Head(pending) \in Effects /\ Q \subseteq {Head(pending)} \cup Elements(pending')
    BY <2>1, HeadTail DEF TypeOK, Q
  <2>3. f \in Frame /\ f.op = "pull" /\ f.node = Head(pending)
        /\ f.todo = IF state[f.node] = Check THEN deps[f.node] ELSE {}
    BY <1>4, <2>2, PullType, PullFields DEF Nodes
  <2>4. stack' = Append(stack, f) /\ h = g
    BY <1>8, <1>10, <2>1 DEF FlushEffect, Push
  <2> HIDE DEF f
  <2>5. FreshCalls(g, {}, stack, {f.node}) /\ Queued(g, stack, Q)
    BY <1>4, <1>6, <2>1, FreshCallsMore DEF FreshIn
  <2>6. Spread(g, {}) /\ Sound(g, {}, {}) /\ Valued(g, {})
    BY <1>6, <2>1
  <2>7. CallsIn(Append(stack, f)) /\ DeferredIn(Append(stack, f))
    BY <1>5, <2>4
  <2>8. f.todo = IF g.state[f.node] = Check THEN g.deps[f.node] ELSE {}
    BY <1>1, <2>3
  <2>9. Q \subseteq Elements(pending') \cup {f.node} /\ stack \in Seq(Frame)
    BY <1>4, <2>2, <2>3
  <2>10. FreshIn(g, Append(stack, f), Elements(pending'))
    BY <2>3, <2>5, <2>6, <2>7, <2>8, <2>9, FreshPulls
  <2> QED
    BY <2>4, <2>10 DEF Step
<1>11. ASSUME OuterStep
       PROVE  Step
  BY <1>4, <1>8, <1>11, FreshOuterStep DEF OuterStep, Step, Q
<1>12. CASE MarkStale
  <2>1. stack # <<>> /\ Top.op = "notify" /\ UNCHANGED <<value, deps, confirmed, seen>>
    BY <1>12 DEF MarkStale
  <2>2. PICK m \in Top.marks :
           LET n == m[1]
               more == IF Escalates(n, m[2]) THEN {<<x, Check>> : x \in Subs(n)} ELSE {}
               f == [Top EXCEPT !.marks = (Top.marks \ {m}) \cup more]
           IN /\ n \in Observers /\ m[2] \in {Check, Dirty} /\ m = <<n, m[2]>>
              /\ f \in Frame /\ stack' = Append(Pop, f)
              /\ state' = IF Escalates(n, m[2]) THEN [state EXCEPT ![n] = m[2]] ELSE state
              /\ Escalates(n, m[2]) /\ state[n] = Clean /\ n \in Effects \ SyncEffects
                   => n \in Elements(pending')
              /\ \A e \in Elements(pending) : e \in Elements(pending')
              /\ SyncEffects = {} => syncPending' = syncPending
              /\ pending # <<>> => pending' # <<>>
    BY <1>12, MarkStaleIs
  <2> DEFINE n == m[1]
             t == m[2]
             more == IF Escalates(n, t) THEN {<<x, Check>> : x \in Subs(n)} ELSE {}
             e == [Top EXCEPT !.marks = (Top.marks \ {m}) \cup more]
  <2>3. /\ e.op = "notify" /\ e.node = Top.node /\ e.marks = (Top.marks \ {m}) \cup more
        /\ e \in Frame /\ stack' = Append(Pop, e)
    BY <1>6, <2>1, <2>2 DEF Frames
  <2> HIDE DEF e
  <2>4. more = IF state[n] < t THEN {<<x, Check>> : x \in {y \in Observers : n \in deps[y]}} ELSE {}
    BY DEF Escalates, Subs
  <2>5. /\ n \in Observers /\ t \in {Check, Dirty} /\ m = <<n, t>>
        /\ h.state = IF g.state[n] < t THEN [g.state EXCEPT ![n] = t] ELSE g.state
        /\ g.state[n] < t /\ g.state[n] = Clean /\ n \in Effects => n \in Elements(pending')
        /\ Q \subseteq Elements(pending')
    BY <1>1, <1>2, <2>2 DEF Escalates, ClosuresOnlyRead, Q
  <2>7. e.marks = (Top.marks \ {<<n, t>>}) \cup Onward(g, n, t)
    BY <1>1, <2>3, <2>4, <2>5 DEF Onward
  <2>8. <<n, t>> \in Top.marks
    BY <2>5
  <2> HIDE DEF more, n, t
  <2>9. h.value = g.value /\ h.deps = g.deps /\ h.confirmed = g.confirmed /\ h.seen = g.seen
    BY <1>1, <1>2, <2>1
  <2>10. Pop \in Seq(Frame) /\ Top \in Frame /\ Top.op = "notify"
    BY <1>6, <2>1
  <2>11. e.op = "notify" /\ e.node = Top.node /\ e \in Frame
    BY <2>3
  <2>12. /\ CallsIn(Append(Pop, Top)) /\ DeferredIn(Append(Pop, Top)) /\ FreshIn(g, Append(Pop, Top), Q)
    BY <1>27, <2>1
  <2>13. /\ h.state[n] = IF g.state[n] < t THEN t ELSE g.state[n]
         /\ \A x \in Nodes \ {n} : h.state[x] = g.state[x]
    <3>1. n \in Nodes
      BY <2>5 DEF Nodes, Sources, Observers
    <3> QED
      BY <2>5, <3>1 DEF Graphs
  <2>14. g.state[n] < t /\ g.state[n] = Clean /\ n \in Effects => n \in Elements(pending')
    BY <2>5
  <2>15. n \in Observers /\ t \in {Check, Dirty} /\ Q \subseteq Elements(pending')
    BY <2>5
  <2>6. FreshIn(h, Append(Pop, e), Elements(pending'))
    <3>1. Marks(g, h, Top, e, n, t, Q, Elements(pending'))
      BY <2>7, <2>8, <2>9, <2>10, <2>11, <2>13, <2>14, <2>15 DEF Marks
    <3> QED
      <4>1. /\ Pop \in Seq(Frame) /\ Top \in Frame /\ e \in Frame
            /\ n \in Observers
        BY <2>10, <2>11, <2>15
      <4> QED
        BY <2>12, <3>1, <4>1, FreshMark
  <2> QED
    BY <2>3, <2>6 DEF Step
<1>13. CASE RunSyncEffect
  BY <1>13 DEF RunSyncEffect, Deferred
<1>14. CASE PullSource
  <2>1. /\ stack # <<>> /\ Top.op = "pull" /\ state[Top.node] # Dirty
        /\ UNCHANGED graph /\ pending' = pending
    BY <1>14 DEF PullSource
  <2>2. PICK d \in Top.todo :
           LET f == [Top EXCEPT !.todo = Top.todo \ {d}]
           IN /\ f \in Frame /\ Append(Pop, f) \in Seq(Frame)
              /\ Pull(Append(Pop, f), d) \in Frame
              /\ stack' = Append(Append(Pop, f), Pull(Append(Pop, f), d))
    BY <1>14, PullSourceIs
  <2> DEFINE f == [Top EXCEPT !.todo = Top.todo \ {d}]
             rest == Append(Pop, f)
             e == Pull(rest, d)
  <2>3. f.op = "pull" /\ f.node = Top.node /\ f.todo = Top.todo \ {d} /\ f \in Frame
    BY <1>6, <2>1, <2>2 DEF Frames
  <2>4. rest \in Seq(Frame) /\ e \in Frame /\ stack' = Append(rest, e)
    BY <2>2
  <2>5. e.op = "pull" /\ e.node = d /\ e.todo = IF state[d] = Check THEN deps[d] ELSE {}
    BY PullFields
  <2> HIDE DEF f, e
  <2>6. FreshCalls(g, {}, rest, {d})
    <3>1. FreshCalls(g, {}, Pop, NodeOf(Top)) /\ FreshCall(g, {}, Top, {})
      <4>1. FreshCalls(g, {}, Append(Pop, Top), {}) /\ Pop \in Seq(Frame) /\ Top \in Frame
        BY <1>6, <2>1
      <4> QED
        BY <4>1, FreshCallsPop
    <3>2. NodeOf(f) = NodeOf(Top)
      BY <2>1, <2>3 DEF NodeOf
    <3>3. FreshCall(g, {}, f, {d})
      <4>1. FreshPull(g, Top, {})
        BY <2>1, <3>1 DEF FreshCall
      <4>2. FreshPull(g, f, {d})
        BY <2>3, <4>1 DEF FreshPull
      <4> QED
        BY <2>3, <4>2 DEF FreshCall
    <3>4. FreshCalls(g, {}, Pop, NodeOf(f)) /\ Pop \in Seq(Frame) /\ f \in Frame
      BY <1>6, <2>1, <2>3, <3>1, <3>2
    <3> QED
      BY <3>3, <3>4, FreshCallsPush
  <2>7. Queued(g, rest, Q)
    <3>1. ActiveIn(stack) \subseteq ActiveIn(rest)
      <4>1. Pop \in Seq(Frame) /\ Top \in Frame /\ f \in Frame /\ stack = Append(Pop, Top)
        BY <1>6, <2>1, <2>3
      <4>2. ActiveIn(stack) \subseteq ActiveIn(Pop) \cup {Top.node}
        <5>1. ActiveIn(Append(Pop, Top)) \subseteq ActiveIn(Pop) \cup {Top.node}
          BY <2>1, <4>1, ActivePush
        <5> QED
          BY <4>1, <5>1
      <4>3. ActiveIn(Pop) \subseteq ActiveIn(rest) /\ f.node \in ActiveIn(rest)
        BY <2>3, <4>1, ActivePush
      <4> QED
        BY <2>3, <4>2, <4>3
    <3> QED
      BY <1>4, <3>1 DEF FreshIn, Queued
  <2> HIDE DEF rest
  <2>8. FreshIn(g, Append(rest, e), Q)
    <3>1. Spread(g, {}) /\ Sound(g, {}, {}) /\ Valued(g, {})
      BY <1>6, <2>1
    <3>2. CallsIn(Append(rest, e)) /\ DeferredIn(Append(rest, e))
      BY <1>5, <2>4
    <3>3. e.todo = IF g.state[e.node] = Check THEN g.deps[e.node] ELSE {}
      BY <1>1, <2>5
    <3>4. FreshCalls(g, {}, rest, {e.node})
      BY <2>5, <2>6
    <3> QED
      BY <2>4, <2>5, <2>7, <3>1, <3>2, <3>3, <3>4, FreshPulls
  <2> QED
    BY <1>8, <2>1, <2>4, <2>8 DEF Step, Q
<1>15. CASE PullRun
  <2> DEFINE e == [Call(stack, "body", Top.node) EXCEPT !.by = Top.node, !.obs = Top.node]
  <2>1. /\ Top.node \in Observers /\ e \in Frame /\ stack' = Append(Pop, e)
        /\ e.op = "body" /\ e.node = Top.node /\ e.marks = {}
    BY <1>15, PullRunIs
  <2> HIDE DEF e
  <2>2. /\ stack # <<>> /\ Top.op = "pull" /\ state[Top.node] = Dirty /\ pending' = pending
        /\ confirmed' = [confirmed EXCEPT ![Top.node] = {}] /\ seen' = [seen EXCEPT ![Top.node] = {}]
        /\ UNCHANGED <<value, state, deps>>
    BY <1>15 DEF PullRun
  <2>3. FreshIn(h, Append(Pop, e), Q)
    <3>1. /\ h.value = g.value /\ h.state = g.state /\ h.deps = g.deps
          /\ h.confirmed = [g.confirmed EXCEPT ![Top.node] = {}]
          /\ h.seen = [g.seen EXCEPT ![Top.node] = {}] /\ g.state[Top.node] = Dirty
      BY <1>1, <1>2, <2>2
    <3>2. Pop \in Seq(Frame) /\ Top \in Frame /\ Top.op = "pull"
      BY <1>6, <2>2
    <3>3. /\ CallsIn(Append(Pop, Top)) /\ DeferredIn(Append(Pop, Top))
          /\ OrderedIn(Append(Pop, Top)) /\ FreshIn(g, Append(Pop, Top), Q)
      BY <1>27, <2>2
    <3> QED
      BY <1>28, <2>1, <3>1, <3>2, <3>3, FreshRun
  <2> QED
    BY <2>1, <2>2, <2>3 DEF Step, Q
<1>16. CASE PullDone
  <2> DEFINE n == Top.node
  <2>1. /\ stack # <<>> /\ Top.op = "pull" /\ stack' = Pop /\ pending' = pending
        /\ state' = [state EXCEPT ![n] = Clean] /\ UNCHANGED <<value, deps, confirmed, seen>>
    BY <1>16 DEF PullDone, SetClean
  <2>2. n \in Nodes
    BY <1>6, <2>1 DEF Frame, WellFormed
  <2>3. state[n] # Dirty /\ Top.todo = {}
    <3>1. ASSUME Taken(n)
          PROVE  FALSE
      <4>1. PICK i \in DOMAIN stack : stack[i].op = "body" /\ stack[i].node = n
        BY <3>1 DEF Taken
      <4>2. i < Len(stack) /\ Len(stack) \in DOMAIN stack
        BY <1>4, <2>1, <4>1 DEF Top
      <4>3. Lower(stack[i], Top)
        BY <1>4, <4>2 DEF OrderedIn, Top
      <4>4. Rank[n] \in Nat
        BY <2>2, RankOrders
      <4> QED
        BY <4>1, <4>3, <4>4 DEF Lower
    <3> QED
      BY <1>16, <3>1 DEF PullDone
  <2>4. n \in Observers =>
          (\A d \in deps[n] : state[d] = Clean) /\ \A p \in g.seen[n] : Current(g, {}, p)
    BY <1>1, <1>6, <2>1, <2>3 DEF FreshCall, FreshPull, Sound
  <2>5. n \in Sources => value[n] # None
    BY <1>1, <1>6, <2>1, <2>3 DEF Valued
  <2>6. h.state[n] = Clean /\ \A x \in Nodes \ {n} : h.state[x] = g.state[x]
    BY <1>1, <1>2, <2>1, <2>2 DEF TypeOK
  <2> HIDE DEF n
  <2>7. FreshIn(h, Pop, Q)
    <3>1. Pop \in Seq(Frame) /\ Top \in Frame /\ Top.op \in {"pull", "body"} /\ Top.node = n
      BY <1>6, <2>1 DEF n
    <3>2. /\ CallsIn(Append(Pop, Top)) /\ DeferredIn(Append(Pop, Top))
          /\ OrderedIn(Append(Pop, Top)) /\ FreshIn(g, Append(Pop, Top), Q)
      BY <1>27, <2>1
    <3>3. h.confirmed = g.confirmed /\ h.seen = g.seen
      BY <1>1, <1>2, <2>1
    <3>4. h.value = g.value /\ h.deps = g.deps
      BY <1>1, <1>2, <2>1
    <3>5. n \in Observers =>
            /\ h.deps[n] \subseteq g.deps[n] /\ \A d \in h.deps[n] : g.state[d] = Clean
            /\ \A p \in g.seen[n] : Current(g, {}, p)
      BY <1>1, <2>4, <3>4
    <3>6. n \in Sources => h.value[n] # None /\ h.value[n] = g.value[n]
      BY <1>1, <2>5, <3>4
    <3> QED
      BY <1>28, <2>2, <2>6, <3>1, <3>2, <3>3, <3>4, <3>5, <3>6, FreshSettle
  <2> QED
    BY <2>1, <2>7 DEF Step, Q
(* A run returns. *)
<1>9. ASSUME stack # <<>>, Top.op = "body"
      PROVE  /\ Top.node \in Observers /\ Top.node \in Nodes /\ state[Top.node] = Dirty
             /\ \A d \in confirmed[Top.node] : state[d] = Clean
             /\ \A p \in g.seen[Top.node] : Current(g, {}, p)
  <2>1. FreshBody(g, {}, Top, {})
    BY <1>6, <1>9 DEF FreshCall
  <2>2. Top.node \in Observers /\ Top.node \in Nodes
    BY <1>6, <1>9 DEF Frame, WellFormed, Nodes, Observers, Sources
  <2> QED
    BY <1>1, <2>1, <2>2 DEF FreshBody
<1>17. CASE FinishEffect
  <2> DEFINE n == Top.node
  <2>1. /\ stack # <<>> /\ Top.op = "body" /\ stack' = Pop /\ pending' = pending /\ n \in Effects
        /\ deps' = [deps EXCEPT ![n] = confirmed[n]]
        /\ state' = [state EXCEPT ![n] = Clean] /\ UNCHANGED <<value, confirmed, seen>>
    BY <1>17 DEF FinishEffect, SetClean, EndTracking
  <2>2. n \in Nodes /\ n \in Observers /\ n \notin Sources
    BY <2>1, ProgramAssumption DEF Nodes, Observers, Sources
  <2>3. h.state[n] = Clean /\ \A x \in Nodes \ {n} : h.state[x] = g.state[x]
    BY <1>1, <1>2, <2>1, <2>2 DEF TypeOK
  <2>4. h.deps[n] = g.confirmed[n] /\ \A m \in Observers \ {n} : h.deps[m] = g.deps[m]
    BY <1>1, <1>2, <2>1, <2>2 DEF TypeOK
  <2>5. h.deps[n] \subseteq g.deps[n] /\ \A d \in h.deps[n] : g.state[d] = Clean
    BY <1>1, <1>4, <1>9, <2>1, <2>2, <2>4
  <2>6. \A p \in g.seen[n] : Current(g, {}, p)
    BY <1>9, <2>1
  <2> HIDE DEF n
  <2>7. FreshIn(h, Pop, Q)
    <3>1. Pop \in Seq(Frame) /\ Top \in Frame /\ Top.op \in {"pull", "body"} /\ Top.node = n
      BY <1>6, <2>1 DEF n
    <3>2. /\ CallsIn(Append(Pop, Top)) /\ DeferredIn(Append(Pop, Top))
          /\ OrderedIn(Append(Pop, Top)) /\ FreshIn(g, Append(Pop, Top), Q)
      BY <1>27, <2>1
    <3>3. h.confirmed = g.confirmed /\ h.seen = g.seen
      BY <1>1, <1>2, <2>1
    <3>4. h.value = g.value
      BY <1>1, <1>2, <2>1
    <3> QED
      BY <1>28, <2>2, <2>3, <2>4, <2>5, <2>6, <3>1, <3>2, <3>3, <3>4, FreshSettle
  <2> QED
    BY <2>1, <2>7 DEF Step, Q
<1>18. CASE FinishComputed
  <2> DEFINE n == Top.node
  <2>1. /\ stack # <<>> /\ Top.op = "body" /\ stack' = Pop /\ pending' = pending /\ n \in Computeds
        /\ deps' = [deps EXCEPT ![n] = confirmed[n]] /\ UNCHANGED <<confirmed, seen>>
    BY <1>18 DEF FinishComputed, EndTracking
  <2>2. PICK v \in Values :
          LET subs == IF Changed(n, v) THEN Subs(n) \ {n} ELSE {}
          IN /\ value' = [value EXCEPT ![n] = v]
             /\ state' = [x \in Nodes |-> IF x = n THEN Clean
                                          ELSE IF x \in subs THEN Dirty ELSE state[x]]
    BY <1>18 DEF FinishComputed
  <2>3. n \in Nodes /\ n \in Observers /\ n \in Sources
    BY <2>1 DEF Nodes, Observers, Sources
  <2>4. h.deps[n] = g.confirmed[n] /\ \A m \in Observers \ {n} : h.deps[m] = g.deps[m]
    BY <1>1, <1>2, <2>1, <2>3 DEF TypeOK
  <2>5. h.deps[n] \subseteq g.deps[n] /\ \A d \in h.deps[n] : g.state[d] = Clean
    BY <1>1, <1>4, <1>9, <2>1, <2>3, <2>4
  <2>6. \A p \in g.seen[n] : Current(g, {}, p)
    BY <1>9, <2>1
  <2>7. \A x \in Subs(n) : g.state[x] # Clean
    BY <1>1, <1>6, <1>9, <2>1 DEF Subs, Spread, Clean, Dirty
  <2>8. /\ h.state[n] = Clean
        /\ \A x \in Nodes \ {n} : h.state[x] = g.state[x] \/ (h.state[x] = Dirty /\ g.state[x] # Clean)
    BY <1>1, <1>2, <2>2, <2>3, <2>7
  <2>9. h.value[n] = v /\ \A x \in Sources \ {n} : h.value[x] = g.value[x]
    BY <1>1, <1>2, <2>2, <2>3 DEF TypeOK
  <2>10. h.value[n] # None
    BY <2>9, ProgramAssumption
  <2>11. h.value[n] # g.value[n] =>
           g.state[n] = Dirty /\ \A m \in Observers \ {n} : n \in g.deps[m] => h.state[m] = Dirty
    <3> SUFFICES ASSUME v # value[n]
                 PROVE  g.state[n] = Dirty /\ \A m \in Observers \ {n} : n \in g.deps[m] => h.state[m] = Dirty
      BY <1>1, <2>9
    <3>1. Changed(n, v)
      BY DEF Changed
    <3>2. Observers \subseteq Nodes
      BY DEF Nodes, Observers, Sources
    <3> QED
      BY <1>1, <1>2, <1>9, <2>1, <2>2, <3>1, <3>2 DEF Subs
  <2> HIDE DEF n
  <2>12. FreshIn(h, Pop, Q)
    <3>1. Pop \in Seq(Frame) /\ Top \in Frame /\ Top.op \in {"pull", "body"} /\ Top.node = n
      BY <1>6, <2>1 DEF n
    <3>2. /\ CallsIn(Append(Pop, Top)) /\ DeferredIn(Append(Pop, Top))
          /\ OrderedIn(Append(Pop, Top)) /\ FreshIn(g, Append(Pop, Top), Q)
      BY <1>27, <2>1
    <3>3. h.confirmed = g.confirmed /\ h.seen = g.seen
      BY <1>1, <1>2, <2>1
    <3> QED
      BY <1>28, <2>3, <2>4, <2>5, <2>6, <2>8, <2>9, <2>10, <2>11, <3>1, <3>2, <3>3, FreshSettle
  <2> QED
    BY <2>1, <2>12 DEF Step, Q
(* A read delivers its value. *)
<1>19. ASSUME NEW V, stack # <<>>, Top.op \in {"get", "open"}, value[Top.node] # None, Deliver(Top.node),
              UNCHANGED <<state, deps, confirmed>>,
              \/ V = {} /\ value' = value
              \/ V = Lent(Top.node, value[Top.node]) /\ value' = [value EXCEPT ![Top.node] = None]
       PROVE  /\ Spread(h, {}) /\ Sound(h, {}, V) /\ Valued(h, V) /\ FreshCalls(h, V, Pop, {})
              /\ Queued(h, Pop, Q) /\ OutIn(Pop) = {} /\ MarksIn(Pop) = {}
  <2>1. Top.node \in Sources
    BY <1>6, <1>19 DEF Frame, WellFormed
  <2>2. seen' = IF Top.obs = None THEN seen
                ELSE [seen EXCEPT ![Top.obs] = @ \cup {<<Top.node, value[Top.node]>>}]
    BY <1>19 DEF Deliver, Observer, ObserverIn, Top
  <2> QED
    <3>1. Pop \in Seq(Frame) /\ Top \in Frame /\ Top.op \in {"get", "open"}
      BY <1>6, <1>19
    <3>2. /\ CallsIn(Append(Pop, Top)) /\ DeferredIn(Append(Pop, Top))
          /\ OrderedIn(Append(Pop, Top)) /\ FreshIn(g, Append(Pop, Top), Q)
      BY <1>27, <1>19
    <3>3. /\ h.state = g.state /\ h.deps = g.deps /\ h.confirmed = g.confirmed
          /\ g.value[Top.node] # None
      BY <1>1, <1>2, <1>19
    <3>4. h.seen = IF Top.obs = None THEN g.seen
                   ELSE [g.seen EXCEPT ![Top.obs] = @ \cup {<<Top.node, g.value[Top.node]>>}]
      BY <1>1, <1>2, <2>2
    <3>5. \/ V = {} /\ h.value = g.value
          \/ V = Lent(Top.node, g.value[Top.node]) /\ h.value = [g.value EXCEPT ![Top.node] = None]
      BY <1>1, <1>2, <1>19
    <3>6. CASE V = {} /\ h.value = g.value
      <4>1. Delivers(g, h, Top, Top.node, V)
        BY <3>1, <3>3, <3>4, <3>6 DEF Delivers
      <4> QED
        BY <2>1, <3>1, <3>2, <4>1, FreshDeliver
    <3>7. CASE V = Lent(Top.node, g.value[Top.node]) /\ h.value = [g.value EXCEPT ![Top.node] = None]
      <4>1. /\ V = Lent(Top.node, g.value[Top.node]) /\ h.value[Top.node] = None
            /\ \A x \in Sources \ {Top.node} : h.value[x] = g.value[x]
        BY <2>1, <3>7 DEF Graphs
      <4>2. Delivers(g, h, Top, Top.node, V)
        BY <3>1, <3>3, <3>4, <4>1 DEF Delivers
      <4> QED
        BY <2>1, <3>1, <3>2, <4>2, FreshDeliver
    <3> QED
      BY <3>5, <3>6, <3>7
<1>20. CASE EndGet
  <2>1. /\ stack # <<>> /\ Top.op = "get" /\ value[Top.node] # None /\ Deliver(Top.node)
        /\ UNCHANGED <<state, deps, confirmed>> /\ value' = value /\ pending' = pending
        /\ MaybeFlush(Pop, readingDepth)
    BY <1>20 DEF EndGet
  <2>2. FreshIn(h, Pop, Q)
    <3>1. /\ Spread(h, {}) /\ Sound(h, {}, {}) /\ Valued(h, {}) /\ FreshCalls(h, {}, Pop, {})
          /\ Queued(h, Pop, Q) /\ OutIn(Pop) = {} /\ MarksIn(Pop) = {}
      BY <1>19, <2>1
    <3> QED
      BY <3>1 DEF FreshIn
  <2>3. Q \subseteq Elements(pending')
    BY <2>1 DEF Q
  <2> QED
    BY <1>7, <2>1, <2>2, <2>3
<1>21. CASE With
  <2> DEFINE f == [Top EXCEPT !.op = "with", !.val = value[Top.node]]
             V == Lent(Top.node, value[Top.node])
  <2>1. /\ f \in Frame /\ stack' = Append(Pop, f) /\ f.op = "with" /\ f.node = Top.node
        /\ f.val = value[Top.node] /\ f.marks = Top.marks
    BY <1>21, WithIs
  <2> HIDE DEF f
  <2>2. /\ stack # <<>> /\ Top.op = "open" /\ value[Top.node] # None /\ Deliver(Top.node)
        /\ UNCHANGED <<state, deps, confirmed>> /\ value' = [value EXCEPT ![Top.node] = None]
        /\ pending' = pending
    BY <1>21 DEF With
  <2>3. /\ Spread(h, {}) /\ Sound(h, {}, V) /\ Valued(h, V) /\ FreshCalls(h, V, Pop, {})
        /\ Queued(h, Pop, Q) /\ OutIn(Pop) = {} /\ MarksIn(Pop) = {}
    BY <1>19, <2>2
  <2>4. MarksIn(stack') = {} /\ OutIn(stack') = V
    <3>1. Top.marks = {}
      BY <1>6, <2>2
    <3> QED
      BY <1>6, <2>1, <2>2, <2>3, <3>1, MarksPush DEF Lent
  <2> HIDE DEF V
  <2>5. FreshCalls(h, V, stack', {})
    <3>1. NodeOf(f) = {} /\ FreshCall(h, V, f, {})
      BY <2>1 DEF NodeOf, FreshCall, Inside
    <3> QED
      BY <1>6, <2>1, <2>2, <2>3, <3>1, FreshCallsPush
  <2>6. Queued(h, stack', Elements(pending'))
    <3>1. Pop \in Seq(Frame) /\ f \in Frame /\ stack' = Append(Pop, f)
      BY <1>6, <2>1, <2>2
    <3>2. ActiveIn(Pop) \subseteq ActiveIn(stack')
      BY <3>1, ActivePush
    <3>3. Queued(h, Pop, Q) /\ Q = Elements(pending')
      BY <2>2, <2>3 DEF Q
    <3> QED
      BY <3>2, <3>3 DEF Queued
  <2> QED
    BY <2>3, <2>4, <2>5, <2>6 DEF Step, FreshIn
<1>22. CASE EndWith
  <2>1. /\ stack # <<>> /\ Top.op = "with" /\ value' = [value EXCEPT ![Top.node] = Top.val]
        /\ UNCHANGED <<state, deps, confirmed, seen>> /\ pending' = pending
        /\ MaybeFlush(Pop, readingDepth - 1)
    BY <1>22 DEF EndWith
  <2>2. FreshIn(h, Pop, Q)
    <3>1. Pop \in Seq(Frame) /\ Top \in Frame /\ Top.op = "with"
      BY <1>6, <2>1
    <3>2. CallsIn(Append(Pop, Top)) /\ DeferredIn(Append(Pop, Top)) /\ FreshIn(g, Append(Pop, Top), Q)
      BY <1>27, <2>1
    <3>3. /\ h.value = [g.value EXCEPT ![Top.node] = Top.val] /\ h.state = g.state
          /\ h.deps = g.deps /\ h.confirmed = g.confirmed /\ h.seen = g.seen
      BY <1>1, <1>2, <2>1
    <3> QED
      BY <3>1, <3>2, <3>3, FreshPutBack
  <2>3. Q \subseteq Elements(pending')
    BY <2>1 DEF Q
  <2> QED
    BY <1>7, <2>1, <2>2, <2>3
<1>23. ASSUME NEW c \in Code, NEW d \in Reads(c), NEW op \in {"get", "open"}, Read(c, d, op)
       PROVE  Step
  <2> DEFINE f == Call(stack, op, d)
             rest == Append(stack, f)
             e == Pull(rest, d)
  <2>1. /\ f \in Frame /\ f.op = op /\ f.node = d /\ f.obs = ObserverIn(stack) /\ d \in Sources
    <3>1. d \in Sources
      BY <1>23, ProgramAssumption DEF Reads
    <3> QED
      BY <1>4, <3>1, CallType, PlainCallType DEF Ops, Nodes
  <2>2. /\ stack' = Append(rest, e) /\ Runs(c) /\ ~InRead
        /\ UNCHANGED <<value, state, seen, pending>>
    BY <1>23 DEF Read, Push, ClosuresOnlyRead
  <2>3. rest \in Seq(Frame)
    BY <1>4, <2>1
  <2>4. e \in Frame /\ e.op = "pull" /\ e.node = d /\ e.todo = IF state[d] = Check THEN deps[d] ELSE {}
    <3>1. d \in Nodes
      BY <2>1 DEF Nodes
    <3> HIDE DEF rest
    <3>2. e \in Frame
      BY <2>3, <3>1, PullType
    <3> QED
      BY <3>2, PullFields
  <2>5. f.obs # None => d \in Reads(f.obs)
    <3>1. c \in Observers => ObserverIn(stack) = c
      BY <2>2, Runners DEF InRead, ObserverIn, Top
    <3>2. c \in UserCode => ObserverIn(stack) = None
      BY <1>4, <2>2, Inherits, Runners
    <3> QED
      BY <1>23, <2>1, <3>1, <3>2 DEF Code, UserCode
  <2>6. /\ h.deps = IF f.obs = None THEN g.deps ELSE [g.deps EXCEPT ![f.obs] = @ \cup {d}]
        /\ h.confirmed = IF f.obs = None THEN g.confirmed
                         ELSE [g.confirmed EXCEPT ![f.obs] = @ \cup {d}]
    BY <1>1, <1>2, <1>23, <2>1 DEF Read, Observer
  <2> HIDE DEF f, e
  <2>7. CallsIn(Append(rest, e)) /\ DeferredIn(rest)
    <3>1. CallsIn(Append(rest, e)) /\ DeferredIn(Append(rest, e))
      BY <1>5, <2>2
    <3> HIDE DEF rest
    <3>2. /\ Append(rest, e) \in Seq(Frame) /\ Append(rest, e) # <<>>
          /\ SubSeq(Append(rest, e), 1, Len(Append(rest, e)) - 1) = rest
      BY <2>3, <2>4, PushIndex
    <3> QED
      BY <3>1, <3>2, DeferPop
  <2>8. FreshIn(h, Append(rest, e), Q)
    <3>1. h.value = g.value /\ h.state = g.state /\ h.seen = g.seen
      BY <1>1, <1>2, <2>2
    <3>2. e.todo = IF g.state[d] = Check THEN g.deps[d] ELSE {}
      BY <1>1, <2>4
    <3>3. stack \in Seq(Frame) /\ OrderedIn(stack) /\ FreshIn(g, stack, Q)
      BY <1>4
    <3>4. f.op \in {"get", "open"}
      BY <2>1
    <3> QED
      BY <2>1, <2>4, <2>5, <2>6, <2>7, <3>1, <3>2, <3>3, <3>4, FreshReading
  <2> QED
    BY <2>2, <2>8 DEF Step, Q
<1>24. ASSUME NEW c \in Code, Get(c) \/ Open(c)
       PROVE  Step
  BY <1>23, <1>24 DEF Get, Open, Reads
<1>25. ASSUME NEW c \in Code, Set(c) \/ Update(c)
       PROVE  Step
  <2>1. PICK d \in Signals, v \in Values :
          /\ value[d] # None /\ value' = [value EXCEPT ![d] = v]
          /\ \/ stack' = Notify(stack, d)
             \/ ~Changed(d, v) /\ stack' = stack
    BY <1>25, ProgramAssumption DEF Set, Update, ClosuresOnlyRead
  <2>2. UNCHANGED <<state, deps, confirmed, seen, pending>>
    BY <1>25 DEF Set, Update
  <2>3. CASE ~Changed(d, v) /\ stack' = stack
    <3>1. value' = value
      BY <2>1, <2>3 DEF Changed, TypeOK
    <3>2. h = g
      BY <1>8, <2>2, <3>1 DEF graph
    <3> QED
      BY <1>4, <2>2, <2>3, <3>2 DEF Step, Q
  <2>4. CASE stack' = Notify(stack, d)
    <3> DEFINE f == [Call(stack, "notify", d) EXCEPT !.marks = Subs(d) \X {Dirty}]
    <3>1. /\ f \in Frame /\ stack' = Append(stack, f) /\ f.op = "notify" /\ f.node = d
          /\ f.marks = {x \in Observers : d \in deps[x]} \X {Dirty}
      BY <1>4, <2>4, NotifyIs DEF Subs
    <3> HIDE DEF f
    <3>2. d \in Sources
      BY DEF Sources
    <3>3. FreshIn(h, Append(stack, f), Q)
      <4>1. /\ h.value = [g.value EXCEPT ![d] = v] /\ h.state = g.state /\ h.deps = g.deps
            /\ h.confirmed = g.confirmed /\ h.seen = g.seen /\ g.value[d] # None
        BY <1>1, <1>2, <2>1, <2>2
      <4>2. CallsIn(Append(stack, f)) /\ DeferredIn(Append(stack, f))
        BY <1>5, <3>1
      <4>3. f.marks = {x \in Observers : d \in g.deps[x]} \X {Dirty}
        BY <1>1, <3>1
      <4>4. stack \in Seq(Frame) /\ FreshIn(g, stack, Q)
        BY <1>4
      <4>5. \A m \in Observers : g.confirmed[m] \subseteq g.deps[m]
        BY <1>28
      <4> QED
        BY <3>1, <3>2, <4>1, <4>2, <4>3, <4>4, <4>5, FreshWrite
    <3> QED
      BY <2>2, <3>1, <3>3 DEF Step, Q
  <2> QED
    BY <2>1, <2>3, <2>4
<1>26. ASSUME NEW c \in Code, CreateEffect(c)
       PROVE  Step
  <2>1. PICK e \in Effects : stack' = Append(stack, Call(stack, "pull", e))
                             /\ state' = [state EXCEPT ![e] = Dirty]
    BY <1>26 DEF CreateEffect, Push
  <2> DEFINE f == Call(stack, "pull", e)
  <2>2. f \in Frame /\ f.op = "pull" /\ f.node = e /\ stack' = Append(stack, f)
    BY <1>4, <2>1, CallType, PlainCallType DEF Ops, Nodes
  <2>3. UNCHANGED <<value, deps, confirmed, seen, pending>> /\ Runs(c) /\ c \in UserCode
    BY <1>26 DEF CreateEffect, UserCode
  <2> HIDE DEF f
  <2>4. \A i \in DOMAIN stack : stack[i].op \notin Inside
    BY <2>3, Runners
  <2>5. FreshIn(h, Append(stack, f), Q)
    <3>1. /\ h.state = [g.state EXCEPT ![e] = Dirty] /\ h.value = g.value /\ h.deps = g.deps
          /\ h.confirmed = g.confirmed /\ h.seen = g.seen
      BY <1>1, <1>2, <2>1, <2>3
    <3>2. CallsIn(Append(stack, f)) /\ DeferredIn(Append(stack, f))
      BY <1>5, <2>2
    <3>3. stack \in Seq(Frame) /\ FreshIn(g, stack, Q)
      BY <1>4
    <3> QED
      BY <2>2, <2>4, <3>1, <3>2, <3>3, FreshCreate
  <2> QED
    BY <2>2, <2>3, <2>5 DEF Step, Q
<1> QED
  <2>1. \A c \in Code : Batch(c) \/ NextTick(c) \/ UpdatePanics(c) => Step
    BY <1>11, OuterSteps
  <2>2. \/ FlushTake \/ FlushCallback \/ FlushDone \/ FlushJobs \/ NotifyDone \/ EndBatch
        \/ EndTick \/ SetScheduler \/ ClearScheduler \/ ReadPanics \/ UNCHANGED vars
        => Step
    BY <1>11, OuterSteps
  <2> QED
    BY <2>1, <2>2, <1>10, <1>12, <1>13, <1>14, <1>15, <1>16, <1>17, <1>18, <1>20, <1>21,
       <1>22, <1>24, <1>25, <1>26
    DEF Next, System, User

LEMMA FreshInit == Init => Ordered /\ Fresh
<1> SUFFICES ASSUME Init
             PROVE  Ordered /\ Fresh
  OBVIOUS
<1>1. stack = <<>> /\ DOMAIN stack = {}
  BY DEF Init
<1>2. /\ \A n \in Observers : deps[n] = {} /\ confirmed[n] = {} /\ seen[n] = {}
      /\ \A d \in Sources : value[d] = None => state[d] = Dirty
      /\ \A e \in Effects : state[e] = Clean
  BY ProgramAssumption DEF Init, Nodes, Sources, Observers
<1>3. Ordered
  BY <1>1, <1>2 DEF Ordered, OrderedIn, EdgesRead
<1>4. MarksIn(stack) = {} /\ OutIn(stack) = {}
  BY <1>1 DEF MarksIn, OutIn
<1>5. FreshCalls(Now, {}, stack, {})
  BY <1>1 DEF FreshCalls
<1>6. Spread(Now, {}) /\ Sound(Now, {}, {}) /\ Valued(Now, {}) /\ Queued(Now, stack, Elements(pending))
  BY <1>2 DEF Now, Spread, Sound, Valued, Queued
<1> QED
  BY <1>3, <1>4, <1>5, <1>6 DEF Fresh, FreshIn

LEMMA FreshAlways == ASSUME ClosuresOnlyRead, Acyclic PROVE Spec => [](Ordered /\ Fresh)
<1>1. /\ TypeOK /\ TypeOK' /\ Deferred /\ Deferred' /\ Calls /\ Calls' /\ Ordered /\ Fresh /\ [Next]_vars
      => Ordered' /\ Fresh'
  BY OrderedNext, FreshNext
<1> QED
  BY <1>1, FreshInit, CallsAlways, TypeCorrect, PTL DEF Spec

(* What Fresh says of the variables. *)
LEMMA FreshNodes ==
  ASSUME TypeOK, Fresh
  PROVE  /\ \A n \in Observers : \A d \in deps[n] :
              \/ state[d] = Clean \/ state[n] # Clean
              \/ \E t \in {Check, Dirty} : <<n, t>> \in MarksIn(stack)
         /\ \A n \in Observers : \A p \in seen[n] :
              /\ p[1] \in confirmed[n]
              /\ state[n] # Dirty /\ <<n, Dirty>> \notin MarksIn(stack) => Holds(p[1], p[2])
         /\ \A d \in Sources : value[d] = None => state[d] = Dirty \/ \E v \in Values : <<d, v>> \in OutIn(stack)
         /\ \A e \in Effects : state[e] # Clean => e \in Elements(pending) \/ Active(e)
         /\ \A n \in Observers : Taken(n) => SeesCurrent(n)
<1>1. /\ Spread(Now, MarksIn(stack)) /\ Sound(Now, MarksIn(stack), OutIn(stack))
      /\ Valued(Now, OutIn(stack)) /\ Queued(Now, stack, Elements(pending))
      /\ FreshCalls(Now, OutIn(stack), stack, {})
  BY DEF Fresh, FreshIn
<1>2. ASSUME NEW n \in Observers, NEW p \in seen[n], Current(Now, OutIn(stack), p)
      PROVE  Holds(p[1], p[2])
  <2>1. p \in Sources \X Values
    BY <1>2 DEF TypeOK
  <2>2. CASE value[p[1]] = p[2]
    BY <2>2 DEF Holds
  <2>3. CASE p \in OutIn(stack)
    BY <2>1, <2>3 DEF OutIn, Holds
  <2> QED
    BY <1>2, <2>2, <2>3, NowFields DEF Current
<1>3. ASSUME NEW n \in Observers, Taken(n)
      PROVE  SeesCurrent(n)
  <2>1. PICK i \in DOMAIN stack : stack[i].op = "body" /\ stack[i].node = n
    BY <1>3 DEF Taken
  <2>2. FreshBody(Now, OutIn(stack), stack[i], Awaited(stack, i, {}))
    BY <1>1, <2>1 DEF FreshCalls, FreshCall
  <2>3. \A p \in seen[n] : Current(Now, OutIn(stack), p) /\ state[p[1]] = Clean
    BY <2>1, <2>2, NowFields DEF FreshBody
  <2> QED
    BY <1>2, <2>3 DEF SeesCurrent
<1>4. \A n \in Observers : \A d \in deps[n] :
        \/ state[d] = Clean \/ state[n] # Clean
        \/ \E t \in {Check, Dirty} : <<n, t>> \in MarksIn(stack)
  BY <1>1, NowFields DEF Spread
<1>5. \A n \in Observers : \A p \in seen[n] :
        /\ p[1] \in confirmed[n]
        /\ state[n] # Dirty /\ <<n, Dirty>> \notin MarksIn(stack) => Current(Now, OutIn(stack), p)
  BY <1>1, NowFields DEF Sound
<1>6. \A d \in Sources : value[d] = None => state[d] = Dirty \/ \E v \in Values : <<d, v>> \in OutIn(stack)
  BY <1>1, NowFields DEF Valued
<1>7. \A e \in Effects : state[e] # Clean => e \in Elements(pending) \/ Active(e)
  <2>1. \A e \in Effects : state[e] # Clean => e \in Elements(pending) \cup ActiveIn(stack)
    BY <1>1, NowFields DEF Queued
  <2>2. \A e \in ActiveIn(stack) : Active(e)
    BY DEF ActiveIn, Active
  <2> QED
    BY <2>1, <2>2
<1> QED
  BY <1>2, <1>3, <1>4, <1>5, <1>6, <1>7

(* No closure sees a new signal next to a computed derived from the old    *)
(* one (runtime.rs, mark_stale and update_if_necessary): what a Clean      *)
(* node, or a closure that runs, has seen is current, for every program    *)
(* whose closures only read.                                               *)
THEOREM FreshReads == ASSUME ClosuresOnlyRead, Acyclic PROVE Spec => []CleanIsFresh
<1>1. TypeOK /\ Ordered /\ Fresh => CleanIsFresh
  <2> SUFFICES ASSUME TypeOK, Ordered, Fresh, NEW n \in Observers, state[n] = Clean, ~Marked(n)
               PROVE  SeesCurrent(n)
    BY FreshNodes DEF CleanIsFresh
  <2>1. \A t \in {Check, Dirty} : <<n, t>> \notin MarksIn(stack)
    BY DEF Marked, MarksIn
  <2>2. ASSUME NEW p \in seen[n]
        PROVE  Holds(p[1], p[2]) /\ state[p[1]] = Clean
    <3>1. p[1] \in confirmed[n] /\ confirmed[n] \subseteq deps[n] /\ state[n] # Dirty
      <4>1. p[1] \in confirmed[n]
        BY <2>2, FreshNodes
      <4> QED
        BY <4>1 DEF Ordered, EdgesRead, Clean, Dirty
    <3>2. Holds(p[1], p[2])
      BY <2>1, <2>2, <3>1, FreshNodes
    <3>3. p[1] \in deps[n]
      BY <3>1
    <3>4. state[p[1]] = Clean
      BY <2>1, <3>3, FreshNodes
    <3> QED
      BY <3>2, <3>4
  <2> QED
    BY <2>2 DEF SeesCurrent
<1> QED
  BY <1>1, FreshAlways, TypeCorrect, PTL

(* mark_stale queues only the effects that were Clean, so an effect that   *)
(* is not Clean must never be out of the queue, or no later write would    *)
(* run it: it is there, or being brought up to date.                       *)
THEOREM StaleQueued == ASSUME ClosuresOnlyRead, Acyclic PROVE Spec => []StaleEffectsQueued
<1>1. TypeOK /\ Fresh => StaleEffectsQueued
  BY FreshNodes DEF StaleEffectsQueued, TypeOK
<1> QED
  BY <1>1, FreshAlways, TypeCorrect, PTL

(* When notify_subscribers has nothing left to mark, every effect that     *)
(* reads the signal, through any number of computeds, is queued or being   *)
(* brought up to date.                                                     *)
THEOREM NotifiedQueued == ASSUME ClosuresOnlyRead, Acyclic PROVE Spec => []NotifiedAreQueued
<1>1. TypeOK /\ Deferred /\ Calls /\ Fresh => NotifiedAreQueued
  <2> SUFFICES ASSUME TypeOK, Deferred, Calls, Fresh, In("notify"), Top.marks = {},
                      NEW e \in Downstream(Top.node) \cap Effects
               PROVE  e \in Elements(pending) \/ Active(e)
    BY DEF NotifiedAreQueued
  <2> DEFINE A == {n \in Observers : state[n] # Clean}
  <2>1. Pop \in Seq(Frame) /\ Top \in Frame /\ stack = Append(Pop, Top) /\ Top.op = "notify"
    BY PushPop DEF Pop, Top, In, TypeOK
  <2>2. MarksIn(stack) = {}
    <3>1. CallsIn(Append(Pop, Top)) /\ DeferredIn(Append(Pop, Top))
      BY <2>1 DEF Calls, Deferred
    <3>2. MarksIn(Pop) = {}
      BY <2>1, <3>1, QuietBelow
    <3>3. MarksIn(Append(Pop, Top)) = MarksIn(Pop) \cup Top.marks
      BY <2>1, MarksPush
    <3> QED
      BY <2>1, <3>2, <3>3
  <2>3. Subs(Top.node) \subseteq A
    <3>1. Len(stack) \in DOMAIN stack
      BY DEF In, TypeOK
    <3>2. FreshNotify(Now, Top)
      BY <2>1, <3>1 DEF Fresh, FreshIn, FreshCalls, FreshCall, Top
    <3> QED
      BY <3>2, NowFields DEF FreshNotify, Subs, Clean, Dirty
  <2>4. \A m \in A : Subs(m) \subseteq A
    BY <2>2, FreshNodes DEF Subs
  <2>5. e \in A
    BY <2>3, <2>4 DEF Downstream
  <2> QED
    BY <2>5, FreshNodes
<1> QED
  BY <1>1, FreshAlways, CallsAlways, TypeCorrect, PTL

LEMMA NoneCounted ==
  ASSUME NEW s, s = <<>>, NEW op
  PROVE  CountIn(s, op) = 0
<1>1. {i \in DOMAIN s : s[i].op = op} = {}
  OBVIOUS
<1> QED
  BY <1>1, FS_EmptySet DEF CountIn

(* When no code runs and no microtask is due, the queues are empty and     *)
(* every effect has seen the current values: maybe_flush and the hook of   *)
(* the async scheduler leave no write without its effects.                 *)
THEOREM SettledIsFresh == ASSUME ClosuresOnlyRead, Acyclic PROVE Spec => []Settled
<1>1. TypeOK /\ WellNested /\ Deferred /\ Idle /\ StaleEffectsQueued /\ CleanIsFresh => Settled
  <2> SUFFICES ASSUME TypeOK, WellNested, Deferred, Idle, StaleEffectsQueued, CleanIsFresh,
                      stack = <<>>, microtasks = 0
               PROVE  /\ pending = <<>> /\ syncPending = <<>> /\ postFlush = <<>>
                      /\ \A e \in created : SeesCurrent(e)
    BY DEF Settled
  <2>1. DOMAIN stack = {}
    OBVIOUS
  <2>2. ~Held
    <3>1. batchDepth = 0 /\ ~flushing
      BY NoneCounted DEF WellNested, Count
    <3> QED
      BY <2>1, <3>1 DEF Held
  <2>3. pending = <<>> /\ postFlush = <<>>
    BY <2>2 DEF Idle, Work
  <2>4. ASSUME NEW e \in created
        PROVE  SeesCurrent(e)
    <3>1. Elements(pending) = {} /\ Elements(syncPending) = {}
      BY <2>3 DEF Elements, Deferred
    <3>2. ~Active(e) /\ ~Marked(e)
      BY <2>1 DEF Active, Marked
    <3>3. state[e] = Clean
      BY <2>4, <3>1, <3>2 DEF StaleEffectsQueued
    <3>4. e \in Observers
      BY <2>4 DEF TypeOK, Observers
    <3> QED
      BY <3>2, <3>3, <3>4 DEF CleanIsFresh
  <2> QED
    BY <2>3, <2>4 DEF Deferred
<1> QED
  BY <1>1, FreshReads, StaleQueued, CallsAlways, NestingCorrect, TypeCorrect, PTL

(* The expect("node has no value") of read_with and of update never fails: *)
(* when a read has pulled its node, the node has a value, unless a read    *)
(* closure further out holds it, and closures only read.                   *)
THEOREM NoExpectFails == ASSUME ClosuresOnlyRead, Acyclic PROVE Spec => []NoPanic
<1>1. Init => NoPanic
  BY DEF Init, NoPanic
<1>2. TypeOK /\ Deferred /\ Calls /\ Fresh /\ NoPanic /\ [Next]_vars => NoPanic'
  <2> SUFFICES ASSUME TypeOK, Deferred, Calls, Fresh, ~panicked, [Next]_vars
               PROVE  ~panicked'
    BY DEF NoPanic
  <2>1. ~ReadPanics
    <3> SUFFICES ASSUME stack # <<>>, Top.op \in {"get", "open"}, value[Top.node] = None
                 PROVE  FALSE
      BY DEF ReadPanics, In
    <3>1. Pop \in Seq(Frame) /\ Top \in Frame /\ stack = Append(Pop, Top)
      BY PushPop DEF Pop, Top, TypeOK
    <3>2. OutIn(stack) = {}
      <4>1. CallsIn(Append(Pop, Top)) /\ DeferredIn(Append(Pop, Top))
        BY <3>1 DEF Calls, Deferred
      <4>2. Top.op \notin {"with", "notify"}
        OBVIOUS
      <4>3. OutIn(Append(Pop, Top)) = {}
        BY <3>1, <4>1, <4>2, QuietBelow
      <4> QED
        BY <3>1, <4>3
    <3>3. state[Top.node] = Clean
      <4>1. FreshCalls(Now, OutIn(stack), Append(Pop, Top), {})
        BY <3>1 DEF Fresh, FreshIn
      <4>2. FreshCall(Now, OutIn(stack), Top, {})
        BY <3>1, <4>1, FreshCallsPop
      <4>3. FreshRead(Now, Top, {})
        BY <4>2 DEF FreshCall
      <4> QED
        BY <4>3, NowFields DEF FreshRead
    <3>4. Top.node \in Sources
      BY <3>1 DEF Frame, WellFormed
    <3> QED
      BY <3>2, <3>3, <3>4, FreshNodes DEF Clean, Dirty
  <2>2. \A c \in Code : ~UpdatePanics(c)
    BY DEF UpdatePanics, ClosuresOnlyRead
  <2>3. \A c \in Code : Get(c) \/ Open(c) \/ Set(c) \/ Update(c) \/ Batch(c) \/ NextTick(c) \/ CreateEffect(c)
                        => UNCHANGED panicked
    BY DEF Get, Open, Read, Set, Update, Batch, NextTick, CreateEffect
  <2>4. \/ FlushEffect \/ FlushTake \/ FlushCallback \/ FlushDone \/ FlushJobs \/ MarkStale
        \/ RunSyncEffect \/ NotifyDone \/ PullSource \/ PullRun \/ PullDone
        => UNCHANGED panicked
    BY DEF FlushEffect, FlushTake, FlushCallback, FlushDone, FlushJobs, MarkStale, RunSyncEffect,
           NotifyDone, PullSource, PullRun, PullDone
  <2>5. \/ FinishEffect \/ FinishComputed \/ EndGet \/ With \/ EndWith \/ EndBatch \/ EndTick
        \/ SetScheduler \/ ClearScheduler \/ UNCHANGED vars
        => UNCHANGED panicked
    BY DEF FinishEffect, FinishComputed, EndGet, With, EndWith, EndBatch, EndTick,
           SetScheduler, ClearScheduler, vars
  <2> QED
    BY <2>1, <2>2, <2>3, <2>4, <2>5 DEF Next, System, User
<1> QED
  BY <1>1, <1>2, FreshAlways, CallsAlways, TypeCorrect, PTL DEF Spec

-----------------------------------------------------------------------------
(* No wasted run.  Each write is followed by a flush: only the code outside *)
(* of all closures writes, it neither batches nor writes in a read closure, *)
(* and flushing is synchronous.  A signal that is mutated in place counts   *)
(* as one without equality check, because update notifies always.  Two     *)
(* writes before a flush can restore the value an effect has seen, and the  *)
(* effect they marked runs all the same.                                    *)

OneWritePerFlush ==
  /\ Habits = {} /\ CanUpdate \subseteq RawNodes
  /\ Main \notin CanBatch /\ CanWith[Main] = {} /\ CanWrite[Tick] = {}

(* No code of Main is waiting for a call that could run it again. *)
ByMain(f) == f.op \in UserOps \cup {"open"} /\ f.by = Main

AloneIn(s) == \A i \in DOMAIN s : ~ByMain(s[i])

MainAlone == ~scheduler /\ AloneIn(stack)

LEMMA AlonePush ==
  ASSUME NEW s \in Seq(Frame), NEW f \in Frame, AloneIn(s), ~ByMain(f)
  PROVE  AloneIn(Append(s, f))
<1> DEFINE t == Append(s, f)
<1>1. /\ t[Len(t)] = f
      /\ \A i \in DOMAIN s : t[i] = s[i]
      /\ \A i \in DOMAIN t : i \in DOMAIN s \/ i = Len(t)
  BY PushIndex
<1> HIDE DEF t
<1>2. AloneIn(t)
  BY <1>1 DEF AloneIn
<1> QED
  BY <1>2 DEF t

LEMMA AlonePop ==
  ASSUME NEW s \in Seq(Frame), s # <<>>, AloneIn(s)
  PROVE  AloneIn(SubSeq(s, 1, Len(s) - 1)) /\ ~ByMain(s[Len(s)])
<1> DEFINE t == SubSeq(s, 1, Len(s) - 1)
<1>1. Len(s) \in DOMAIN s /\ \A i \in DOMAIN t : i \in DOMAIN s /\ t[i] = s[i]
  BY PopIndex
<1> HIDE DEF t
<1>2. AloneIn(t) /\ ~ByMain(s[Len(s)])
  BY <1>1 DEF AloneIn
<1> QED
  BY <1>2 DEF t

LEMMA AloneNext ==
  ASSUME ClosuresOnlyRead, OneWritePerFlush, TypeOK, TypeOK', MainAlone, [Next]_vars
  PROVE  MainAlone'
<1> DEFINE Step == ~scheduler' /\ AloneIn(stack')
<1> USE DEF In
<1>1. stack \in Seq(Frame) /\ ~scheduler /\ AloneIn(stack) /\ Habits = {}
  BY DEF TypeOK, MainAlone, OneWritePerFlush
<1>2. SUFFICES Step
  BY DEF MainAlone, AloneIn, ByMain
<1>3. Tick # Main /\ Main \notin Observers
  BY ProgramAssumption DEF Nodes, Sources, Observers
<1>4. ASSUME stack # <<>>
      PROVE  Pop \in Seq(Frame) /\ AloneIn(Pop) /\ Top \in Frames /\ ~ByMain(Top)
  BY <1>1, <1>4, AlonePop, PopType, TopFrame DEF Pop, Top
<1>5. ASSUME NEW s \in Seq(Frame), AloneIn(s), NEW f \in Frame, f.op \notin UserOps \cup {"open"}
      PROVE  AloneIn(Append(s, f))
  BY <1>5, AlonePush DEF ByMain
<1>6. ASSUME NEW s \in Seq(Frame), AloneIn(s), NEW reading, ScheduleOrFlush(s) \/ MaybeFlush(s, reading)
      PROVE  Step
  <2>1. Call(s, "flush", None) \in Frame /\ Call(s, "flush", None).op = "flush"
    BY CallType, PlainCallType DEF Ops
  <2>2. AloneIn(Append(s, Call(s, "flush", None)))
    BY <1>5, <1>6, <2>1 DEF UserOps
  <2> QED
    BY <1>1, <1>6, <2>2 DEF MaybeFlush, ScheduleOrFlush, host
<1>7. ASSUME UNCHANGED scheduler, stack' = stack \/ (stack # <<>> /\ stack' = Pop)
      PROVE  Step
  BY <1>1, <1>4, <1>7
(* The innermost call goes on. *)
<1>8. ASSUME stack # <<>>, NEW f \in Frame, f.op = Top.op \/ f.op \notin UserOps \cup {"open"}, f.by = Top.by
      PROVE  AloneIn(Append(Pop, f)) /\ Append(Pop, f) \in Seq(Frame)
  <2>1. Pop \in Seq(Frame) /\ AloneIn(Pop) /\ ~ByMain(f)
    BY <1>4, <1>8 DEF ByMain
  <2> QED
    BY <2>1, AlonePush
<1> HIDE DEF Step
<1>10. CASE FlushEffect
  <2>1. Head(pending) \in Effects
    BY <1>10 DEF FlushEffect, TypeOK
  <2>2. Pull(stack, Head(pending)) \in Frame
    BY <1>1, <2>1, PullType DEF Nodes
  <2>3. AloneIn(stack')
    BY <1>1, <1>5, <1>10, <2>2, PullFields DEF FlushEffect, Push, UserOps
  <2> QED
    BY <1>1, <1>10, <2>3 DEF FlushEffect, Step, host
<1>11. CASE FlushTake
  <2>1. stack # <<>> /\ Top.op = "flush" /\ UNCHANGED scheduler
    BY <1>11 DEF FlushTake, host
  <2>2. /\ [Top EXCEPT !.cbs = postFlush].op = Top.op /\ [Top EXCEPT !.cbs = postFlush].by = Top.by
    BY <1>4, <2>1 DEF Frames
  <2> QED
    BY <1>1, <1>8, <1>11, <2>1, <2>2, FlushTakeIs DEF Step
<1>12. CASE FlushCallback
  <2>1. stack # <<>> /\ Top.op = "flush" /\ UNCHANGED scheduler
    BY <1>12 DEF FlushCallback, host
  <2>2. Rest.op = Top.op /\ Rest.by = Top.by
    BY <1>4, <2>1 DEF Rest, Frames
  <2> DEFINE rest == Append(Pop, Rest)
  <2>3. rest \in Seq(Frame) /\ AloneIn(rest)
    BY <1>8, <1>12, <2>1, <2>2, FlushCallbackIs
  <2>4. TickFrame(rest, Head(Top.cbs)) \in Frame /\ stack' = Append(rest, TickFrame(rest, Head(Top.cbs)))
    BY <1>12, FlushCallbackIs
  <2> HIDE DEF rest
  <2>5. ~ByMain(TickFrame(rest, Head(Top.cbs)))
    BY <1>3, TickFields DEF ByMain
  <2>6. AloneIn(stack')
    BY <2>3, <2>4, <2>5, AlonePush
  <2> QED
    BY <1>1, <2>1, <2>6 DEF Step
<1>13. CASE FlushDone \/ EndTick \/ PullDone \/ FinishEffect \/ FinishComputed
  <2>1. stack # <<>> /\ stack' = Pop /\ UNCHANGED scheduler
    BY <1>13 DEF FlushDone, EndTick, PullDone, FinishEffect, FinishComputed, host
  <2> QED
    BY <1>7, <2>1
<1>14. CASE FlushJobs
  <2>1. Call(stack, "flush", None) \in Frame /\ Call(stack, "flush", None).op = "flush"
    BY <1>1, CallType, PlainCallType DEF Ops
  <2>2. AloneIn(Append(stack, Call(stack, "flush", None)))
    BY <1>1, <1>5, <2>1 DEF UserOps
  <2> QED
    BY <1>1, <1>14, <2>2 DEF FlushJobs, Push, Step
<1>15. CASE MarkStale
  <2>1. stack # <<>> /\ Top.op = "notify" /\ UNCHANGED scheduler
    BY <1>15 DEF MarkStale, host
  <2>2. PICK marks : [Top EXCEPT !.marks = marks] \in Frame
                     /\ stack' = Append(Pop, [Top EXCEPT !.marks = marks])
    BY <1>15, MarkStaleIs
  <2>3. [Top EXCEPT !.marks = marks].op = Top.op /\ [Top EXCEPT !.marks = marks].by = Top.by
    BY <1>4, <2>1 DEF Frames
  <2> QED
    BY <1>1, <1>8, <2>1, <2>2, <2>3 DEF Step
<1>16. CASE RunSyncEffect
  <2>1. Head(syncPending) \in Effects
    BY <1>16 DEF RunSyncEffect, TypeOK
  <2>2. Pull(stack, Head(syncPending)) \in Frame
    BY <1>1, <2>1, PullType DEF Nodes
  <2>3. AloneIn(stack')
    BY <1>1, <1>5, <1>16, <2>2, PullFields DEF RunSyncEffect, Push, UserOps
  <2> QED
    BY <1>1, <1>16, <2>3 DEF RunSyncEffect, Step, host
<1>17. CASE NotifyDone \/ EndGet \/ EndWith \/ EndBatch
  <2>1. /\ stack # <<>>
        /\ \/ \E reading : ScheduleOrFlush(Pop) \/ MaybeFlush(Pop, reading)
           \/ stack' = Pop /\ UNCHANGED scheduler
    BY <1>17 DEF NotifyDone, EndGet, EndWith, EndBatch, host
  <2> QED
    BY <1>4, <1>6, <1>7, <2>1
<1>18. CASE PullSource
  <2>1. stack # <<>> /\ Top.op = "pull" /\ UNCHANGED scheduler
    BY <1>18 DEF PullSource, host
  <2>2. PICK d \in Top.todo :
           LET f == [Top EXCEPT !.todo = Top.todo \ {d}]
           IN /\ f \in Frame /\ Append(Pop, f) \in Seq(Frame)
              /\ Pull(Append(Pop, f), d) \in Frame
              /\ stack' = Append(Append(Pop, f), Pull(Append(Pop, f), d))
    BY <1>18, PullSourceIs
  <2> DEFINE f == [Top EXCEPT !.todo = Top.todo \ {d}]
             rest == Append(Pop, f)
  <2>3. f.op = "pull" /\ f.by = Top.by /\ f \in Frame
    BY <1>4, <2>1, <2>2 DEF Frames
  <2>4. rest \in Seq(Frame) /\ Pull(rest, d) \in Frame /\ stack' = Append(rest, Pull(rest, d))
    BY <2>2
  <2> HIDE DEF f
  <2>5. AloneIn(rest)
    BY <1>8, <2>1, <2>3
  <2> HIDE DEF rest
  <2>6. AloneIn(stack')
    BY <1>5, <2>4, <2>5, PullFields DEF UserOps
  <2> QED
    BY <1>1, <2>1, <2>6 DEF Step
<1>19. CASE PullRun
  <2> DEFINE f == [Call(stack, "body", Top.node) EXCEPT !.by = Top.node, !.obs = Top.node]
  <2>1. f \in Frame /\ stack' = Append(Pop, f) /\ f.by \in Observers
    BY <1>19, PullRunIs
  <2> HIDE DEF f
  <2>2. stack # <<>> /\ UNCHANGED scheduler /\ ~ByMain(f)
    BY <1>3, <1>19, <2>1 DEF PullRun, host, ByMain
  <2>3. AloneIn(stack')
    BY <1>4, <2>1, <2>2, AlonePush
  <2> QED
    BY <1>1, <2>2, <2>3 DEF Step
<1>20. CASE With
  <2> DEFINE f == [Top EXCEPT !.op = "with", !.val = value[Top.node]]
  <2>1. f \in Frame /\ stack' = Append(Pop, f) /\ f.op = "with" /\ f.by = Top.by
    BY <1>20, WithIs
  <2> HIDE DEF f
  <2>2. stack # <<>> /\ Top.op = "open" /\ UNCHANGED scheduler
    BY <1>20 DEF With, host
  <2>3. ~ByMain(f)
    BY <1>4, <2>1, <2>2 DEF ByMain
  <2>4. AloneIn(stack')
    BY <1>4, <2>1, <2>2, <2>3, AlonePush
  <2> QED
    BY <1>1, <2>2, <2>4 DEF Step
<1>21. CASE ReadPanics \/ SetScheduler \/ ClearScheduler \/ UNCHANGED vars
  <2>1. ~SetScheduler /\ ~ClearScheduler
    BY <1>1 DEF SetScheduler, ClearScheduler
  <2> QED
    BY <1>7, <1>21, <2>1 DEF ReadPanics, Panic, host, vars
<1>22. ASSUME NEW c \in Code, Runs(c)
       PROVE  CodeIn(stack) = c
  BY <1>22 DEF Runs, CodeIn, Top
<1>23. ASSUME NEW c \in Code, NEW d \in Sources, NEW op \in {"get", "open"}, Read(c, d, op),
              op = "open" => c # Main
       PROVE  Step
  <2> DEFINE read == Call(stack, op, d)
             reading == Append(stack, read)
  <2>1. read \in Frame /\ read.op = op /\ read.by = c
    <3>1. read \in Frame /\ read.op = op
      BY <1>1, CallType, PlainCallType DEF Ops, Nodes
    <3>2. read.by = CodeIn(stack)
      BY DEF Call
    <3> QED
      BY <1>22, <1>23, <3>1, <3>2 DEF Read
  <2>2. stack' = Append(reading, Pull(reading, d)) /\ UNCHANGED scheduler
    BY <1>23 DEF Read, Push, host
  <2> HIDE DEF read
  <2>3. reading \in Seq(Frame) /\ AloneIn(reading)
    <3>1. ~ByMain(read)
      BY <1>23, <2>1 DEF ByMain, UserOps
    <3> QED
      BY <1>1, <2>1, <3>1, AlonePush
  <2> HIDE DEF reading
  <2>4. Pull(reading, d) \in Frame
    BY <2>3, PullType DEF Nodes
  <2>5. AloneIn(stack')
    BY <1>5, <2>2, <2>3, <2>4, PullFields DEF UserOps
  <2> QED
    BY <1>1, <2>2, <2>5 DEF Step
<1>24. ASSUME NEW c \in Code, Get(c) \/ Open(c)
       PROVE  Step
  <2>1. CanRead[c] \subseteq Sources /\ CanWith[c] \subseteq Sources /\ CanWith[Main] = {}
    BY ProgramAssumption DEF OneWritePerFlush
  <2>2. CASE Get(c)
    BY <1>23, <2>1, <2>2 DEF Get
  <2>3. CASE Open(c)
    BY <1>23, <2>1, <2>3 DEF Open
  <2> QED
    BY <1>24, <2>2, <2>3
<1>25. ASSUME NEW c \in Code, Set(c) \/ Update(c)
       PROVE  Step
  <2>1. PICK s \in Signals : stack' = Notify(stack, s) \/ stack' = stack
    BY <1>25, ProgramAssumption DEF Set, Update
  <2> DEFINE f == [Call(stack, "notify", s) EXCEPT !.marks = Subs(s) \X {Dirty}]
  <2>2. f \in Frame /\ Notify(stack, s) = Append(stack, f) /\ f.op = "notify"
    BY <1>1, NotifyIs
  <2> HIDE DEF f
  <2>3. AloneIn(Append(stack, f))
    BY <1>1, <1>5, <2>2 DEF UserOps
  <2>4. AloneIn(stack')
    BY <1>1, <2>1, <2>2, <2>3
  <2>5. UNCHANGED scheduler
    BY <1>25 DEF Set, Update, host
  <2> QED
    BY <1>1, <2>4, <2>5 DEF Step
<1>26. ASSUME NEW c \in Code, UpdatePanics(c)
       PROVE  Step
  BY <1>7, <1>26 DEF UpdatePanics, Panic, host
<1>27. ASSUME NEW c \in Code, Batch(c)
       PROVE  Step
  <2>1. Call(stack, "batch", None) \in Frame
    BY <1>1, CallType, PlainCallType DEF Ops
  <2>2. Call(stack, "batch", None).by = c /\ c # Main
    BY <1>22, <1>27 DEF Batch, Call, OneWritePerFlush
  <2>3. AloneIn(Append(stack, Call(stack, "batch", None)))
    BY <1>1, <2>1, <2>2, AlonePush DEF ByMain
  <2> QED
    BY <1>1, <1>27, <2>3 DEF Batch, Push, host, Step
<1>28. ASSUME NEW c \in Code, NextTick(c)
       PROVE  Step
  <2>1. PICK t \in Ticks : \/ ScheduleOrFlush(stack) \/ (stack' = stack /\ UNCHANGED scheduler)
                           \/ (stack' = Append(stack, TickFrame(stack, t)) /\ UNCHANGED scheduler)
    BY <1>28 DEF NextTick, Push, host
  <2>2. TickFrame(stack, t) \in Frame /\ ~ByMain(TickFrame(stack, t))
    BY <1>1, <1>3, TickFrameType, TickFields DEF ByMain
  <2>3. AloneIn(Append(stack, TickFrame(stack, t)))
    BY <1>1, <2>2, AlonePush
  <2>4. CASE ScheduleOrFlush(stack)
    BY <1>1, <1>6, <2>4
  <2>5. CASE stack' = stack /\ UNCHANGED scheduler
    BY <1>7, <2>5
  <2>6. CASE stack' = Append(stack, TickFrame(stack, t)) /\ UNCHANGED scheduler
    BY <1>1, <2>3, <2>6 DEF Step
  <2> QED
    BY <2>1, <2>4, <2>5, <2>6
<1>29. ASSUME NEW c \in Code, CreateEffect(c)
       PROVE  Step
  <2>1. PICK e \in Effects : stack' = Append(stack, Call(stack, "pull", e)) /\ UNCHANGED scheduler
    BY <1>29 DEF CreateEffect, Push, host
  <2>2. Call(stack, "pull", e) \in Frame /\ Call(stack, "pull", e).op = "pull"
    BY <1>1, CallType, PlainCallType DEF Ops, Nodes
  <2>3. AloneIn(Append(stack, Call(stack, "pull", e)))
    BY <1>1, <1>5, <2>2 DEF UserOps
  <2> QED
    BY <1>1, <2>1, <2>3 DEF Step
<1> QED
  BY <1>10, <1>11, <1>12, <1>13, <1>14, <1>15, <1>16, <1>17, <1>18, <1>19, <1>20, <1>21,
     <1>24, <1>25, <1>26, <1>27, <1>28, <1>29
  DEF Next, System, User

LEMMA AloneAlways ==
  ASSUME ClosuresOnlyRead, OneWritePerFlush PROVE Spec => []MainAlone
<1>1. Init => MainAlone
  BY DEF Init, MainAlone, AloneIn
<1>2. TypeOK /\ TypeOK' /\ MainAlone /\ [Next]_vars => MainAlone'
  BY AloneNext
<1> QED
  BY <1>1, <1>2, TypeCorrect, PTL DEF Spec

(* A write finds nothing under way and every effect up to date. *)
LEMMA WritesAlone ==
  ASSUME ClosuresOnlyRead, OneWritePerFlush, TypeOK, WellNested, Idle, MainAlone, Fresh,
         NEW c \in Code, Set(c) \/ Update(c)
  PROVE  stack = <<>> /\ \A e \in Effects : state[e] = Clean
<1>1. c = Main
  <2>1. CanWrite[c] # {}
    BY DEF Set, Update
  <2> QED
    BY <2>1 DEF ClosuresOnlyRead, OneWritePerFlush, Code
<1>2. stack = <<>>
  <2> SUFFICES ASSUME stack # <<>>
               PROVE  FALSE
    OBVIOUS
  <2>1. Top.op \in UserOps /\ Top.by = Main
    BY <1>1 DEF Set, Update, Runs
  <2>2. ~ByMain(Top)
    BY AlonePop DEF MainAlone, TypeOK, Top
  <2> QED
    BY <2>1, <2>2 DEF ByMain
<1>3. DOMAIN stack = {} /\ batchDepth = 0 /\ ~flushing
  BY <1>2, NoneCounted DEF WellNested, Count
<1>4. pending = <<>>
  BY <1>2, <1>3 DEF Idle, Held, Work, MainAlone
<1>5. \A e \in Effects : ~Active(e) /\ e \notin Elements(pending)
  BY <1>3, <1>4 DEF Active, Elements
<1> QED
  BY <1>2, <1>5, FreshNodes

-----------------------------------------------------------------------------
(* The effects that will run: for each of those, one of the values its last *)
(* run saw accounts for it.  While a notification is under way only the     *)
(* signals are sure not to be recomputed before the effect runs, and later  *)
(* every source that is Clean.                                              *)

NotifiesIn(s) == \E i \in DOMAIN s : s[i].op = "notify"

Stands(p) == value[p[1]] = p[2] \/ p \in OutIn(stack)

Sure == IF NotifiesIn(stack) THEN Signals ELSE {d \in Sources : state[d] = Clean}

Reason(e) == \E p \in seen[e] : p[1] \in RawNodes \/ (p[1] \in Sure /\ ~Stands(p))

Stale(e) == state[e] = Dirty \/ <<e, Dirty>> \in MarksIn(stack)

Justified == \A e \in Effects \ BodiesIn(stack) : seen[e] # {} /\ Stale(e) => Reason(e)

(* A node that does not run has seen a value of each of its dependencies.  *)
Recorded ==
  \A n \in Observers \ BodiesIn(stack) : \A d \in deps[n] : \E p \in seen[n] : p[1] = d

(* Nothing is known of an effect that does not exist yet. *)
Born ==
  \A e \in Effects \ created :
    /\ state[e] = Clean /\ deps[e] = {} /\ seen[e] = {}
    /\ \A t \in {Check, Dirty} : <<e, t>> \notin MarksIn(stack)

LEMMA Contents ==
  ASSUME NEW s \in Seq(Frame), NEW f \in Frame
  PROVE  /\ BodiesIn(Append(s, f)) = BodiesIn(s) \cup (IF f.op = "body" THEN {f.node} ELSE {})
         /\ NotifiesIn(Append(s, f)) <=> NotifiesIn(s) \/ f.op = "notify"
<1> DEFINE t == Append(s, f)
<1>1. /\ t[Len(t)] = f /\ Len(t) \in DOMAIN t
      /\ \A i \in DOMAIN s : i \in DOMAIN t /\ t[i] = s[i]
      /\ \A i \in DOMAIN t : i \in DOMAIN s \/ i = Len(t)
  BY PushIndex
<1> HIDE DEF t
<1>2. BodiesIn(t) \subseteq BodiesIn(s) \cup (IF f.op = "body" THEN {f.node} ELSE {})
  BY <1>1 DEF BodiesIn
<1>3. BodiesIn(s) \subseteq BodiesIn(t)
  BY <1>1 DEF BodiesIn
<1>4. f.op = "body" => f.node \in BodiesIn(t)
  BY <1>1 DEF BodiesIn
<1>5. NotifiesIn(t) <=> NotifiesIn(s) \/ f.op = "notify"
  BY <1>1 DEF NotifiesIn
<1>6. BodiesIn(t) = BodiesIn(s) \cup (IF f.op = "body" THEN {f.node} ELSE {})
  BY <1>2, <1>3, <1>4
<1> QED
  BY <1>5, <1>6 DEF t

(* The same closures run, with the same marks to set and the same values   *)
(* lent, and no further notification is under way.                         *)
Alike(s, t) ==
  /\ BodiesIn(t) = BodiesIn(s) /\ MarksIn(t) = MarksIn(s) /\ OutIn(t) = OutIn(s)
  /\ NotifiesIn(t) => NotifiesIn(s)

LEMMA AlikePush ==
  ASSUME NEW s \in Seq(Frame), NEW f \in Frame, f.op \notin {"body", "with"}, f.marks = {}
  PROVE  /\ f.op # "notify" => Alike(s, Append(s, f))
         /\ Alike(Append(s, f), s)
<1> DEFINE t == Append(s, f)
<1>1. MarksIn(t) = MarksIn(s) /\ OutIn(t) = OutIn(s)
  <2>1. MarksIn(t) = MarksIn(s) \cup f.marks /\ OutIn(t) = OutIn(s)
    BY MarksPush
  <2> QED
    BY <2>1
<1>2. BodiesIn(t) = BodiesIn(s) /\ (NotifiesIn(t) <=> NotifiesIn(s) \/ f.op = "notify")
  BY Contents
<1> HIDE DEF t
<1>3. (f.op # "notify" => Alike(s, t)) /\ Alike(t, s)
  BY <1>1, <1>2 DEF Alike
<1> QED
  BY <1>3 DEF t

LEMMA AlikeSteps ==
  ASSUME NEW r, NEW s, NEW t, Alike(r, s), Alike(s, t)
  PROVE  Alike(r, t)
  BY DEF Alike

LEMMA AlikeFlush ==
  ASSUME NEW s \in Seq(Frame), NEW reading, ScheduleOrFlush(s) \/ MaybeFlush(s, reading)
  PROVE  Alike(s, stack')
<1>1. CASE stack' = s
  BY <1>1 DEF Alike
<1>2. ASSUME NEW f \in Frame, Outer(f), stack' = Append(s, f)
      PROVE  Alike(s, stack')
  BY <1>2, AlikePush DEF Outer, Inside
<1> QED
  BY <1>1, <1>2, FlushIsOuter

LEMMA AlikeOuterStep ==
  ASSUME TypeOK, OuterStep
  PROVE  Alike(stack, stack')
<1> USE DEF Outer, Inside
<1>1. PICK s \in Seq(Frame) :
        /\ \/ s = stack
           \/ stack # <<>> /\ s = Pop /\ Top.op \notin Inside \cup {"with"} /\ Top.marks = {}
        /\ \/ stack' = s
           \/ \E f \in Frame :
                /\ Outer(f)
                /\ \/ stack' = Append(s, f)
                   \/ \E e \in Frame : Outer(e) /\ stack' = Append(Append(s, f), e)
  BY DEF OuterStep
<1>2. Alike(stack, s)
  <2>1. CASE s = stack
    BY <2>1 DEF Alike
  <2>2. CASE stack # <<>> /\ s = Pop /\ Top.op \notin Inside \cup {"with"} /\ Top.marks = {}
    <3>1. stack \in Seq(Frame)
      BY DEF TypeOK
    <3>2. Top \in Frame /\ stack = Append(s, Top)
      BY <2>2, <3>1, PushPop DEF Top, Pop
    <3> QED
      BY <2>2, <3>2, AlikePush
  <2> QED
    BY <1>1, <2>1, <2>2
<1>3. CASE stack' = s
  BY <1>2, <1>3
<1>4. ASSUME NEW f \in Frame, Outer(f), stack' = Append(s, f)
      PROVE  Alike(s, stack')
  BY <1>4, AlikePush
<1>5. ASSUME NEW f \in Frame, Outer(f), NEW e \in Frame, Outer(e), stack' = Append(Append(s, f), e)
      PROVE  Alike(s, stack')
  <2> DEFINE t == Append(s, f)
  <2>1. t \in Seq(Frame) /\ Alike(s, t)
    BY <1>5, AlikePush, PushIndex
  <2> HIDE DEF t
  <2>2. stack' = Append(t, e)
    BY <1>5 DEF t
  <2>3. Alike(t, stack')
    BY <1>5, <2>1, <2>2, AlikePush
  <2> QED
    BY <2>1, <2>3, AlikeSteps
<1> QED
  BY <1>1, <1>2, <1>3, <1>4, <1>5, AlikeSteps

-----------------------------------------------------------------------------
(* What a step does to these facts. *)

(* It leaves the staleness of the nodes as it was. *)
Steady ==
  /\ state' = state /\ created' = created
  /\ BodiesIn(stack) \subseteq BodiesIn(stack') /\ MarksIn(stack') \subseteq MarksIn(stack)
  /\ NotifiesIn(stack') => NotifiesIn(stack)
  /\ \A n \in Observers \ BodiesIn(stack') : deps'[n] = deps[n] /\ seen'[n] = seen[n]
  /\ \A p \in Sources \X Values : Stands(p)' => Stands(p)

(* It brings n up to date; the value of a computed may change by that. *)
Settles(n) ==
  /\ ~NotifiesIn(stack) /\ ~NotifiesIn(stack') /\ MarksIn(stack) = {} /\ MarksIn(stack') = {}
  /\ OutIn(stack) = {} /\ OutIn(stack') = {}
  /\ created' = created /\ seen' = seen
  /\ BodiesIn(stack) \subseteq BodiesIn(stack') \cup {n}
  /\ n \in Nodes /\ state'[n] = Clean
  /\ \A m \in Observers \ {n} : deps'[m] = deps[m]
  /\ n \in Observers => deps'[n] \subseteq deps[n]
  /\ n \in Observers \ BodiesIn(stack') => \A d \in deps'[n] : \E p \in seen[n] : p[1] = d
  /\ \A x \in Sources \ {n} : value'[x] = value[x]
  /\ \/ value' = value /\ \A x \in Nodes \ {n} : state'[x] = state[x]
     \/ /\ n \in Sources /\ state[n] = Dirty
        /\ \A x \in Nodes \ {n} :
             \/ state'[x] = state[x]
             \/ x \in Subs(n) /\ state'[x] = Dirty /\ (n \in RawNodes \/ value'[n] # value[n])

(* A step of mark_stale. *)
Spreads ==
  /\ value' = value /\ deps' = deps /\ seen' = seen /\ created' = created
  /\ BodiesIn(stack') = BodiesIn(stack) /\ OutIn(stack') = OutIn(stack)
  /\ NotifiesIn(stack) /\ NotifiesIn(stack')
  /\ \A m \in MarksIn(stack') : m \in MarksIn(stack) \/ (m[2] = Check /\ deps[m[1]] # {})
  /\ \A x \in Nodes : state'[x] = state[x] \/ <<x, state'[x]>> \in MarksIn(stack)

(* A write that notifies, with every effect up to date. *)
Writes(s) ==
  /\ stack = <<>> /\ \A e \in Effects : state[e] = Clean
  /\ state' = state /\ deps' = deps /\ seen' = seen /\ created' = created
  /\ BodiesIn(stack') = {} /\ OutIn(stack') = {} /\ NotifiesIn(stack')
  /\ MarksIn(stack') = Subs(s) \X {Dirty}
  /\ s \in Signals /\ (s \in RawNodes \/ value'[s] # value[s])

Creates(e) ==
  /\ e \in Effects \ created /\ created' = created \cup {e}
  /\ value' = value /\ deps' = deps /\ seen' = seen /\ Alike(stack, stack')
  /\ \A x \in Nodes \ {e} : state'[x] = state[x]

LEMMA AlikeSteady ==
  ASSUME Alike(stack, stack'), value' = value, state' = state, created' = created,
         \A n \in Observers \ BodiesIn(stack') : deps'[n] = deps[n] /\ seen'[n] = seen[n]
  PROVE  Steady
<1>1. \A p : Stands(p)' <=> value'[p[1]] = p[2] \/ p \in OutIn(stack')
  BY DEF Stands, OutIn
<1> QED
  BY <1>1 DEF Steady, Alike, Stands

LEMMA SteadyOuter ==
  ASSUME TypeOK, TypeOK', Calls,
         \/ FlushTake \/ FlushCallback \/ FlushDone \/ FlushJobs \/ NotifyDone \/ EndBatch
         \/ EndTick \/ SetScheduler \/ ClearScheduler \/ ReadPanics \/ UNCHANGED vars
         \/ \E c \in Code : Batch(c) \/ NextTick(c) \/ UpdatePanics(c)
  PROVE  Steady
<1>1. UNCHANGED graph /\ Alike(stack, stack')
  BY OuterSteps, AlikeOuterStep DEF OuterStep
<1>2. created' = created
  <2>1. CASE FlushTake \/ FlushCallback \/ FlushDone \/ FlushJobs
    BY <2>1 DEF FlushTake, FlushCallback, FlushDone, FlushJobs
  <2>2. CASE NotifyDone \/ EndBatch \/ EndTick \/ SetScheduler \/ ClearScheduler
    BY <2>2 DEF NotifyDone, EndBatch, EndTick, SetScheduler, ClearScheduler
  <2>3. CASE ReadPanics \/ UNCHANGED vars
    BY <2>3 DEF ReadPanics, Panic, vars
  <2>4. ASSUME NEW c \in Code, Batch(c) \/ NextTick(c) \/ UpdatePanics(c)
        PROVE  created' = created
    BY <2>4 DEF Batch, NextTick, UpdatePanics, Panic
  <2> QED
    BY <2>1, <2>2, <2>3, <2>4
<1> QED
  BY <1>1, <1>2, AlikeSteady DEF graph

LEMMA SteadyPulls ==
  ASSUME TypeOK, TypeOK', Calls, FlushEffect \/ PullSource
  PROVE  Steady
<1> USE DEF In
<1>1. stack \in Seq(Frame) /\ stack # <<>>
  BY DEF TypeOK, FlushEffect, PullSource
<1>2. Alike(stack, stack')
  <2>1. CASE FlushEffect
    <3>1. Head(pending) \in Effects
      BY <2>1 DEF FlushEffect, TypeOK
    <3>2. Pull(stack, Head(pending)) \in Frame
      BY <1>1, <3>1, PullType DEF Nodes
    <3>3. Alike(stack, Append(stack, Pull(stack, Head(pending))))
      BY <1>1, <3>2, PullFields, AlikePush
    <3> QED
      BY <2>1, <3>3 DEF FlushEffect, Push
  <2>2. CASE PullSource
    <3>1. PICK d \in Top.todo :
             LET f == [Top EXCEPT !.todo = Top.todo \ {d}]
             IN /\ f \in Frame /\ Append(Pop, f) \in Seq(Frame)
                /\ Pull(Append(Pop, f), d) \in Frame
                /\ stack' = Append(Append(Pop, f), Pull(Append(Pop, f), d))
      BY <2>2, PullSourceIs
    <3> DEFINE f == [Top EXCEPT !.todo = Top.todo \ {d}]
               rest == Append(Pop, f)
    <3>2. Top.op = "pull" /\ Top.marks = {}
      <4>1. Top.op = "pull" /\ FrameOK(Top)
        BY <1>1, <2>2, LastType DEF PullSource, Calls, CallsIn, Top
      <4> QED
        BY <4>1 DEF FrameOK
    <3>3. f.op = "pull" /\ f.marks = {} /\ f \in Frame
      BY <1>1, <3>1, <3>2, TopFrame DEF Frames
    <3>4. rest \in Seq(Frame) /\ Pull(rest, d) \in Frame /\ stack' = Append(rest, Pull(rest, d))
      BY <3>1
    <3>5. Alike(stack, Pop)
      <4>1. stack = Append(Pop, Top) /\ Pop \in Seq(Frame) /\ Top \in Frame
        BY <1>1, PushPop DEF Pop, Top
      <4>2. Alike(Append(Pop, Top), Pop)
        BY <3>2, <4>1, AlikePush
      <4> QED
        BY <4>1, <4>2
    <3> HIDE DEF f
    <3>6. Alike(Pop, rest)
      BY <1>1, <3>3, TopFrame, AlikePush
    <3> HIDE DEF rest
    <3>7. Alike(rest, stack')
      BY <3>4, PullFields, AlikePush
    <3> QED
      BY <3>5, <3>6, <3>7, AlikeSteps
  <2> QED
    BY <2>1, <2>2
<1>3. UNCHANGED <<graph, created>>
  BY DEF FlushEffect, PullSource
<1> QED
  BY <1>2, <1>3, AlikeSteady DEF graph

LEMMA SteadyRead ==
  ASSUME ClosuresOnlyRead, TypeOK, TypeOK', Deferred, Calls, NEW c \in Code, Get(c) \/ Open(c)
  PROVE  Steady
<1>1. stack \in Seq(Frame) /\ CallsIn(stack)
  BY DEF TypeOK, Calls
<1>2. CanRead[c] \subseteq Sources /\ CanWith[c] \subseteq Sources
  BY ProgramAssumption
<1>3. PICK d \in Sources, op \in {"get", "open"} : Read(c, d, op)
  BY <1>2 DEF Get, Open
<1>4. Observer \in Observers => Observer \in BodiesIn(stack)
  <2>1. CodeIn(stack) = c /\ Runs(c)
    BY <1>3, Runners DEF Read
  <2>2. Observer = IF c \in UserCode THEN None ELSE c
    BY <1>1, <2>1, Inherits DEF Observer
  <2>3. ASSUME c \in Observers
        PROVE  c \in BodiesIn(stack)
    <3>1. stack # <<>> /\ Top.op \in {"body", "with"} /\ (Top.op = "body" => Top.node = c)
      BY <2>1, <2>3, Runners
    <3>2. Top.op # "with"
      BY <1>3, <3>1 DEF Read, InRead, ClosuresOnlyRead
    <3>3. Len(stack) \in DOMAIN stack
      BY <1>1, <3>1, LastType
    <3> QED
      BY <3>1, <3>2, <3>3 DEF BodiesIn, Top
  <2> QED
    BY <2>2, <2>3, ProgramAssumption DEF Nodes, Sources, Observers
<1> DEFINE read == Call(stack, op, d)
           reading == Append(stack, read)
<1>5. read \in Frame /\ read.op = op /\ read.marks = {}
  BY <1>1, CallType, PlainCallType DEF Ops, Nodes
<1>6. stack' = Append(reading, Pull(reading, d))
  BY <1>3 DEF Read, Push
<1> HIDE DEF read
<1>7. reading \in Seq(Frame) /\ Alike(stack, reading)
  BY <1>1, <1>5, PushIndex, AlikePush
<1> HIDE DEF reading
<1>8. Pull(reading, d) \in Frame
  BY <1>7, PullType DEF Nodes
<1>9. Alike(reading, stack')
  BY <1>6, <1>7, <1>8, PullFields, AlikePush
<1>10. Alike(stack, stack')
  BY <1>7, <1>9, AlikeSteps
<1>11. UNCHANGED <<value, state, seen, created>>
  BY <1>3 DEF Read
<1>12. \A n \in Observers \ BodiesIn(stack) : deps'[n] = deps[n]
  <2>1. CASE Observer = None
    BY <1>3, <2>1 DEF Read
  <2>2. CASE Observer # None
    <3>1. deps' = [deps EXCEPT ![Observer] = @ \cup {d}]
      BY <1>3, <2>2 DEF Read
    <3> QED
      BY <1>4, <3>1 DEF TypeOK
  <2> QED
    BY <2>1, <2>2
<1> QED
  BY <1>10, <1>11, <1>12, AlikeSteady DEF Alike

LEMMA SteadyRun ==
  ASSUME TypeOK, TypeOK', Calls, PullRun
  PROVE  Steady
<1> DEFINE n == Top.node
           f == [Call(stack, "body", n) EXCEPT !.by = n, !.obs = n]
<1>1. n \in Observers /\ f \in Frame /\ stack' = Append(Pop, f) /\ f.op = "body" /\ f.node = n
      /\ f.marks = {}
  BY PullRunIs
<1> HIDE DEF f
<1>2. stack \in Seq(Frame) /\ stack # <<>> /\ Top.op = "pull"
  BY DEF PullRun, In, TypeOK
<1>3. Pop \in Seq(Frame) /\ Top \in Frame /\ stack = Append(Pop, Top)
  BY <1>2, PushPop DEF Pop, Top
<1>4. Top.marks = {}
  BY <1>2, LastType DEF Calls, CallsIn, FrameOK, Top
<1>5. Alike(stack, Pop)
  <2>1. Alike(Append(Pop, Top), Pop)
    BY <1>2, <1>3, <1>4, AlikePush
  <2> QED
    BY <1>3, <2>1
<1>6. /\ BodiesIn(stack') = BodiesIn(Pop) \cup {n}
      /\ NotifiesIn(stack') <=> NotifiesIn(Pop)
  BY <1>1, <1>3, Contents
<1>7. MarksIn(stack') = MarksIn(Pop) /\ OutIn(stack') = OutIn(Pop)
  <2>1. MarksIn(stack') = MarksIn(Pop) \cup f.marks /\ OutIn(stack') = OutIn(Pop)
    BY <1>1, <1>3, MarksPush
  <2> QED
    BY <1>1, <2>1
<1>8. UNCHANGED <<value, state, deps, created>>
  BY DEF PullRun
<1>9. \A m \in Observers \ {n} : seen'[m] = seen[m]
  BY <1>1 DEF PullRun, TypeOK
<1>10. \A p : Stands(p)' <=> Stands(p)
  <2>1. \A p : Stands(p)' <=> value'[p[1]] = p[2] \/ p \in OutIn(stack')
    BY DEF Stands, OutIn
  <2> QED
    BY <1>5, <1>7, <1>8, <2>1 DEF Stands, Alike
<1> QED
  BY <1>5, <1>6, <1>7, <1>8, <1>9, <1>10 DEF Steady, Alike

(* Deliver changes what the running closure has seen, if one reads. *)
LEMMA DeliversToBody ==
  ASSUME TypeOK, Calls, stack # <<>>, Top.op \in {"get", "open"}, NEW d, Deliver(d)
  PROVE  /\ Pop \in Seq(Frame) /\ Top \in Frame /\ stack = Append(Pop, Top) /\ Top.marks = {}
         /\ Alike(stack, Pop)
         /\ \A n \in Observers \ BodiesIn(Pop) : seen'[n] = seen[n]
<1>1. Pop \in Seq(Frame) /\ Top \in Frame /\ stack = Append(Pop, Top)
  BY PushPop DEF TypeOK, Pop, Top
<1>2. Top.marks = {}
  BY LastType DEF Calls, CallsIn, FrameOK, Top, TypeOK
<1>3. Alike(stack, Pop)
  <2>1. Alike(Append(Pop, Top), Pop)
    BY <1>1, <1>2, AlikePush
  <2> QED
    BY <1>1, <2>1
<1>4. Observer = Top.obs
  BY DEF Observer, ObserverIn, Top
<1>5. Observer # None => Observer \in BodiesIn(Pop)
  <2>1. CallsIn(Append(Pop, Top))
    BY <1>1 DEF Calls
  <2>2. Top.obs # None => Pop # <<>> /\ Pop[Len(Pop)].op = "body" /\ Pop[Len(Pop)].node = Top.obs
    BY <1>1, <2>1, ReadBy
  <2>3. Pop # <<>> => Len(Pop) \in DOMAIN Pop
    BY <1>1, LastType
  <2> QED
    BY <1>4, <2>2, <2>3 DEF BodiesIn
<1>6. \A n \in Observers \ BodiesIn(Pop) : seen'[n] = seen[n]
  BY <1>5 DEF Deliver, TypeOK
<1> QED
  BY <1>1, <1>2, <1>3, <1>6

LEMMA SteadyGet ==
  ASSUME TypeOK, TypeOK', Calls, EndGet
  PROVE  Steady
<1>1. stack # <<>> /\ Top.op = "get" /\ Deliver(Top.node) /\ MaybeFlush(Pop, readingDepth)
  BY DEF EndGet, In
<1>2. /\ Pop \in Seq(Frame) /\ Alike(stack, Pop)
      /\ \A n \in Observers \ BodiesIn(Pop) : seen'[n] = seen[n]
  BY <1>1, DeliversToBody
<1>3. Alike(Pop, stack')
  BY <1>1, <1>2, AlikeFlush
<1>4. UNCHANGED <<value, state, deps, created>>
  BY DEF EndGet
<1>5. Alike(stack, stack')
  BY <1>2, <1>3, AlikeSteps
<1>6. BodiesIn(stack') = BodiesIn(Pop)
  BY <1>3 DEF Alike
<1> QED
  BY <1>2, <1>4, <1>5, <1>6, AlikeSteady

LEMMA SteadyWith ==
  ASSUME TypeOK, TypeOK', Deferred, Calls, With
  PROVE  Steady
<1> DEFINE d == Top.node
           f == [Top EXCEPT !.op = "with", !.val = value[d]]
<1>1. f \in Frame /\ stack' = Append(Pop, f) /\ f.op = "with" /\ f.node = d /\ f.val = value[d]
      /\ f.marks = Top.marks
  BY WithIs
<1> HIDE DEF f
<1>2. stack # <<>> /\ Top.op = "open" /\ Deliver(d) /\ value[d] # None
      /\ value' = [value EXCEPT ![d] = None] /\ UNCHANGED <<state, deps, created>>
  BY DEF With, In
<1>3. /\ Pop \in Seq(Frame) /\ Top \in Frame /\ stack = Append(Pop, Top) /\ Top.marks = {}
      /\ Alike(stack, Pop)
      /\ \A n \in Observers \ BodiesIn(Pop) : seen'[n] = seen[n]
  BY <1>2, DeliversToBody
<1>4. BodiesIn(stack') = BodiesIn(Pop) /\ (NotifiesIn(stack') <=> NotifiesIn(Pop))
  BY <1>1, <1>3, Contents
<1>5. MarksIn(stack') = MarksIn(Pop) /\ OutIn(stack') = OutIn(Pop) \cup {<<d, value[d]>>}
  <2>1. MarksIn(stack') = MarksIn(Pop) \cup f.marks /\ OutIn(stack') = OutIn(Pop) \cup {<<f.node, f.val>>}
    BY <1>1, <1>3, MarksPush
  <2> QED
    BY <1>1, <1>3, <2>1
<1>6. d \in Sources
  BY <1>2, <1>3 DEF Frame, WellFormed
<1>7. ASSUME NEW p \in Sources \X Values, Stands(p)'
      PROVE  Stands(p)
  <2>1. value'[p[1]] = p[2] \/ p \in OutIn(stack')
    BY <1>7 DEF Stands, OutIn
  <2>2. p[1] \in Sources /\ p[2] \in Values /\ p[2] # None
    BY ProgramAssumption
  <2>3. CASE value'[p[1]] = p[2]
    <3>1. p[1] # d /\ value[p[1]] = p[2]
      BY <1>2, <1>6, <2>2, <2>3 DEF TypeOK
    <3> QED
      BY <3>1 DEF Stands
  <2>4. CASE p \in OutIn(Pop)
    BY <1>3, <2>4 DEF Alike, Stands
  <2>5. CASE p = <<d, value[d]>>
    BY <2>5 DEF Stands
  <2> QED
    BY <1>5, <2>1, <2>3, <2>4, <2>5
<1> QED
  BY <1>2, <1>3, <1>4, <1>5, <1>7 DEF Steady, Alike

LEMMA SteadyEndWith ==
  ASSUME TypeOK, TypeOK', Deferred, Calls, EndWith
  PROVE  Steady
<1> DEFINE d == Top.node
<1>1. stack # <<>> /\ Top.op = "with" /\ MaybeFlush(Pop, readingDepth - 1)
      /\ value' = [value EXCEPT ![d] = Top.val] /\ UNCHANGED <<state, deps, seen, created>>
  BY DEF EndWith, In
<1>2. Pop \in Seq(Frame) /\ Top \in Frame /\ stack = Append(Pop, Top)
  BY <1>1, PushPop DEF TypeOK, Pop, Top
<1>3. Top.marks = {}
  BY <1>1, LastType DEF Calls, CallsIn, FrameOK, Top, TypeOK
<1>4. Alike(Pop, stack')
  BY <1>1, <1>2, AlikeFlush
<1>5. BodiesIn(stack) = BodiesIn(Pop) /\ (NotifiesIn(stack) <=> NotifiesIn(Pop))
  <2>1. LET t == Append(Pop, Top)
        IN BodiesIn(t) = BodiesIn(Pop) /\ (NotifiesIn(t) <=> NotifiesIn(Pop))
    BY <1>1, <1>2, Contents
  <2> QED
    BY <1>2, <2>1
<1>6. MarksIn(stack) = MarksIn(Pop) /\ OutIn(stack) = OutIn(Pop) \cup {<<d, Top.val>>}
  <2>1. LET t == Append(Pop, Top)
        IN MarksIn(t) = MarksIn(Pop) \cup Top.marks /\ OutIn(t) = OutIn(Pop) \cup {<<d, Top.val>>}
    BY <1>1, <1>2, MarksPush
  <2> QED
    BY <1>2, <1>3, <2>1
<1>7. d \in Sources
  BY <1>1, <1>2 DEF Frame, WellFormed
<1>8. ASSUME NEW p \in Sources \X Values, Stands(p)'
      PROVE  Stands(p)
  <2>1. value'[p[1]] = p[2] \/ p \in OutIn(stack')
    BY <1>8 DEF Stands, OutIn
  <2>2. p[1] \in Sources /\ p = <<p[1], p[2]>>
    OBVIOUS
  <2>3. CASE p \in OutIn(stack')
    BY <1>4, <1>6, <2>3 DEF Alike, Stands
  <2>4. CASE value'[p[1]] = p[2] /\ p[1] = d
    <3>1. p = <<d, Top.val>>
      BY <1>1, <1>7, <2>2, <2>4 DEF TypeOK
    <3> QED
      BY <1>6, <3>1 DEF Stands
  <2>5. CASE value'[p[1]] = p[2] /\ p[1] # d
    <3>1. value[p[1]] = p[2]
      BY <1>1, <2>2, <2>5 DEF TypeOK
    <3> QED
      BY <3>1 DEF Stands
  <2> QED
    BY <2>1, <2>3, <2>4, <2>5
<1> QED
  BY <1>1, <1>4, <1>5, <1>6, <1>8 DEF Steady, Alike

(* The innermost call pulls n, or runs its closure, and returns. *)
LEMMA ReturnsFrom ==
  ASSUME TypeOK, Deferred, Calls, In("pull") \/ In("body"), stack' = Pop
  PROVE  /\ Pop \in Seq(Frame) /\ Top \in Frame /\ stack = Append(Pop, Top)
         /\ ~NotifiesIn(stack) /\ ~NotifiesIn(stack') /\ MarksIn(stack) = {} /\ MarksIn(stack') = {}
         /\ OutIn(stack) = {} /\ OutIn(stack') = {}
         /\ BodiesIn(stack) = BodiesIn(stack') \cup (IF Top.op = "body" THEN {Top.node} ELSE {})
<1>1. stack # <<>> /\ Top.op \in {"pull", "body"}
  BY DEF In
<1>2. Pop \in Seq(Frame) /\ Top \in Frame /\ stack = Append(Pop, Top)
  BY <1>1, PushPop DEF TypeOK, Pop, Top
<1>3. CallsIn(Append(Pop, Top)) /\ DeferredIn(Append(Pop, Top))
  BY <1>2 DEF Calls, Deferred
<1>4. /\ MarksIn(Pop) = {} /\ OutIn(Pop) = {} /\ ~NotifiesIn(Pop)
      /\ MarksIn(Append(Pop, Top)) = {} /\ OutIn(Append(Pop, Top)) = {}
  BY <1>1, <1>2, <1>3, QuietBelow DEF NotifiesIn
<1>5. LET t == Append(Pop, Top)
      IN /\ BodiesIn(t) = BodiesIn(Pop) \cup (IF Top.op = "body" THEN {Top.node} ELSE {})
         /\ ~NotifiesIn(t)
  BY <1>1, <1>2, <1>4, Contents
<1> QED
  BY <1>2, <1>4, <1>5

LEMMA DoneSettles ==
  ASSUME TypeOK, TypeOK', Deferred, Calls, Recorded, PullDone
  PROVE  \E n \in Nodes : Settles(n)
<1> DEFINE n == Top.node
<1>1. In("pull") /\ stack' = Pop /\ SetClean(n) /\ UNCHANGED <<value, deps, seen, created>>
  BY DEF PullDone
<1>2. /\ Top \in Frame /\ Top.op = "pull"
      /\ ~NotifiesIn(stack) /\ ~NotifiesIn(stack') /\ MarksIn(stack) = {} /\ MarksIn(stack') = {}
      /\ OutIn(stack) = {} /\ OutIn(stack') = {} /\ BodiesIn(stack) = BodiesIn(stack')
  <2>1. Top.op = "pull"
    BY <1>1 DEF In
  <2> QED
    BY <1>1, <2>1, ReturnsFrom
<1>3. n \in Nodes /\ state'[n] = Clean /\ \A x \in Nodes \ {n} : state'[x] = state[x]
  BY <1>1, <1>2 DEF Frame, WellFormed, SetClean, TypeOK
<1>4. n \in Observers \ BodiesIn(stack') => \A d \in deps'[n] : \E p \in seen[n] : p[1] = d
  BY <1>1, <1>2 DEF Recorded
<1>5. Settles(n)
  BY <1>1, <1>2, <1>3, <1>4 DEF Settles
<1> QED
  BY <1>3, <1>5 DEF Settles

LEMMA FinishSettles ==
  ASSUME ClosuresOnlyRead, TypeOK, TypeOK', Deferred, Calls, Ordered, Fresh,
         FinishEffect \/ FinishComputed
  PROVE  \E n \in Nodes : Settles(n)
<1> DEFINE n == Top.node
<1>1. In("body") /\ stack' = Pop /\ EndTracking(n) /\ UNCHANGED <<seen, created>>
  BY DEF FinishEffect, FinishComputed
<1>2. Top.op = "body"
  BY <1>1 DEF In
<1>3. /\ Pop \in Seq(Frame) /\ Top \in Frame /\ stack = Append(Pop, Top)
      /\ ~NotifiesIn(stack) /\ ~NotifiesIn(stack') /\ MarksIn(stack) = {} /\ MarksIn(stack') = {}
      /\ OutIn(stack) = {} /\ OutIn(stack') = {} /\ BodiesIn(stack) = BodiesIn(stack') \cup {n}
  BY <1>1, <1>2, ReturnsFrom
<1>4. n \in Observers /\ n \in Nodes
  BY <1>2, <1>3 DEF Frame, WellFormed, Observers, Nodes, Sources
<1>5. FreshBody(Now, OutIn(stack), Top, {})
  <2>1. FreshCalls(Now, OutIn(stack), Append(Pop, Top), {})
    BY <1>3 DEF Fresh, FreshIn
  <2>2. FreshCall(Now, OutIn(stack), Top, {})
    BY <1>3, <2>1, FreshCallsPop
  <2> QED
    BY <1>2, <2>2 DEF FreshCall
<1>6. state[n] = Dirty /\ \A d \in confirmed[n] : \E p \in seen[n] : p[1] = d
  BY <1>5, NowFields DEF FreshBody
<1>7. /\ deps'[n] = confirmed[n] /\ confirmed[n] \subseteq deps[n]
      /\ \A m \in Observers \ {n} : deps'[m] = deps[m]
  BY <1>1, <1>4 DEF EndTracking, TypeOK, Ordered, EdgesRead
<1>8. ASSUME FinishEffect
      PROVE  Settles(n)
  <2>1. SetClean(n) /\ value' = value
    BY <1>8 DEF FinishEffect
  <2>2. state'[n] = Clean /\ \A x \in Nodes \ {n} : state'[x] = state[x]
    BY <1>4, <2>1 DEF SetClean, TypeOK
  <2> QED
    BY <1>1, <1>3, <1>4, <1>6, <1>7, <2>1, <2>2 DEF Settles
<1>9. ASSUME FinishComputed
      PROVE  Settles(n)
  <2>1. PICK v \in Values :
           LET subs == IF Changed(n, v) THEN Subs(n) \ {n} ELSE {}
           IN /\ value' = [value EXCEPT ![n] = v]
              /\ state' = [x \in Nodes |-> IF x = n THEN Clean
                                           ELSE IF x \in subs THEN Dirty ELSE state[x]]
    BY <1>9 DEF FinishComputed
  <2>2. n \in Sources
    BY <1>9 DEF FinishComputed, Sources
  <2>3. value'[n] = v /\ \A x \in Sources \ {n} : value'[x] = value[x]
    BY <2>1, <2>2 DEF TypeOK
  <2>4. state'[n] = Clean
    BY <1>4, <2>1
  <2>5. ASSUME NEW x \in Nodes \ {n}
        PROVE  \/ state'[x] = state[x]
               \/ x \in Subs(n) /\ state'[x] = Dirty /\ (n \in RawNodes \/ value'[n] # value[n])
    BY <2>1, <2>3, <2>5 DEF Changed
  <2> QED
    BY <1>1, <1>3, <1>4, <1>6, <1>7, <2>2, <2>3, <2>4, <2>5 DEF Settles
<1>10. Settles(n)
  BY <1>8, <1>9
<1> QED
  BY <1>4, <1>10 DEF Settles

LEMMA MarkSpreads ==
  ASSUME TypeOK, TypeOK', MarkStale
  PROVE  Spreads
<1>1. PICK m \in Top.marks :
         LET n == m[1]
             more == IF Escalates(n, m[2]) THEN {<<x, Check>> : x \in Subs(n)} ELSE {}
             f == [Top EXCEPT !.marks = (Top.marks \ {m}) \cup more]
         IN /\ n \in Observers /\ m[2] \in {Check, Dirty} /\ m = <<n, m[2]>>
            /\ f \in Frame /\ stack' = Append(Pop, f)
            /\ state' = IF Escalates(n, m[2]) THEN [state EXCEPT ![n] = m[2]] ELSE state
  BY MarkStaleIs
<1> DEFINE n == m[1]
           more == IF Escalates(n, m[2]) THEN {<<x, Check>> : x \in Subs(n)} ELSE {}
           f == [Top EXCEPT !.marks = (Top.marks \ {m}) \cup more]
<1>2. stack # <<>> /\ Top.op = "notify" /\ UNCHANGED <<value, deps, seen, created>>
  BY DEF MarkStale, In
<1>3. Pop \in Seq(Frame) /\ Top \in Frame /\ stack = Append(Pop, Top) /\ Top \in Frames
  BY <1>2, PushPop DEF TypeOK, Pop, Top, Frame
<1>4. f.op = "notify" /\ f.marks = (Top.marks \ {m}) \cup more
  BY <1>2, <1>3 DEF Frames
<1>5. \A x \in more : x[2] = Check /\ deps[x[1]] # {}
  BY DEF Subs
<1>6. f \in Frame /\ stack' = Append(Pop, f)
  BY <1>1
<1> HIDE DEF f, more
<1>7. LET t == Append(Pop, Top)
      IN /\ BodiesIn(t) = BodiesIn(Pop) /\ NotifiesIn(t) /\ MarksIn(t) = MarksIn(Pop) \cup Top.marks
         /\ OutIn(t) = OutIn(Pop)
  BY <1>2, <1>3, Contents, MarksPush
<1>8. /\ BodiesIn(stack) = BodiesIn(Pop) /\ NotifiesIn(stack)
      /\ MarksIn(stack) = MarksIn(Pop) \cup Top.marks /\ OutIn(stack) = OutIn(Pop)
  BY <1>3, <1>7
<1>9. LET t == Append(Pop, f)
      IN /\ BodiesIn(t) = BodiesIn(Pop) /\ NotifiesIn(t) /\ MarksIn(t) = MarksIn(Pop) \cup f.marks
         /\ OutIn(t) = OutIn(Pop)
  BY <1>3, <1>4, <1>6, Contents, MarksPush
<1>10. /\ BodiesIn(stack') = BodiesIn(Pop) /\ NotifiesIn(stack')
       /\ MarksIn(stack') = MarksIn(Pop) \cup f.marks /\ OutIn(stack') = OutIn(Pop)
  BY <1>6, <1>9
<1>11. ASSUME NEW k \in MarksIn(stack')
       PROVE  k \in MarksIn(stack) \/ (k[2] = Check /\ deps[k[1]] # {})
  BY <1>4, <1>5, <1>8, <1>10, <1>11
<1>12. ASSUME NEW x \in Nodes
       PROVE  state'[x] = state[x] \/ <<x, state'[x]>> \in MarksIn(stack)
  <2>1. state' = state \/ state' = [state EXCEPT ![n] = m[2]]
    BY <1>1
  <2>2. <<n, m[2]>> \in MarksIn(stack)
    BY <1>1, <1>8
  <2> QED
    BY <2>1, <2>2 DEF TypeOK
<1> QED
  BY <1>2, <1>8, <1>10, <1>11, <1>12 DEF Spreads

LEMMA SetWrites ==
  ASSUME ClosuresOnlyRead, OneWritePerFlush, TypeOK, TypeOK', WellNested, Idle, MainAlone, Fresh,
         NEW c \in Code, Set(c) \/ Update(c)
  PROVE  Steady \/ \E s \in Signals : Writes(s)
<1>1. stack = <<>> /\ stack \in Seq(Frame) /\ \A e \in Effects : state[e] = Clean
  BY WritesAlone DEF TypeOK
<1>2. UNCHANGED <<state, deps, seen, created>>
  BY DEF Set, Update
<1>3. PICK s \in Signals, v \in Values :
         /\ value' = [value EXCEPT ![s] = v]
         /\ \/ stack' = Notify(stack, s) /\ (s \in RawNodes \/ value[s] # v)
            \/ stack' = stack /\ value[s] = v
  <2>1. CanWrite[c] \subseteq Signals /\ CanUpdate \subseteq RawNodes
    BY ProgramAssumption DEF OneWritePerFlush
  <2>2. CASE Set(c)
    BY <2>1, <2>2 DEF Set, Changed
  <2>3. CASE Update(c)
    BY <2>1, <2>3 DEF Update
  <2> QED
    BY <2>2, <2>3
<1>4. value'[s] = v
  BY <1>3 DEF TypeOK, Sources
<1>5. CASE stack' = stack /\ value[s] = v
  <2>1. value' = value
    BY <1>3, <1>5 DEF TypeOK
  <2>2. Alike(stack, stack')
    BY <1>5 DEF Alike
  <2> QED
    BY <1>2, <2>1, <2>2, AlikeSteady
<1>6. CASE stack' = Notify(stack, s) /\ (s \in RawNodes \/ value[s] # v)
  <2> DEFINE f == [Call(stack, "notify", s) EXCEPT !.marks = Subs(s) \X {Dirty}]
  <2>1. f \in Frame /\ stack' = Append(stack, f) /\ f.op = "notify" /\ f.marks = Subs(s) \X {Dirty}
    BY <1>1, <1>6, NotifyIs
  <2> HIDE DEF f
  <2>2. LET t == Append(stack, f)
        IN /\ BodiesIn(t) = BodiesIn(stack) /\ NotifiesIn(t) /\ OutIn(t) = OutIn(stack)
           /\ MarksIn(t) = MarksIn(stack) \cup (Subs(s) \X {Dirty})
    BY <1>1, <2>1, Contents, MarksPush
  <2>3. BodiesIn(stack) = {} /\ OutIn(stack) = {} /\ MarksIn(stack) = {}
    BY <1>1 DEF BodiesIn, OutIn, MarksIn
  <2> QED
    BY <1>1, <1>2, <1>4, <1>6, <2>1, <2>2, <2>3 DEF Writes
<1> QED
  BY <1>3, <1>5, <1>6

LEMMA EffectCreates ==
  ASSUME TypeOK, TypeOK', NEW c \in Code, CreateEffect(c)
  PROVE  \E e \in Effects : Creates(e)
<1>1. PICK e \in Effects \ created :
         /\ created' = created \cup {e} /\ state' = [state EXCEPT ![e] = Dirty]
         /\ stack' = Append(stack, Call(stack, "pull", e))
  BY DEF CreateEffect, Push
<1>2. /\ Call(stack, "pull", e) \in Frame /\ Call(stack, "pull", e).op = "pull"
      /\ Call(stack, "pull", e).marks = {}
  BY CallType, PlainCallType DEF Ops, Nodes, TypeOK
<1>3. Alike(stack, stack')
  BY <1>1, <1>2, AlikePush DEF TypeOK
<1>4. UNCHANGED <<value, deps, seen>>
  BY DEF CreateEffect
<1>5. \A x \in Nodes \ {e} : state'[x] = state[x]
  BY <1>1 DEF TypeOK
<1> QED
  BY <1>1, <1>3, <1>4, <1>5 DEF Creates

(* Every step is one of these. *)
GraphStep ==
  \/ Steady \/ Spreads
  \/ \E n \in Nodes : Settles(n)
  \/ \E s \in Signals : Writes(s)
  \/ \E e \in Effects : Creates(e)

LEMMA Steps ==
  ASSUME ClosuresOnlyRead, OneWritePerFlush, TypeOK, TypeOK', WellNested, Deferred, Calls, Idle,
         Ordered, Fresh, MainAlone, Recorded, [Next]_vars
  PROVE  GraphStep
<1>1. Steady \/ Spreads => GraphStep
  BY DEF GraphStep
<1>2. /\ (\E n \in Nodes : Settles(n)) => GraphStep
      /\ (\E s \in Signals : Writes(s)) => GraphStep
      /\ (\E e \in Effects : Creates(e)) => GraphStep
  BY DEF GraphStep
<1>3. CASE \/ FlushTake \/ FlushCallback \/ FlushDone \/ FlushJobs \/ NotifyDone \/ EndBatch
           \/ EndTick \/ SetScheduler \/ ClearScheduler \/ ReadPanics \/ UNCHANGED vars
  BY <1>1, <1>3, SteadyOuter
<1>4. CASE FlushEffect \/ PullSource
  BY <1>1, <1>4, SteadyPulls
<1>5. CASE RunSyncEffect
  BY <1>5 DEF RunSyncEffect, Deferred
<1>6. CASE PullRun
  BY <1>1, <1>6, SteadyRun
<1>7. CASE EndGet
  BY <1>1, <1>7, SteadyGet
<1>8. CASE With
  BY <1>1, <1>8, SteadyWith
<1>9. CASE EndWith
  BY <1>1, <1>9, SteadyEndWith
<1>10. CASE PullDone
  BY <1>2, <1>10, DoneSettles
<1>11. CASE FinishEffect \/ FinishComputed
  BY <1>2, <1>11, FinishSettles
<1>12. CASE MarkStale
  BY <1>1, <1>12, MarkSpreads
<1>13. ASSUME NEW c \in Code, User(c)
       PROVE  GraphStep
  <2>1. CASE Get(c) \/ Open(c)
    BY <1>1, <2>1, SteadyRead
  <2>2. CASE Set(c) \/ Update(c)
    BY <1>1, <1>2, <2>2, SetWrites
  <2>3. CASE Batch(c) \/ NextTick(c) \/ UpdatePanics(c)
    BY <1>1, <2>3, SteadyOuter
  <2>4. CASE CreateEffect(c)
    BY <1>2, <2>4, EffectCreates
  <2> QED
    BY <1>13, <2>1, <2>2, <2>3, <2>4 DEF User
<1> QED
  BY <1>3, <1>4, <1>5, <1>6, <1>7, <1>8, <1>9, <1>10, <1>11, <1>12, <1>13 DEF Next, System

(* A closure that runs belongs to a node that is Dirty. *)
LEMMA BodiesDirty ==
  ASSUME NEW g, NEW W, NEW s, FreshCalls(g, W, s, {})
  PROVE  \A n \in BodiesIn(s) : g.state[n] = Dirty
<1> TAKE n \in BodiesIn(s)
<1>1. PICK i \in DOMAIN s : s[i].op = "body" /\ s[i].node = n
  BY DEF BodiesIn
<1>2. FreshCall(g, W, s[i], Awaited(s, i, {}))
  BY DEF FreshCalls
<1> QED
  BY <1>1, <1>2 DEF FreshCall, FreshBody

LEMMA SubsType == \A d : Subs(d) \subseteq Observers /\ \A n \in Subs(d) : d \in deps[n]
  BY DEF Subs

LEMMA BornNext ==
  ASSUME TypeOK, Fresh, Fresh', Born, GraphStep
  PROVE  Born'
<1> SUFFICES ASSUME NEW e \in Effects, e \notin created'
             PROVE  /\ state'[e] = Clean /\ deps'[e] = {} /\ seen'[e] = {}
                    /\ \A t \in {Check, Dirty} : <<e, t>> \notin MarksIn(stack')
  BY DEF Born, MarksIn
<1>1. e \in Observers /\ e \in Nodes
  BY DEF Observers, Nodes
<1>2. /\ \A n \in BodiesIn(stack) : state[n] = Dirty
      /\ \A n \in BodiesIn(stack') : state'[n] = Dirty
  <2>1. FreshCalls(Now, OutIn(stack), stack, {}) /\ FreshCalls(Now', OutIn(stack'), stack', {})
    BY DEF Fresh, FreshIn, FreshCalls, FreshCall, FreshPull, FreshRead, FreshBody, FreshNotify,
           Awaited, NodeOf, OutIn, Current
  <2> QED
    BY <2>1, BodiesDirty, NowFields
<1>3. ASSUME e \notin created
      PROVE  /\ state[e] = Clean /\ deps[e] = {} /\ seen[e] = {}
             /\ \A t \in {Check, Dirty} : <<e, t>> \notin MarksIn(stack)
             /\ e \notin BodiesIn(stack) /\ \A d : e \notin Subs(d)
  <2>1. /\ state[e] = Clean /\ deps[e] = {} /\ seen[e] = {}
        /\ \A t \in {Check, Dirty} : <<e, t>> \notin MarksIn(stack)
    BY <1>3 DEF Born
  <2>2. e \notin BodiesIn(stack)
    BY <1>2, <2>1 DEF Clean, Dirty
  <2> QED
    BY <1>1, <2>1, <2>2, SubsType
<1>4. CASE Steady
  <2>1. e \notin created /\ state' = state /\ MarksIn(stack') \subseteq MarksIn(stack)
    BY <1>4 DEF Steady
  <2>2. e \notin BodiesIn(stack')
    BY <1>2, <1>3, <2>1 DEF Clean, Dirty
  <2>3. deps'[e] = deps[e] /\ seen'[e] = seen[e]
    BY <1>1, <1>4, <2>2 DEF Steady
  <2> QED
    BY <1>3, <2>1, <2>3
<1>5. CASE Spreads
  <2>1. e \notin created /\ deps' = deps /\ seen' = seen
    BY <1>5 DEF Spreads
  <2>2. state'[e] = state[e] \/ (<<e, state'[e]>> \in MarksIn(stack) /\ state'[e] \in {Check, Dirty})
    BY <1>1, <1>5 DEF Spreads, MarksIn
  <2>3. ASSUME NEW t, <<e, t>> \in MarksIn(stack')
        PROVE  <<e, t>> \in MarksIn(stack) \/ deps[e] # {}
    BY <1>5, <2>3 DEF Spreads
  <2> QED
    BY <1>3, <2>1, <2>2, <2>3
<1>6. ASSUME NEW n \in Nodes, Settles(n)
      PROVE  /\ state'[e] = Clean /\ deps'[e] = {} /\ seen'[e] = {} /\ MarksIn(stack') = {}
  <2>1. e \notin created /\ seen' = seen /\ MarksIn(stack') = {}
    BY <1>6 DEF Settles
  <2>2. state'[e] = Clean
    BY <1>1, <1>3, <1>6, <2>1 DEF Settles
  <2>3. deps'[e] = {}
    <3>1. CASE e = n
      BY <1>1, <1>3, <1>6, <2>1, <3>1 DEF Settles
    <3>2. CASE e # n
      BY <1>1, <1>3, <1>6, <2>1, <3>2 DEF Settles
    <3> QED
      BY <3>1, <3>2
  <2> QED
    BY <1>3, <2>1, <2>2, <2>3
<1>7. ASSUME NEW s \in Signals, Writes(s)
      PROVE  /\ state'[e] = Clean /\ deps'[e] = {} /\ seen'[e] = {}
             /\ \A t : <<e, t>> \notin MarksIn(stack')
  <2>1. /\ e \notin created /\ state' = state /\ deps' = deps /\ seen' = seen
        /\ MarksIn(stack') = Subs(s) \X {Dirty}
    BY <1>7 DEF Writes
  <2> QED
    BY <1>3, <2>1
<1>8. ASSUME NEW n \in Effects, Creates(n)
      PROVE  /\ state'[e] = Clean /\ deps'[e] = {} /\ seen'[e] = {}
             /\ \A t \in {Check, Dirty} : <<e, t>> \notin MarksIn(stack')
  <2>1. e \notin created /\ e # n /\ state'[e] = state[e] /\ deps' = deps /\ seen' = seen
        /\ MarksIn(stack') = MarksIn(stack)
    BY <1>1, <1>8 DEF Creates, Alike
  <2> QED
    BY <1>3, <2>1
<1> QED
  BY <1>4, <1>5, <1>6, <1>7, <1>8 DEF GraphStep

LEMMA RecordedNext ==
  ASSUME TypeOK, Recorded, GraphStep
  PROVE  Recorded'
<1> SUFFICES ASSUME NEW n \in Observers, n \notin BodiesIn(stack')
             PROVE  \A d \in deps'[n] : \E p \in seen'[n] : p[1] = d
  BY DEF Recorded, BodiesIn
<1>1. ASSUME n \notin BodiesIn(stack)
      PROVE  \A d \in deps[n] : \E p \in seen[n] : p[1] = d
  BY <1>1 DEF Recorded
<1>2. CASE Steady
  <2>1. n \notin BodiesIn(stack) /\ deps'[n] = deps[n] /\ seen'[n] = seen[n]
    BY <1>2 DEF Steady
  <2> QED
    BY <1>1, <2>1
<1>3. CASE Spreads
  BY <1>1, <1>3 DEF Spreads
<1>4. ASSUME NEW m \in Nodes, Settles(m)
      PROVE  \A d \in deps'[n] : \E p \in seen'[n] : p[1] = d
  <2>1. seen' = seen
    BY <1>4 DEF Settles
  <2>2. CASE n = m
    <3>1. \A d \in deps'[n] : \E p \in seen[n] : p[1] = d
      BY <1>4, <2>2 DEF Settles
    <3> QED
      BY <2>1, <3>1
  <2>3. CASE n # m
    <3>1. n \notin BodiesIn(stack) /\ deps'[n] = deps[n]
      BY <1>4, <2>3 DEF Settles
    <3> QED
      BY <1>1, <2>1, <3>1
  <2> QED
    BY <2>2, <2>3
<1>5. ASSUME NEW s \in Signals, Writes(s)
      PROVE  \A d \in deps'[n] : \E p \in seen'[n] : p[1] = d
  <2>1. n \notin BodiesIn(stack) /\ deps' = deps /\ seen' = seen
    BY <1>5 DEF Writes, BodiesIn
  <2> QED
    BY <1>1, <2>1
<1>6. ASSUME NEW e \in Effects, Creates(e)
      PROVE  \A d \in deps'[n] : \E p \in seen'[n] : p[1] = d
  BY <1>1, <1>6 DEF Creates, Alike
<1> QED
  BY <1>2, <1>3, <1>4, <1>5, <1>6 DEF GraphStep

LEMMA JustifiedNext ==
  ASSUME TypeOK, TypeOK', Fresh, Born, Recorded, Justified, GraphStep
  PROVE  Justified'
<1> DEFINE Account(e) == \E p \in seen'[e] : p[1] \in RawNodes \/ (p[1] \in Sure' /\ ~Stands(p)')
<1>1. SUFFICES ASSUME NEW e \in Effects, e \notin BodiesIn(stack'), seen'[e] # {},
                      state'[e] = Dirty \/ <<e, Dirty>> \in MarksIn(stack')
               PROVE  Account(e)
  BY DEF Justified, Stale, Reason, BodiesIn, MarksIn
<1>2. e \in Observers /\ e \in Nodes /\ seen[e] \subseteq Sources \X Values
      /\ seen'[e] \subseteq Sources \X Values /\ Signals \subseteq Sources
  BY DEF Observers, Nodes, Sources, TypeOK
<1>3. Signals \subseteq Sure
  BY DEF Sure, TypeOK, Sources
<1>4. /\ Sure' = IF NotifiesIn(stack') THEN Signals ELSE {d \in Sources : state'[d] = Clean}
      /\ \A p : Stands(p)' <=> value'[p[1]] = p[2] \/ p \in OutIn(stack')
  BY DEF Sure, Stands, NotifiesIn, OutIn
(* What was seen before still accounts for the run. *)
<1>5. ASSUME e \notin BodiesIn(stack), Stale(e), seen'[e] = seen[e], Sure \subseteq Sure',
             \A p \in Sources \X Values : p[1] \in Sure /\ Stands(p)' => Stands(p)
      PROVE  Account(e)
  <2>1. PICK p \in seen[e] : p[1] \in RawNodes \/ (p[1] \in Sure /\ ~Stands(p))
    BY <1>1, <1>5 DEF Justified, Reason
  <2> QED
    BY <1>2, <1>5, <2>1
<1> HIDE DEF Account
<1>6. CASE Steady
  <2>1. /\ state' = state /\ BodiesIn(stack) \subseteq BodiesIn(stack')
        /\ MarksIn(stack') \subseteq MarksIn(stack) /\ seen'[e] = seen[e]
        /\ NotifiesIn(stack') => NotifiesIn(stack)
        /\ \A p \in Sources \X Values : Stands(p)' => Stands(p)
    BY <1>1, <1>2, <1>6 DEF Steady
  <2>2. Sure \subseteq Sure'
    BY <1>3, <1>4, <2>1, <1>2 DEF Sure, TypeOK
  <2>3. Stale(e)
    BY <1>1, <2>1 DEF Stale
  <2> QED
    BY <1>1, <1>5, <2>1, <2>2, <2>3
<1>7. CASE Spreads
  <2>1. /\ BodiesIn(stack') = BodiesIn(stack) /\ seen' = seen /\ value' = value
        /\ NotifiesIn(stack) /\ NotifiesIn(stack') /\ OutIn(stack') = OutIn(stack)
    BY <1>7 DEF Spreads
  <2>2. Sure' = Sure
    BY <1>4, <2>1 DEF Sure
  <2>3. \A p : Stands(p)' <=> Stands(p)
    BY <1>4, <2>1 DEF Stands
  <2>4. Stale(e)
    <3>1. CASE state'[e] = Dirty
      BY <1>2, <1>7, <3>1 DEF Spreads, Stale
    <3>2. CASE <<e, Dirty>> \in MarksIn(stack')
      BY <1>7, <3>2 DEF Spreads, Stale, Check, Dirty
    <3> QED
      BY <1>1, <3>1, <3>2
  <2> QED
    BY <1>1, <1>5, <2>1, <2>2, <2>3, <2>4
<1>8. ASSUME NEW n \in Nodes, Settles(n)
      PROVE  Account(e)
  <2>1. /\ ~NotifiesIn(stack) /\ ~NotifiesIn(stack') /\ MarksIn(stack) = {} /\ MarksIn(stack') = {}
        /\ OutIn(stack) = {} /\ OutIn(stack') = {} /\ seen' = seen /\ state'[n] = Clean
        /\ BodiesIn(stack) \subseteq BodiesIn(stack') \cup {n}
        /\ \A x \in Sources \ {n} : value'[x] = value[x]
    BY <1>8 DEF Settles
  <2>2. state'[e] = Dirty /\ e # n /\ e \notin BodiesIn(stack)
    BY <1>1, <2>1 DEF Clean, Dirty
  <2>3. /\ Sure = {d \in Sources : state[d] = Clean}
        /\ Sure' = {d \in Sources : state'[d] = Clean}
        /\ \A p : Stands(p) <=> value[p[1]] = p[2]
        /\ \A p : Stands(p)' <=> value'[p[1]] = p[2]
    BY <1>4, <2>1 DEF Sure, Stands
  <2>4. CASE value' = value /\ \A x \in Nodes \ {n} : state'[x] = state[x]
    <3>1. Stale(e) /\ Sure \subseteq Sure'
      BY <1>2, <2>1, <2>2, <2>3, <2>4 DEF Stale, Nodes
    <3> QED
      BY <1>5, <2>1, <2>2, <2>3, <2>4, <3>1
  <2>5. CASE /\ n \in Sources /\ state[n] = Dirty
             /\ \A x \in Nodes \ {n} :
                  \/ state'[x] = state[x]
                  \/ x \in Subs(n) /\ state'[x] = Dirty /\ (n \in RawNodes \/ value'[n] # value[n])
    (* The subscribers of n were not Clean. *)
    <3>1. \A x \in Subs(n) : x \in Observers /\ n \in deps[x] /\ state[x] # Clean
      <4>1. \A x \in Observers : \A d \in deps[x] : state[d] = Clean \/ state[x] # Clean
        BY <2>1, FreshNodes
      <4> QED
        BY <2>5, <4>1, SubsType DEF Clean, Dirty
    <3>2. \A d \in Sure : d # n /\ d \in Sure'
      BY <2>3, <2>5, <3>1 DEF Nodes, Clean, Dirty
    <3>3. CASE state[e] = Dirty
      <4>1. \A p \in Sources \X Values : p[1] \in Sure /\ Stands(p)' => Stands(p)
        BY <2>1, <2>3, <3>2
      <4> QED
        BY <1>5, <2>1, <2>2, <3>2, <3>3, <4>1 DEF Stale
    <3>4. CASE state[e] # Dirty
      <4>1. e \in Subs(n) /\ (n \in RawNodes \/ value'[n] # value[n])
        BY <1>2, <2>2, <2>5, <3>4
      <4>2. PICK p \in seen[e] : p[1] = n
        BY <1>2, <2>2, <3>1, <4>1 DEF Recorded
      <4>3. Stands(p)
        <5>1. Sound(Now, MarksIn(stack), OutIn(stack))
          BY DEF Fresh, FreshIn
        <5>2. Current(Now, OutIn(stack), p)
          BY <1>2, <2>1, <3>4, <4>2, <5>1, NowFields DEF Sound
        <5> QED
          BY <5>2, NowFields DEF Current, Stands
      <4>4. p[1] \in RawNodes \/ (p[1] \in Sure' /\ ~Stands(p)')
        BY <2>1, <2>3, <2>5, <4>1, <4>2, <4>3
      <4> QED
        BY <2>1, <4>4 DEF Account
    <3> QED
      BY <3>3, <3>4
  <2> QED
    BY <1>8, <2>4, <2>5 DEF Settles
<1>9. ASSUME NEW s \in Signals, Writes(s)
      PROVE  Account(e)
  <2>1. /\ stack = <<>> /\ state[e] = Clean /\ state'[e] = Clean
        /\ seen' = seen /\ OutIn(stack') = {} /\ NotifiesIn(stack')
        /\ MarksIn(stack') = Subs(s) \X {Dirty}
        /\ s \in RawNodes \/ value'[s] # value[s]
    BY <1>9 DEF Writes
  <2>2. s \in deps[e]
    <3>1. <<e, Dirty>> \in Subs(s) \X {Dirty}
      BY <1>1, <2>1 DEF Clean, Dirty
    <3> QED
      BY <3>1, SubsType
  <2>3. MarksIn(stack) = {} /\ OutIn(stack) = {} /\ BodiesIn(stack) = {}
    BY <2>1 DEF MarksIn, OutIn, BodiesIn
  <2>4. PICK p \in seen[e] : p[1] = s
    BY <1>2, <2>2, <2>3 DEF Recorded
  <2>5. value[s] = p[2]
    <3>1. Sound(Now, {}, {})
      BY <2>3 DEF Fresh, FreshIn
    <3>2. Current(Now, {}, p)
      BY <1>2, <2>1, <2>4, <3>1, NowFields DEF Sound, Clean, Dirty
    <3> QED
      BY <2>4, <3>2, NowFields DEF Current
  <2>6. p[1] \in RawNodes \/ (p[1] \in Sure' /\ ~Stands(p)')
    BY <1>4, <2>1, <2>4, <2>5
  <2> QED
    BY <2>1, <2>4, <2>6 DEF Account
<1>10. ASSUME NEW n \in Effects, Creates(n)
       PROVE  Account(e)
  <2>1. /\ n \notin created /\ value' = value /\ seen' = seen
        /\ BodiesIn(stack') = BodiesIn(stack) /\ MarksIn(stack') = MarksIn(stack)
        /\ OutIn(stack') = OutIn(stack) /\ (NotifiesIn(stack') => NotifiesIn(stack))
        /\ \A x \in Nodes \ {n} : state'[x] = state[x]
    BY <1>10 DEF Creates, Alike
  <2>2. seen[n] = {}
    BY <2>1 DEF Born
  <2>3. e # n /\ Stale(e)
    BY <1>1, <1>2, <2>1, <2>2 DEF Stale
  <2>4. \A d \in Sources : state'[d] = state[d]
    BY <2>1, ProgramAssumption DEF Nodes, Sources
  <2>5. Sure \subseteq Sure'
    BY <1>2, <1>4, <2>1, <2>4 DEF Sure, TypeOK
  <2>6. \A p : Stands(p)' <=> Stands(p)
    BY <1>4, <2>1 DEF Stands
  <2> QED
    BY <1>1, <1>5, <2>1, <2>3, <2>5, <2>6
<1> QED
  BY <1>6, <1>7, <1>8, <1>9, <1>10 DEF GraphStep

(* The only step that starts a closure. *)
LEMMA RunIsPull ==
  ASSUME TypeOK, TypeOK', NEW e \in Effects, StartsBody(e), [Next]_vars
  PROVE  state[e] = Dirty /\ e \notin BodiesIn(stack)
<1> USE DEF In
<1>1. /\ ~panicked /\ stack # <<>> /\ Top.op = "pull" /\ Top.node = e
      /\ Len(stack') = Len(stack) /\ stack'[Len(stack)].op = "body"
  BY DEF StartsBody
<1>2. Len(stack) \in Nat \ {0} /\ Len(Pop) = Len(stack) - 1 /\ stack[Len(stack)].op = "pull"
  BY <1>1, PopIndex DEF TypeOK, Pop, Top
<1>3. PullRun
  <2>1. stack' # stack /\ stack' # Pop
    BY <1>1, <1>2
  <2>2. ~PullSource
    <3>1. ASSUME PullSource
          PROVE  FALSE
      <4>1. PICK d \in Top.todo :
               LET f == [Top EXCEPT !.todo = Top.todo \ {d}]
               IN /\ f \in Frame /\ Append(Pop, f) \in Seq(Frame)
                  /\ Pull(Append(Pop, f), d) \in Frame
                  /\ stack' = Append(Append(Pop, f), Pull(Append(Pop, f), d))
        BY <3>1, PullSourceIs
      <4> DEFINE f == [Top EXCEPT !.todo = Top.todo \ {d}]
                 rest == Append(Pop, f)
      <4>2. rest \in Seq(Frame) /\ Len(rest) = Len(stack)
        BY <1>1, <1>2, <4>1, TopFrame, PushIndex
      <4>3. Pull(rest, d) \in Frame /\ stack' = Append(rest, Pull(rest, d))
        BY <4>1
      <4> HIDE DEF rest
      <4>4. Len(stack') = Len(stack) + 1
        BY <4>2, <4>3, PushIndex
      <4> QED
        BY <1>1, <1>2, <4>4
    <3> QED
      BY <3>1
  <2>3. ~PullDone
    BY <2>1 DEF PullDone
  <2>4. \A c \in Code : ~Runs(c)
    BY <1>1 DEF Runs, UserOps
  <2>5. ~SetScheduler /\ ~ClearScheduler /\ ~UNCHANGED vars
    BY <1>1, <2>1 DEF SetScheduler, ClearScheduler, Runs, UserOps, vars
  <2>6. \A c \in Code : ~User(c)
    <3> TAKE c \in Code
    <3>1. ~Runs(c)
      BY <2>4
    <3> QED
      BY <3>1 DEF User, Get, Open, Read, Set, Update, UpdatePanics, Batch, NextTick, CreateEffect
  <2>7. ~(FlushEffect \/ FlushTake \/ FlushCallback \/ FlushDone \/ FlushJobs)
    BY <1>1 DEF FlushEffect, FlushTake, FlushCallback, FlushDone, FlushJobs
  <2>8. ~(MarkStale \/ RunSyncEffect \/ NotifyDone \/ EndBatch \/ EndTick)
    BY <1>1 DEF MarkStale, RunSyncEffect, NotifyDone, EndBatch, EndTick
  <2>9. ~(FinishEffect \/ FinishComputed \/ EndGet \/ With \/ EndWith \/ ReadPanics)
    BY <1>1 DEF FinishEffect, FinishComputed, EndGet, With, EndWith, ReadPanics
  <2> QED
    BY <2>2, <2>3, <2>5, <2>6, <2>7, <2>8, <2>9 DEF Next, System
<1>4. state[e] = Dirty /\ ~Taken(e)
  BY <1>1, <1>3 DEF PullRun
<1> QED
  BY <1>4, TakenIs

(* No wasted run: an effect runs again only if a value it saw has changed,  *)
(* or comes from a source without equality check (update_if_necessary,     *)
(* runtime.rs), in programs that write once per flush.                      *)
THEOREM NoRunWasted ==
  ASSUME ClosuresOnlyRead, Acyclic, OneWritePerFlush PROVE Spec => NoWastedRun
<1> DEFINE Known == /\ TypeOK /\ WellNested /\ Deferred /\ Calls /\ Idle /\ Ordered /\ Fresh
                    /\ MainAlone
           Accounted == Born /\ Recorded /\ Justified
           Step == \A e \in Effects :
                     StartsBody(e) /\ seen[e] # {}
                       => \E p \in seen[e] : p[1] \in RawNodes \/ ~Holds(p[1], p[2])
<1>1. Init => Accounted
  <2> SUFFICES ASSUME Init
               PROVE  Born /\ Recorded /\ Justified
    OBVIOUS
  <2>1. /\ \A e \in Effects : state[e] = Clean /\ deps[e] = {} /\ seen[e] = {}
        /\ \A n \in Observers : deps[n] = {}
        /\ MarksIn(stack) = {}
    BY ProgramAssumption DEF Init, Nodes, Observers, MarksIn
  <2> QED
    BY <2>1 DEF Born, Recorded, Justified
<1>2. Known /\ Known' /\ Accounted /\ [Next]_vars => Accounted'
  <2> SUFFICES ASSUME Known, Known', Accounted, [Next]_vars
               PROVE  Accounted'
    OBVIOUS
  <2>1. GraphStep
    BY Steps
  <2> QED
    BY <2>1, BornNext, RecordedNext, JustifiedNext
<1>3. Known /\ Known' /\ Accounted /\ [Next]_vars => [Step]_vars
  <2> SUFFICES ASSUME Known, Known', Accounted, [Next]_vars,
                      NEW e \in Effects, StartsBody(e), seen[e] # {}
               PROVE  \E p \in seen[e] : p[1] \in RawNodes \/ ~Holds(p[1], p[2])
    OBVIOUS
  <2>1. state[e] = Dirty /\ e \notin BodiesIn(stack)
    BY RunIsPull
  <2>2. PICK p \in seen[e] : p[1] \in RawNodes \/ (p[1] \in Sure /\ ~Stands(p))
    BY <2>1 DEF Justified, Stale, Reason
  <2>3. p \in Sources \X Values
    BY DEF TypeOK, Observers
  <2>4. Holds(p[1], p[2]) => Stands(p)
    BY <2>3 DEF Holds, Stands, OutIn
  <2> QED
    BY <2>2, <2>4
<1>4. Spec => []Known
  BY TypeCorrect, NestingCorrect, CallsAlways, FreshAlways, AloneAlways, PTL
<1> QED
  BY <1>1, <1>2, <1>3, <1>4, PTL DEF Spec, NoWastedRun

=============================================================================
