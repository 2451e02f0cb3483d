--------------------------- MODULE Runtime_proofs ---------------------------
(***************************************************************************)
(* Theorems about the runtime, for every graph and every program: type     *)
(* correctness, the agreement of its counters with its stack of calls, and *)
(* that its dependency edges change as DepGraph.tla says.                  *)
(***************************************************************************)
EXTENDS RuntimeProperties, FiniteSetTheorems, SequenceTheorems, TLAPS

-----------------------------------------------------------------------------
(* Frames and the stack *)

LEMMA LastType ==
  ASSUME NEW S, NEW s \in Seq(S), s # <<>>
  PROVE  s[Len(s)] \in S /\ Len(s) \in DOMAIN s /\ Len(s) \in Nat \ {0}
  OBVIOUS

LEMMA PopType ==
  ASSUME NEW S, NEW s \in Seq(S), s # <<>>
  PROVE  SubSeq(s, 1, Len(s) - 1) \in Seq(S)
  OBVIOUS

LEMMA ReplaceType ==
  ASSUME NEW S, NEW s \in Seq(S), s # <<>>, NEW f \in S
  PROVE  [s EXCEPT ![Len(s)] = f] \in Seq(S)
  OBVIOUS

LEMMA InheritedType ==
  ASSUME NEW s \in Seq(Frame)
  PROVE  /\ CodeIn(s) \in Code
         /\ ObserverIn(s) \in Observers \cup {None}
         /\ <<>> \in Seq(Ticks)
<1>1. CodeIn(s) \in Code
  BY LastType DEF CodeIn, Frame, Frames, Code
<1>2. ObserverIn(s) \in Observers \cup {None}
  BY LastType DEF ObserverIn, Frame, Frames
<1> QED
  BY <1>1, <1>2

LEMMA CallType ==
  ASSUME NEW s \in Seq(Frame), NEW op \in Ops, NEW node \in Nodes \cup {None}
  PROVE  /\ Call(s, op, node) \in Frames
         /\ Call(s, op, node).op = op /\ Call(s, op, node).node = node
         /\ Call(s, op, node).cbs = <<>> /\ Call(s, op, node).marks = {}
         /\ Call(s, op, node).obs = ObserverIn(s)
<1>1. CodeIn(s) \in Code /\ ObserverIn(s) \in Observers \cup {None} /\ <<>> \in Seq(Ticks)
  BY InheritedType
<1> QED
  BY <1>1 DEF Call, Frames

LEMMA PlainCallType ==
  ASSUME NEW s \in Seq(Frame), NEW op \in Ops, NEW node \in Nodes \cup {None},
         \/ op = "pull" /\ node \in Nodes
         \/ op \in {"get", "open"} /\ node \in Sources
         \/ op = "notify" /\ node \in Signals
         \/ op \in {"flush", "batch"}
  PROVE  Call(s, op, node) \in Frame
<1>1. Call(s, op, node) \in Frames /\ Call(s, op, node).op = op /\ Call(s, op, node).node = node
  BY CallType
<1> QED
  BY <1>1 DEF Frame, WellFormed

LEMMA PullType ==
  ASSUME NEW s \in Seq(Frame), NEW d \in Nodes, TypeOK
  PROVE  Pull(s, d) \in Frame
<1> DEFINE todo == IF state[d] = Check THEN deps[d] ELSE {}
           f == Call(s, "pull", d)
<1>1. f \in Frames /\ f.op = "pull" /\ f.node = d
  BY CallType DEF Ops
<1>2. todo \in SUBSET Sources
  BY DEF TypeOK, Nodes, Sources, Observers, Clean, Check
<1>3. Pull(s, d) = [f EXCEPT !.todo = todo]
  BY DEF Pull
<1> HIDE DEF todo, f
<1> QED
  BY <1>1, <1>2, <1>3 DEF Frame, Frames, WellFormed

LEMMA BodyType ==
  ASSUME NEW s \in Seq(Frame), NEW n \in Observers
  PROVE  [Call(s, "body", n) EXCEPT !.by = n, !.obs = n] \in Frame
<1> DEFINE f == Call(s, "body", n)
<1>1. n \in Nodes /\ n \in Code
  BY DEF Nodes, Observers, Sources, Code
<1>2. f \in Frames /\ f.op = "body" /\ f.node = n
  BY <1>1, CallType DEF Ops
<1> HIDE DEF f
<1>3. [f EXCEPT !.by = n, !.obs = n] \in Frame
  BY <1>1, <1>2 DEF Frame, Frames, WellFormed
<1> QED
  BY <1>3 DEF f

LEMMA TickFrameType ==
  ASSUME NEW s \in Seq(Frame), NEW t \in Ticks
  PROVE  TickFrame(s, t) \in Frame
<1> DEFINE f == Call(s, "tick", None)
<1>1. f \in Frames /\ f.op = "tick"
  BY CallType DEF Ops
<1>2. <<t>> \in Seq(Ticks) /\ Len(<<t>>) = 1 /\ Tick \in Code
  BY DEF Code
<1>3. TickFrame(s, t) = [f EXCEPT !.by = Tick, !.cbs = <<t>>]
  BY DEF TickFrame
<1> HIDE DEF f
<1> QED
  BY <1>1, <1>2, <1>3 DEF Frame, Frames, WellFormed

LEMMA NotifyType ==
  ASSUME NEW s \in Seq(Frame), NEW d \in Signals
  PROVE  Notify(s, d) \in Seq(Frame)
<1> DEFINE f == Call(s, "notify", d)
           marks == Subs(d) \X {Dirty}
<1>1. f \in Frames /\ f.op = "notify" /\ f.node = d
  BY CallType DEF Ops, Nodes, Sources
<1>2. marks \in SUBSET (Observers \X {Check, Dirty})
  BY DEF Subs
<1>3. Notify(s, d) = Append(s, [f EXCEPT !.marks = marks])
  BY DEF Notify
<1> HIDE DEF f, marks
<1>4. [f EXCEPT !.marks = marks] \in Frame
  BY <1>1, <1>2 DEF Frame, Frames, WellFormed
<1> QED
  BY <1>3, <1>4

-----------------------------------------------------------------------------
(* Type correctness *)

LEMMA InitType == Init => TypeOK
<1> SUFFICES ASSUME Init
             PROVE  TypeOK
  OBVIOUS
<1>1. state \in [Nodes -> {Clean, Check, Dirty}] /\ \A s \in Signals : state[s] = Clean
  BY ProgramAssumption DEF Init, Nodes, Sources, Observers
<1>2. stack \in Seq(Frame) /\ pending \in Seq(Effects) /\ syncPending \in Seq(Effects)
      /\ postFlush \in Seq(Ticks)
  BY DEF Init
<1>3. /\ deps \in [Observers -> SUBSET Sources]
      /\ confirmed \in [Observers -> SUBSET Sources]
      /\ seen \in [Observers -> SUBSET (Sources \X Values)]
      /\ awaits \in [Ticks -> SUBSET Effects]
  BY DEF Init
<1>4. batchDepth \in Int /\ readingDepth \in Int /\ microtasks \in Nat /\ fuel \in Nat
  BY ProgramAssumption DEF Init
<1>5. value \in [Sources -> Values \cup {None}] /\ created \subseteq Effects
  BY DEF Init
<1>6. /\ flushing \in BOOLEAN /\ scheduler \in BOOLEAN /\ flushScheduled \in BOOLEAN
      /\ panicked \in BOOLEAN
  BY DEF Init
<1> QED
  BY <1>1, <1>2, <1>3, <1>4, <1>5, <1>6 DEF TypeOK

LEMMA FlushType ==
  ASSUME TypeOK, NEW s \in Seq(Frame), NEW reading \in Int,
         ScheduleOrFlush(s) \/ MaybeFlush(s, reading)
  PROVE  /\ stack' \in Seq(Frame)
         /\ flushing' \in BOOLEAN /\ scheduler' \in BOOLEAN /\ flushScheduled' \in BOOLEAN
         /\ microtasks' \in Nat
<1>1. Call(s, "flush", None) \in Frame
  BY PlainCallType DEF Ops
<1>2. CASE ScheduleOrFlush(s)
  <2>1. CASE scheduler
    BY <1>2, <2>1 DEF ScheduleOrFlush, CallHook, TypeOK
  <2>2. CASE ~scheduler
    <3>1. stack' \in Seq(Frame) /\ microtasks' \in Nat
      <4>1. stack' = Append(s, Call(s, "flush", None)) /\ UNCHANGED host
        BY <1>2, <2>2 DEF ScheduleOrFlush
      <4> QED
        BY <1>1, <4>1 DEF TypeOK, host
    <3>2. flushing' \in BOOLEAN /\ scheduler' \in BOOLEAN /\ flushScheduled' \in BOOLEAN
      BY <1>2, <2>2 DEF ScheduleOrFlush, CallHook, TypeOK, host
    <3> QED
      BY <3>1, <3>2
  <2> QED
    BY <2>1, <2>2
<1>3. CASE MaybeFlush(s, reading) /\ ~ScheduleOrFlush(s)
  BY <1>3 DEF MaybeFlush, TypeOK, host
<1> QED
  BY <1>2, <1>3

LEMMA DeliverType ==
  ASSUME TypeOK, NEW d \in Sources, value[d] # None, Deliver(d)
  PROVE  seen' \in [Observers -> SUBSET (Sources \X Values)]
<1>1. <<d, value[d]>> \in Sources \X Values
  BY DEF TypeOK
<1>2. CASE Observer = None
  BY <1>2 DEF Deliver, TypeOK
<1>3. CASE Observer # None
  BY <1>1, <1>3 DEF Deliver, TypeOK
<1> QED
  BY <1>2, <1>3

LEMMA TopFrame ==
  ASSUME TypeOK, stack # <<>>
  PROVE  /\ Top \in Frame /\ Top \in Frames /\ WellFormed(Top) /\ Len(stack) \in DOMAIN stack
         /\ Pop \in Seq(Frame)
         /\ \A f \in Frame : [stack EXCEPT ![Len(stack)] = f] \in Seq(Frame)
<1>1. Top \in Frame /\ Len(stack) \in DOMAIN stack
  BY LastType DEF TypeOK, Top
<1>2. Pop \in Seq(Frame)
  BY PopType DEF TypeOK, Pop
<1>3. \A f \in Frame : [stack EXCEPT ![Len(stack)] = f] \in Seq(Frame)
  BY ReplaceType DEF TypeOK
<1> QED
  BY <1>1, <1>2, <1>3 DEF Frame

LEMMA NextType ==
  ASSUME TypeOK, [Next]_vars
  PROVE  TypeOK'
<1> USE DEF In
<1>1. CASE FlushEffect
  <2>1. stack # <<>> /\ pending \in Seq(Effects) /\ Head(pending) \in Effects
    BY <1>1 DEF FlushEffect, TypeOK
  <2>2. Pull(stack, Head(pending)) \in Frame
    BY <2>1, PullType DEF TypeOK, Nodes
  <2> QED
    BY <1>1, <2>1, <2>2 DEF FlushEffect, TypeOK, graph, host, Push
<1>2. CASE FlushTake
  <2>1. Top \in Frames /\ Top.op = "flush"
    BY <1>2, TopFrame DEF FlushTake
  <2>2. [Top EXCEPT !.cbs = postFlush] \in Frame
    BY <2>1 DEF TypeOK, Frame, Frames, WellFormed
  <2>3. stack' = [stack EXCEPT ![Len(stack)] = [Top EXCEPT !.cbs = postFlush]]
    BY <1>2 DEF FlushTake, Top
  <2>4. stack' \in Seq(Frame)
    BY <1>2, <2>2, <2>3, TopFrame DEF FlushTake
  <2> QED
    BY <1>2, <2>4 DEF FlushTake, TypeOK, graph, host
<1>3. CASE FlushCallback
  <2> DEFINE rest == [stack EXCEPT ![Len(stack)].cbs = Tail(@)]
  <2>1. Top \in Frames /\ Top.op = "flush" /\ Top.cbs # <<>>
    BY <1>3, TopFrame DEF FlushCallback
  <2>2. Tail(Top.cbs) \in Seq(Ticks) /\ Head(Top.cbs) \in Ticks
    BY <2>1 DEF Frames
  <2>3. [Top EXCEPT !.cbs = Tail(Top.cbs)] \in Frame
    BY <2>1, <2>2 DEF Frame, Frames, WellFormed
  <2>4. rest = [stack EXCEPT ![Len(stack)] = [Top EXCEPT !.cbs = Tail(Top.cbs)]]
    BY DEF Top
  <2>5. rest \in Seq(Frame)
    BY <1>3, <2>3, <2>4, TopFrame DEF FlushCallback
  <2>6. stack' = Append(rest, TickFrame(rest, Head(Top.cbs)))
    BY <1>3 DEF FlushCallback
  <2> HIDE DEF rest
  <2>7. stack' \in Seq(Frame)
    BY <2>2, <2>5, <2>6, TickFrameType
  <2> QED
    BY <1>3, <2>7 DEF FlushCallback, TypeOK, graph, host
<1>4. CASE FlushDone
  <2>1. Pop \in Seq(Frame)
    BY <1>4, TopFrame DEF FlushDone
  <2> QED
    BY <1>4, <2>1 DEF FlushDone, TypeOK, graph, host
<1>5. CASE FlushJobs
  <2>1. Call(stack, "flush", None) \in Frame
    BY PlainCallType DEF Ops, TypeOK
  <2>2. stack' \in Seq(Frame) /\ microtasks' \in Nat
    BY <1>5, <2>1 DEF FlushJobs, TypeOK, Push
  <2> QED
    BY <1>5, <2>2 DEF FlushJobs, TypeOK, graph
<1>6. CASE MarkStale
  <2>1. PICK m \in Top.marks :
          LET n == m[1]
              target == m[2]
              rest == Top.marks \ {m}
              escalates == Escalates(n, target)
              queues == escalates /\ state[n] = Clean /\ n \in Effects
              more == IF escalates THEN {<<x, Check>> : x \in Subs(n)} ELSE {}
          IN /\ state' = IF escalates THEN [state EXCEPT ![n] = target] ELSE state
             /\ pending' = IF queues /\ n \notin SyncEffects \cup Elements(pending)
                           THEN Append(pending, n) ELSE pending
             /\ syncPending' = IF queues /\ n \in SyncEffects \ Elements(syncPending)
                               THEN Append(syncPending, n) ELSE syncPending
             /\ stack' = [stack EXCEPT ![Len(stack)].marks = rest \cup more]
    BY <1>6 DEF MarkStale
  <2>2. Top \in Frames /\ Top.op = "notify" /\ WellFormed(Top)
    BY <1>6, TopFrame DEF MarkStale
  <2>3. m[1] \in Observers /\ m[2] \in {Check, Dirty} /\ m[1] \notin Signals
    BY <2>1, <2>2, ProgramAssumption DEF Frames, Observers
  <2> DEFINE marks == (Top.marks \ {m})
                        \cup (IF Escalates(m[1], m[2]) THEN {<<x, Check>> : x \in Subs(m[1])} ELSE {})
  <2>4. marks \in SUBSET (Observers \X {Check, Dirty})
    BY <2>2 DEF Frames, Subs
  <2>5. stack' = [stack EXCEPT ![Len(stack)] = [Top EXCEPT !.marks = marks]]
    BY <2>1 DEF Top
  <2> HIDE DEF marks
  <2>6. [Top EXCEPT !.marks = marks] \in Frame
    BY <2>2, <2>4 DEF Frame, Frames, WellFormed
  <2>7. stack' \in Seq(Frame)
    BY <1>6, <2>5, <2>6, TopFrame DEF MarkStale
  <2>8. state' \in [Nodes -> {Clean, Check, Dirty}] /\ \A s \in Signals : state'[s] = Clean
    <3>1. CASE state' = state
      BY <3>1 DEF TypeOK
    <3>2. CASE state' = [state EXCEPT ![m[1]] = m[2]]
      BY <2>3, <3>2 DEF TypeOK, Nodes, Sources
    <3> QED
      BY <2>1, <3>1, <3>2
  <2>9. pending' \in Seq(Effects) /\ syncPending' \in Seq(Effects)
    BY <2>1 DEF TypeOK
  <2> QED
    BY <1>6, <2>7, <2>8, <2>9 DEF MarkStale, TypeOK, host
<1>7. CASE RunSyncEffect
  <2>1. stack # <<>> /\ syncPending \in Seq(Effects) /\ Head(syncPending) \in Effects
    BY <1>7 DEF RunSyncEffect, TypeOK
  <2>2. Pull(stack, Head(syncPending)) \in Frame
    BY <2>1, PullType DEF TypeOK, Nodes
  <2> QED
    BY <1>7, <2>1, <2>2 DEF RunSyncEffect, TypeOK, graph, host, Push
<1>8. CASE NotifyDone
  <2>1. Pop \in Seq(Frame) /\ readingDepth \in Int
    BY <1>8, TopFrame DEF NotifyDone, TypeOK
  <2> QED
    BY <1>8, <2>1, FlushType DEF NotifyDone, TypeOK, graph
<1>9. CASE PullSource
  <2>1. PICK d \in Top.todo :
          LET rest == [stack EXCEPT ![Len(stack)].todo = @ \ {d}]
          IN stack' = Append(rest, Pull(rest, d))
    BY <1>9 DEF PullSource
  <2> DEFINE rest == [stack EXCEPT ![Len(stack)].todo = @ \ {d}]
  <2>2. Top \in Frames /\ Top.op = "pull" /\ WellFormed(Top)
    BY <1>9, TopFrame DEF PullSource
  <2>3. d \in Nodes
    BY <2>1, <2>2 DEF Frames, Nodes
  <2>4. [Top EXCEPT !.todo = Top.todo \ {d}] \in Frame
    BY <2>2 DEF Frame, Frames, WellFormed
  <2>5. rest = [stack EXCEPT ![Len(stack)] = [Top EXCEPT !.todo = Top.todo \ {d}]]
    BY DEF Top
  <2>6. rest \in Seq(Frame)
    BY <1>9, <2>4, <2>5, TopFrame DEF PullSource
  <2> HIDE DEF rest
  <2>7. Pull(rest, d) \in Frame
    BY <2>3, <2>6, PullType
  <2>8. stack' \in Seq(Frame)
    BY <2>1, <2>6, <2>7 DEF rest
  <2> QED
    BY <1>9, <2>8 DEF PullSource, TypeOK, graph, host
<1>10. CASE PullRun
  <2>1. Top \in Frames /\ WellFormed(Top) /\ Top.op = "pull" /\ Pop \in Seq(Frame)
    BY <1>10, TopFrame DEF PullRun
  <2>2. Top.node \in Observers
    BY <1>10, <2>1 DEF PullRun, WellFormed, TypeOK, Nodes, Sources, Observers, Clean, Dirty
  <2>3. [Call(stack, "body", Top.node) EXCEPT !.by = Top.node, !.obs = Top.node] \in Frame
    BY <2>2, BodyType DEF TypeOK
  <2>4. stack' \in Seq(Frame)
    BY <1>10, <2>1, <2>3 DEF PullRun
  <2> QED
    BY <1>10, <2>2, <2>4 DEF PullRun, TypeOK, host
<1>11. CASE PullDone
  <2>1. Pop \in Seq(Frame)
    BY <1>11, TopFrame DEF PullDone
  <2>2. state' \in [Nodes -> {Clean, Check, Dirty}] /\ \A s \in Signals : state'[s] = Clean
    BY <1>11 DEF PullDone, SetClean, TypeOK, Nodes, Sources
  <2>3. awaits' \in [Ticks -> SUBSET Effects]
    BY <1>11 DEF PullDone, TypeOK, Settle
  <2> QED
    BY <1>11, <2>1, <2>2, <2>3 DEF PullDone, TypeOK, host
<1>12. CASE FinishEffect
  <2>1. Pop \in Seq(Frame)
    BY <1>12, TopFrame DEF FinishEffect
  <2>2. Top.node \in Observers
    BY <1>12 DEF FinishEffect, Observers
  <2>3. state' \in [Nodes -> {Clean, Check, Dirty}] /\ \A s \in Signals : state'[s] = Clean
    BY <1>12 DEF FinishEffect, SetClean, TypeOK, Nodes, Sources
  <2>4. awaits' \in [Ticks -> SUBSET Effects]
    BY <1>12 DEF FinishEffect, EndTracking, TypeOK, Settle
  <2>5. deps' \in [Observers -> SUBSET Sources]
    BY <1>12, <2>2 DEF FinishEffect, EndTracking, TypeOK
  <2> QED
    BY <1>12, <2>1, <2>3, <2>4, <2>5 DEF FinishEffect, TypeOK, host
<1>13. CASE FinishComputed
  <2>1. Pop \in Seq(Frame)
    BY <1>13, TopFrame DEF FinishComputed
  <2>2. Top.node \in Observers /\ Top.node \in Sources
    BY <1>13 DEF FinishComputed, Observers, Sources
  <2>3. PICK v \in Values :
          LET n == Top.node
              subs == IF Changed(n, v) THEN Subs(n) \ {n} ELSE {}
          IN /\ deps' = [deps EXCEPT ![n] = confirmed[n]]
             /\ value' = [value EXCEPT ![n] = v]
             /\ state' = [x \in Nodes |-> IF x = n THEN Clean
                                          ELSE IF x \in subs THEN Dirty ELSE state[x]]
    BY <1>13 DEF FinishComputed, EndTracking
  <2>4. state' \in [Nodes -> {Clean, Check, Dirty}] /\ \A s \in Signals : state'[s] = Clean
    BY <2>3, ProgramAssumption DEF TypeOK, Subs, Nodes, Sources, Observers
  <2>5. value' \in [Sources -> Values \cup {None}] /\ deps' \in [Observers -> SUBSET Sources]
    BY <2>2, <2>3 DEF TypeOK
  <2> QED
    BY <1>13, <2>1, <2>4, <2>5 DEF FinishComputed, TypeOK, host
<1>14. CASE EndGet
  <2>1. Pop \in Seq(Frame) /\ readingDepth \in Int /\ Top \in Frames /\ WellFormed(Top)
    BY <1>14, TopFrame DEF EndGet, TypeOK
  <2>2. seen' \in [Observers -> SUBSET (Sources \X Values)]
    BY <1>14, <2>1, DeliverType DEF EndGet, WellFormed
  <2> QED
    BY <1>14, <2>1, <2>2, FlushType DEF EndGet, TypeOK
<1>15. CASE With
  <2> DEFINE f == [Top EXCEPT !.op = "with", !.val = value[Top.node]]
  <2>1. Top \in Frames /\ WellFormed(Top) /\ Top.op = "open"
    BY <1>15, TopFrame DEF With
  <2>2. value[Top.node] \in Values /\ Top.node \in Sources
    BY <1>15, <2>1 DEF With, TypeOK, WellFormed
  <2>3. f \in Frame
    BY <2>1, <2>2 DEF Frame, Frames, WellFormed, Ops
  <2>4. stack' = [stack EXCEPT ![Len(stack)] = f]
    BY <1>15 DEF With, Top
  <2> HIDE DEF f
  <2>5. stack' \in Seq(Frame)
    BY <1>15, <2>3, <2>4, TopFrame DEF With
  <2>6. seen' \in [Observers -> SUBSET (Sources \X Values)]
    BY <1>15, <2>2, DeliverType DEF With
  <2>7. value' = [value EXCEPT ![Top.node] = None] /\ readingDepth' = readingDepth + 1
    BY <1>15 DEF With
  <2>8. value' \in [Sources -> Values \cup {None}]
    BY <2>7 DEF TypeOK
  <2>9. readingDepth' \in Int
    BY <2>7 DEF TypeOK
  <2> QED
    BY <1>15, <2>5, <2>6, <2>8, <2>9 DEF With, TypeOK, host
<1>16. CASE EndWith
  <2>1. Pop \in Seq(Frame) /\ readingDepth - 1 \in Int /\ Top.val \in Values
    BY <1>16, TopFrame DEF EndWith, TypeOK, WellFormed
  <2> QED
    BY <1>16, <2>1, FlushType DEF EndWith, TypeOK
<1>17. CASE ReadPanics
  BY <1>17 DEF ReadPanics, Panic, TypeOK, graph, host
<1>18. CASE EndBatch
  <2>1. Pop \in Seq(Frame)
    BY <1>18, TopFrame DEF EndBatch
  <2> QED
    BY <1>18, <2>1, FlushType DEF EndBatch, TypeOK, graph, host
<1>19. CASE EndTick
  <2>1. Pop \in Seq(Frame)
    BY <1>19, TopFrame DEF EndTick
  <2> QED
    BY <1>19, <2>1 DEF EndTick, TypeOK, graph, host
<1>20. ASSUME NEW c \in Code, NEW d \in Sources, NEW op \in {"get", "open"}, Read(c, d, op)
       PROVE  TypeOK'
  <2> DEFINE reading == Push(Call(stack, op, d))
  <2>1. Call(stack, op, d) \in Frame
    BY PlainCallType DEF Ops, Nodes, TypeOK
  <2>2. reading \in Seq(Frame)
    BY <2>1 DEF TypeOK, Push
  <2>3. stack' = Append(reading, Pull(reading, d))
    BY <1>20 DEF Read
  <2> HIDE DEF reading
  <2>4. Pull(reading, d) \in Frame
    BY <2>2, PullType DEF Nodes
  <2>5. stack' \in Seq(Frame)
    BY <2>2, <2>3, <2>4
  <2>6. fuel' \in Nat
    BY <1>20 DEF Read, Spend, TypeOK
  <2>7. deps' \in [Observers -> SUBSET Sources] /\ confirmed' \in [Observers -> SUBSET Sources]
    <3>1. CASE Observer = None
      BY <1>20, <3>1 DEF Read, TypeOK
    <3>2. CASE Observer # None
      <4>1. /\ deps' = [deps EXCEPT ![Observer] = @ \cup {d}]
            /\ confirmed' = [confirmed EXCEPT ![Observer] = @ \cup {d}]
        BY <1>20, <3>2 DEF Read
      <4> QED
        BY <4>1 DEF TypeOK
    <3> QED
      BY <3>1, <3>2
  <2> QED
    BY <1>20, <2>5, <2>6, <2>7 DEF Read, TypeOK, host
<1>21. ASSUME NEW c \in Code, Get(c) \/ Open(c)
       PROVE  TypeOK'
  BY <1>20, <1>21, ProgramAssumption DEF Get, Open
<1>22. ASSUME NEW c \in Code, Set(c) \/ Update(c)
       PROVE  TypeOK'
  <2>1. PICK s \in Signals, v \in Values :
          /\ value' = [value EXCEPT ![s] = v]
          /\ stack' = Notify(stack, s) \/ stack' = stack
    BY <1>22, ProgramAssumption DEF Set, Update
  <2>2. stack' \in Seq(Frame)
    BY <2>1, NotifyType DEF TypeOK
  <2>3. fuel' \in Nat
    BY <1>22 DEF Set, Update, Spend, TypeOK
  <2> QED
    BY <1>22, <2>1, <2>2, <2>3 DEF Set, Update, TypeOK, host
<1>23. ASSUME NEW c \in Code, UpdatePanics(c)
       PROVE  TypeOK'
  BY <1>23 DEF UpdatePanics, Panic, TypeOK, graph, host
<1>24. ASSUME NEW c \in Code, Batch(c)
       PROVE  TypeOK'
  <2>1. Call(stack, "batch", None) \in Frame
    BY PlainCallType DEF Ops, TypeOK
  <2> QED
    BY <1>24, <2>1 DEF Batch, Spend, TypeOK, graph, host, Push
<1>25. ASSUME NEW c \in Code, NextTick(c)
       PROVE  TypeOK'
  <2>1. PICK t \in Ticks :
          /\ awaits' = [awaits EXCEPT ![t] = Elements(pending)]
          /\ IF scheduler
             THEN postFlush' = Append(postFlush, t) /\ ScheduleOrFlush(stack)
             ELSE /\ UNCHANGED <<host, flushing>>
                  /\ IF Defers
                     THEN postFlush' = Append(postFlush, t) /\ UNCHANGED stack
                     ELSE stack' = Push(TickFrame(stack, t)) /\ UNCHANGED postFlush
    BY <1>25 DEF NextTick
  <2>2. TickFrame(stack, t) \in Frame
    BY TickFrameType DEF TypeOK
  <2>3. /\ stack' \in Seq(Frame)
        /\ flushing' \in BOOLEAN /\ scheduler' \in BOOLEAN /\ flushScheduled' \in BOOLEAN
        /\ microtasks' \in Nat
    <3>1. CASE scheduler
      BY <2>1, <3>1, FlushType DEF TypeOK
    <3>2. CASE ~scheduler
      <4>1. stack' \in Seq(Frame)
        <5>1. CASE Defers
          BY <2>1, <3>2, <5>1 DEF TypeOK
        <5>2. CASE ~Defers
          <6>1. stack' = Append(stack, TickFrame(stack, t))
            BY <2>1, <3>2, <5>2 DEF Push
          <6> QED
            BY <2>2, <6>1 DEF TypeOK
        <5> QED
          BY <5>1, <5>2
      <4>2. UNCHANGED <<host, flushing>>
        BY <2>1, <3>2
      <4> QED
        BY <4>1, <4>2 DEF TypeOK, host
    <3> QED
      BY <3>1, <3>2 DEF TypeOK
  <2>4. postFlush' \in Seq(Ticks)
    <3>1. CASE postFlush' = Append(postFlush, t)
      BY <3>1 DEF TypeOK
    <3>2. CASE postFlush' = postFlush
      BY <3>2 DEF TypeOK
    <3> QED
      BY <2>1, <3>1, <3>2
  <2>5. awaits' \in [Ticks -> SUBSET Effects]
    BY <2>1 DEF TypeOK, Elements
  <2>6. fuel' \in Nat
    BY <1>25 DEF NextTick, Spend, TypeOK
  <2> QED
    BY <1>25, <2>3, <2>4, <2>5, <2>6 DEF NextTick, TypeOK, graph
<1>26. ASSUME NEW c \in Code, CreateEffect(c)
       PROVE  TypeOK'
  <2>1. PICK e \in Effects \ created :
          /\ created' = created \cup {e}
          /\ state' = [state EXCEPT ![e] = Dirty]
          /\ stack' = Push(Call(stack, "pull", e))
    BY <1>26 DEF CreateEffect
  <2>2. Call(stack, "pull", e) \in Frame
    BY PlainCallType DEF Ops, Nodes, TypeOK
  <2>3. stack' \in Seq(Frame)
    BY <2>1, <2>2 DEF TypeOK, Push
  <2>4. state' \in [Nodes -> {Clean, Check, Dirty}] /\ \A s \in Signals : state'[s] = Clean
    BY <2>1, ProgramAssumption DEF TypeOK, Nodes
  <2>5. created' \subseteq Effects
    BY <2>1 DEF TypeOK
  <2> QED
    BY <1>26, <2>3, <2>4, <2>5 DEF CreateEffect, TypeOK, host
<1>27. CASE SetScheduler
  <2>1. fuel' \in Nat
    BY <1>27 DEF SetScheduler, Spend, TypeOK
  <2> QED
    BY <1>27, <2>1 DEF SetScheduler, TypeOK, graph
<1>29. CASE ClearScheduler
  <2>1. fuel' \in Nat
    BY <1>29 DEF ClearScheduler, Spend, TypeOK
  <2> QED
    BY <1>29, <2>1 DEF ClearScheduler, TypeOK, graph
<1>28. CASE UNCHANGED vars
  BY <1>28 DEF TypeOK, vars, graph, host
<1> QED
  BY <1>1, <1>2, <1>3, <1>4, <1>5, <1>6, <1>7, <1>8, <1>9, <1>10, <1>11, <1>12, <1>13,
     <1>14, <1>15, <1>16, <1>17, <1>18, <1>19, <1>21, <1>22, <1>23, <1>24, <1>25, <1>26,
     <1>27, <1>28, <1>29
  DEF Next, System, User

(* Every variable keeps its type, for every graph and every program: the   *)
(* frames on the stack are well formed, a signal is never stale, and the   *)
(* queues hold effects only.                                               *)
THEOREM TypeCorrect == Spec => []TypeOK
<1>1. Init => TypeOK
  BY InitType
<1>2. TypeOK /\ [Next]_vars => TypeOK'
  BY NextType
<1> QED
  BY <1>1, <1>2, PTL DEF Spec

-----------------------------------------------------------------------------
(* WellNested, of any stack. *)
NestedIn(s, batches, reading, flush) ==
  /\ batches = CountIn(s, "batch")
  /\ reading = CountIn(s, "with")
  /\ flush => CountIn(s, "flush") > 0
  /\ BodiesOnce(s)

-----------------------------------------------------------------------------
(* Counting frames *)

LEMMA CountType ==
  ASSUME NEW s \in Seq(Frame), NEW op
  PROVE  IsFiniteSet({i \in DOMAIN s : s[i].op = op}) /\ CountIn(s, op) \in Nat
<1>1. DOMAIN s = 1 .. Len(s) /\ Len(s) \in Nat
  OBVIOUS
<1>2. IsFiniteSet(DOMAIN s)
  BY <1>1, FS_Interval
<1>3. IsFiniteSet({i \in DOMAIN s : s[i].op = op})
  BY <1>2, FS_Subset
<1> QED
  BY <1>3, FS_CardinalityType DEF CountIn

LEMMA CountPush ==
  ASSUME NEW s \in Seq(Frame), NEW f \in Frame, NEW op
  PROVE  CountIn(Append(s, f), op) = IF f.op = op THEN CountIn(s, op) + 1 ELSE CountIn(s, op)
<1> DEFINE t == Append(s, f)
           S == {i \in DOMAIN s : s[i].op = op}
           T == {i \in DOMAIN t : t[i].op = op}
           k == Len(s) + 1
<1>1. /\ Len(s) \in Nat /\ DOMAIN s = 1 .. Len(s) /\ DOMAIN t = 1 .. k /\ t[k] = f
      /\ \A i \in DOMAIN s : t[i] = s[i]
  OBVIOUS
<1>2. T = IF f.op = op THEN S \cup {k} ELSE S
  <2> HIDE DEF t
  <2>1. \A i \in DOMAIN t : i \in DOMAIN s \/ i = k
    BY <1>1
  <2>2. \A i \in DOMAIN s : i \in DOMAIN t
    BY <1>1
  <2>3. k \in DOMAIN t /\ k \notin DOMAIN s
    BY <1>1
  <2> QED
    BY <1>1, <2>1, <2>2, <2>3
<1>3. k \notin S
  BY <1>1
<1>4. IsFiniteSet(S)
  BY CountType
<1>5. Cardinality(S \cup {k}) = Cardinality(S) + 1
  BY <1>3, <1>4, FS_AddElement
<1>6. CountIn(t, op) = Cardinality(T) /\ CountIn(s, op) = Cardinality(S)
  BY DEF CountIn
<1> QED
  BY <1>2, <1>5, <1>6

LEMMA CountPop ==
  ASSUME NEW s \in Seq(Frame), s # <<>>, NEW op
  PROVE  CountIn(SubSeq(s, 1, Len(s) - 1), op)
           = IF s[Len(s)].op = op THEN CountIn(s, op) - 1 ELSE CountIn(s, op)
<1> DEFINE t == SubSeq(s, 1, Len(s) - 1)
           f == s[Len(s)]
<1>1. t \in Seq(Frame) /\ f \in Frame /\ s = Append(t, f)
  BY PopType, LastType
<1>2. CountIn(s, op) = IF f.op = op THEN CountIn(t, op) + 1 ELSE CountIn(t, op)
  <2> HIDE DEF t, f
  <2> QED BY <1>1, CountPush
<1>3. CountIn(t, op) \in Nat
  BY <1>1, CountType
<1> QED
  BY <1>2, <1>3

(* The same frames, up to what they have left to do. *)
SameCalls(s, t) ==
  DOMAIN s = DOMAIN t /\ \A i \in DOMAIN s : s[i].op = t[i].op /\ s[i].node = t[i].node

LEMMA CountSame ==
  ASSUME NEW s, NEW t, SameCalls(s, t)
  PROVE  /\ \A op : CountIn(s, op) = CountIn(t, op)
         /\ BodiesOnce(s) <=> BodiesOnce(t)
<1>1. \A op : {i \in DOMAIN s : s[i].op = op} = {i \in DOMAIN t : t[i].op = op}
  BY DEF SameCalls
<1>2. \A op : CountIn(s, op) = CountIn(t, op)
  BY <1>1 DEF CountIn
<1>3. BodiesOnce(s) <=> BodiesOnce(t)
  BY DEF SameCalls, BodiesOnce
<1> QED
  BY <1>2, <1>3

LEMMA SameTop ==
  ASSUME NEW s \in Seq(Frame), s # <<>>, NEW f \in Frame,
         f.op = s[Len(s)].op, f.node = s[Len(s)].node
  PROVE  SameCalls(s, [s EXCEPT ![Len(s)] = f])
  BY DEF SameCalls

-----------------------------------------------------------------------------
(* What calls and returns do to the nesting *)

LEMMA NestPush ==
  ASSUME NEW s \in Seq(Frame), NEW f \in Frame, f.op # "body",
         NEW b, NEW r, NEW fl \in BOOLEAN, NestedIn(s, b, r, fl)
  PROVE  LET t == Append(s, f)
         IN /\ f.op \notin {"batch", "with"} => NestedIn(t, b, r, fl)
            /\ f.op = "flush" => NestedIn(t, b, r, TRUE)
            /\ f.op = "batch" => NestedIn(t, b + 1, r, fl)
            /\ f.op = "with" => NestedIn(t, b, r + 1, fl)
<1> DEFINE t == Append(s, f)
<1>1. \A x : CountIn(t, x) = IF f.op = x THEN CountIn(s, x) + 1 ELSE CountIn(s, x)
  BY CountPush
<1>2. CountIn(s, "flush") \in Nat
  BY CountType
<1>3. /\ Len(s) \in Nat /\ DOMAIN s = 1 .. Len(s) /\ DOMAIN t = 1 .. Len(s) + 1
      /\ t[Len(s) + 1] = f /\ \A i \in DOMAIN s : t[i] = s[i]
  OBVIOUS
<1> HIDE DEF t
<1>4. \A i \in DOMAIN t : t[i].op = "body" => i \in DOMAIN s /\ t[i] = s[i]
  BY <1>3
<1>5. BodiesOnce(t)
  BY <1>4 DEF BodiesOnce, NestedIn
<1>6. /\ f.op \notin {"batch", "with"} => NestedIn(t, b, r, fl)
      /\ f.op = "flush" => NestedIn(t, b, r, TRUE)
      /\ f.op = "batch" => NestedIn(t, b + 1, r, fl)
      /\ f.op = "with" => NestedIn(t, b, r + 1, fl)
  BY <1>1, <1>2, <1>5 DEF NestedIn
<1> QED
  BY <1>6 DEF t

LEMMA NestPop ==
  ASSUME NEW s \in Seq(Frame), s # <<>>, NEW b, NEW r, NEW fl \in BOOLEAN,
         NestedIn(s, b, r, fl)
  PROVE  LET t == SubSeq(s, 1, Len(s) - 1)
             op == s[Len(s)].op
         IN /\ op \notin {"batch", "with", "flush"} => NestedIn(t, b, r, fl)
            /\ op = "batch" => NestedIn(t, b - 1, r, fl)
            /\ op = "with" => NestedIn(t, b, r - 1, fl)
            /\ op = "flush" => NestedIn(t, b, r, FALSE)
<1> DEFINE t == SubSeq(s, 1, Len(s) - 1)
           op == s[Len(s)].op
<1>1. \A x : CountIn(t, x) = IF op = x THEN CountIn(s, x) - 1 ELSE CountIn(s, x)
  BY CountPop
<1>2. BodiesOnce(t)
  BY DEF BodiesOnce, NestedIn
<1> HIDE DEF t, op
<1>3. /\ op \notin {"batch", "with", "flush"} => NestedIn(t, b, r, fl)
      /\ op = "batch" => NestedIn(t, b - 1, r, fl)
      /\ op = "with" => NestedIn(t, b, r - 1, fl)
      /\ op = "flush" => NestedIn(t, b, r, FALSE)
  BY <1>1, <1>2 DEF NestedIn
<1> QED
  BY <1>3 DEF t, op

LEMMA ReplaceIsAppend ==
  ASSUME NEW S, NEW s \in Seq(S), s # <<>>, NEW f \in S
  PROVE  [s EXCEPT ![Len(s)] = f] = Append(SubSeq(s, 1, Len(s) - 1), f)
<1> DEFINE n == Len(s)
           t == SubSeq(s, 1, n - 1)
           u == Append(t, f)
           v == [s EXCEPT ![n] = f]
<1>1. n \in Nat \ {0} /\ n - 1 \in Nat /\ \A i \in 1 .. n : s[i] \in S
  OBVIOUS
<1>2. t \in Seq(S) /\ Len(t) = n - 1 /\ \A i \in 1 .. n - 1 : t[i] = s[i]
  <2> HIDE DEF n
  <2> QED
    BY <1>1, SubSeqProperties
<1>3. v \in Seq(S) /\ Len(v) = n /\ \A i \in 1 .. n : v[i] = IF i = n THEN f ELSE s[i]
  BY <1>1, ExceptSeq
<1> HIDE DEF n, t, v
<1>4. /\ u \in Seq(S) /\ Len(u) = n
      /\ \A i \in 1 .. n : u[i] = IF i = n THEN f ELSE t[i]
  BY <1>1, <1>2, AppendProperties
<1> HIDE DEF u
<1>5. u = v
  BY <1>1, <1>2, <1>3, <1>4, SeqEqual
<1> QED
  BY <1>5 DEF u, v, t, n

LEMMA NestSame ==
  ASSUME NEW s, NEW t, SameCalls(s, t), NEW b, NEW r, NEW fl, NestedIn(s, b, r, fl)
  PROVE  NestedIn(t, b, r, fl)
  BY CountSame DEF NestedIn

(* A closure that is entered is not running yet. *)
LEMMA NestBody ==
  ASSUME NEW s \in Seq(Frame), NEW f \in Frame, f.op = "body",
         NEW b, NEW r, NEW fl \in BOOLEAN, NestedIn(s, b, r, fl),
         \A i \in DOMAIN s : s[i].op = "body" => s[i].node # f.node
  PROVE  NestedIn(Append(s, f), b, r, fl)
<1>1. \A x \in {"batch", "with", "flush"} : CountIn(Append(s, f), x) = CountIn(s, x)
  BY CountPush
<1>2. BodiesOnce(Append(s, f))
  <2> DEFINE t == Append(s, f)
  <2>1. /\ Len(s) \in Nat /\ DOMAIN s = 1 .. Len(s) /\ DOMAIN t = 1 .. Len(s) + 1
        /\ t[Len(s) + 1] = f /\ \A i \in DOMAIN s : t[i] = s[i]
    OBVIOUS
  <2> HIDE DEF t
  <2>2. \A i \in DOMAIN t : (i \in DOMAIN s /\ t[i] = s[i]) \/ (i = Len(s) + 1 /\ t[i] = f)
    BY <2>1
  <2>3. BodiesOnce(t)
    BY <2>2 DEF BodiesOnce, NestedIn
  <2> QED
    BY <2>3 DEF t
<1> QED
  BY <1>1, <1>2 DEF NestedIn

LEMMA NestFlush ==
  ASSUME NEW s \in Seq(Frame), NEW b, NEW r, NEW reading, NestedIn(s, b, r, flushing),
         flushing \in BOOLEAN, ScheduleOrFlush(s) \/ MaybeFlush(s, reading)
  PROVE  NestedIn(stack', b, r, flushing')
<1> DEFINE f == Call(s, "flush", None)
<1>1. f \in Frame /\ f.op = "flush"
  BY CallType, PlainCallType DEF Ops
<1>2. CASE stack' = s /\ flushing' = flushing
  BY <1>2
<1>3. CASE stack' = Append(s, f) /\ flushing' = TRUE
  <2> HIDE DEF f
  <2> QED BY <1>1, <1>3, NestPush
<1> QED
  BY <1>2, <1>3 DEF ScheduleOrFlush, MaybeFlush

-----------------------------------------------------------------------------
(* Every step keeps the nesting *)

(* The frame on top of the stack, replaced by one of the same call. *)
LEMMA NestTop ==
  ASSUME TypeOK, stack # <<>>, NestedIn(stack, batchDepth, readingDepth, flushing),
         NEW f \in Frame, f.op = Top.op, f.node = Top.node
  PROVE  NestedIn([stack EXCEPT ![Len(stack)] = f], batchDepth, readingDepth, flushing)
  BY SameTop, NestSame DEF TypeOK, Top

LEMMA NestNext ==
  ASSUME TypeOK, TypeOK', WellNested, [Next]_vars
  PROVE  WellNested'
<1> DEFINE Nested(s) == NestedIn(s, batchDepth, readingDepth, flushing)
<1>1. Nested(stack) /\ flushing \in BOOLEAN /\ stack \in Seq(Frame)
  BY DEF WellNested, NestedIn, Count, TypeOK
<1>2. SUFFICES NestedIn(stack', batchDepth', readingDepth', flushing')
  BY DEF WellNested, NestedIn, Count, CountIn, BodiesOnce
<1> DEFINE Depths == UNCHANGED <<batchDepth, readingDepth>>
<1>3. ASSUME stack # <<>>
      PROVE  /\ Pop \in Seq(Frame)
             /\ Top.op \notin {"batch", "with", "flush"} => Nested(Pop)
             /\ Top.op = "batch" => NestedIn(Pop, batchDepth - 1, readingDepth, flushing)
             /\ Top.op = "with" => NestedIn(Pop, batchDepth, readingDepth - 1, flushing)
             /\ Top.op = "flush" => NestedIn(Pop, batchDepth, readingDepth, FALSE)
  BY <1>1, <1>3, NestPop, PopType DEF Top, Pop
<1>4. ASSUME Depths, UNCHANGED flushing,
             \/ stack' = stack
             \/ /\ stack # <<>> /\ Top.op \notin {"batch", "with", "flush"}
                /\ stack' = Pop
      PROVE  NestedIn(stack', batchDepth', readingDepth', flushing')
  BY <1>1, <1>3, <1>4
(* A call, after the calling frame has noted that it is made. *)
<1>5. ASSUME Depths, UNCHANGED flushing,
             NEW s \in Seq(Frame), Nested(s),
             NEW f \in Frame, f.op \notin {"body", "batch", "with"}, stack' = Append(s, f)
      PROVE  NestedIn(stack', batchDepth', readingDepth', flushing')
  BY <1>1, <1>5, NestPush
<1>6. ASSUME Depths, NEW s \in Seq(Frame), Nested(s), NEW reading,
             ScheduleOrFlush(s) \/ MaybeFlush(s, reading)
      PROVE  NestedIn(stack', batchDepth', readingDepth', flushing')
  BY <1>1, <1>6, NestFlush
<1>7. ASSUME Depths, UNCHANGED flushing, stack # <<>>,
             NEW f \in Frame, f.op = Top.op, f.node = Top.node,
             stack' = [stack EXCEPT ![Len(stack)] = f]
      PROVE  NestedIn(stack', batchDepth', readingDepth', flushing')
  <2>1. NestedIn([stack EXCEPT ![Len(stack)] = f], batchDepth, readingDepth, flushing)
    BY <1>1, <1>7, NestTop
  <2> QED
    BY <1>7, <2>1
<1> HIDE DEF Nested
<1> USE DEF In
<1>10. CASE FlushEffect
  <2>0. pending \in Seq(Effects) /\ Head(pending) \in Effects
    BY <1>10 DEF FlushEffect, TypeOK
  <2>1. Pull(stack, Head(pending)) \in Frame
    BY <1>1, <2>0, PullType DEF Nodes
  <2>2. Pull(stack, Head(pending)).op = "pull"
    BY DEF Pull, Call
  <2> QED
    BY <1>1, <1>5, <1>10, <2>1, <2>2 DEF FlushEffect, Push
<1>11. CASE FlushTake
  <2> DEFINE f == [Top EXCEPT !.cbs = postFlush]
  <2>1. Top \in Frames /\ Top.op = "flush"
    BY <1>11, TopFrame DEF FlushTake
  <2>2. f \in Frame /\ f.op = Top.op /\ f.node = Top.node
    BY <2>1 DEF TypeOK, Frame, Frames, WellFormed
  <2>3. stack' = [stack EXCEPT ![Len(stack)] = f]
    BY <1>11 DEF FlushTake, Top
  <2> HIDE DEF f
  <2> QED
    BY <1>7, <1>11, <2>2, <2>3 DEF FlushTake
<1>12. CASE FlushCallback
  <2> DEFINE f == [Top EXCEPT !.cbs = Tail(Top.cbs)]
             rest == [stack EXCEPT ![Len(stack)].cbs = Tail(@)]
             tick == TickFrame(rest, Head(Top.cbs))
  <2>1. Top \in Frames /\ Top.op = "flush" /\ Top.cbs # <<>>
    BY <1>12, TopFrame DEF FlushCallback
  <2>2. Tail(Top.cbs) \in Seq(Ticks) /\ Head(Top.cbs) \in Ticks
    BY <2>1 DEF Frames
  <2>3. f \in Frame /\ f.op = Top.op /\ f.node = Top.node
    BY <2>1, <2>2 DEF Frame, Frames, WellFormed
  <2>4. rest = [stack EXCEPT ![Len(stack)] = f]
    BY DEF Top
  <2>5. stack # <<>> /\ stack' = Append(rest, tick)
    BY <1>12 DEF FlushCallback
  <2> HIDE DEF f
  <2>6. rest \in Seq(Frame) /\ Nested(rest)
    BY <1>1, <2>3, <2>4, <2>5, NestTop, TopFrame DEF Nested
  <2> HIDE DEF rest
  <2>7. tick \in Frame
    BY <2>2, <2>6, TickFrameType
  <2>8. tick.op = "tick"
    BY DEF TickFrame, Call
  <2> HIDE DEF tick
  <2> QED
    BY <1>5, <1>12, <2>5, <2>6, <2>7, <2>8 DEF FlushCallback
<1>13. CASE FlushDone
  BY <1>3, <1>13 DEF FlushDone
<1>14. CASE FlushJobs
  <2> DEFINE f == Call(stack, "flush", None)
  <2>1. f \in Frame /\ f.op = "flush"
    BY <1>1, CallType, PlainCallType DEF Ops
  <2>2. stack' = Append(stack, f) /\ flushing' = TRUE /\ Depths
    BY <1>14 DEF FlushJobs, Push
  <2> HIDE DEF f
  <2> QED
    BY <1>1, <2>1, <2>2, NestPush DEF Nested
<1>15. CASE MarkStale
  <2>1. PICK marks : stack' = [stack EXCEPT ![Len(stack)].marks = marks]
    BY <1>15 DEF MarkStale
  <2> DEFINE f == [Top EXCEPT !.marks = marks]
  <2>2. Top \in Frames /\ stack # <<>>
    BY <1>15, TopFrame DEF MarkStale
  <2>3. f.op = Top.op /\ f.node = Top.node
    BY <2>2 DEF Frames
  <2>4. stack' = [stack EXCEPT ![Len(stack)] = f]
    BY <2>1 DEF Top
  <2> HIDE DEF f
  <2>5. f = stack'[Len(stack)] /\ Len(stack) \in DOMAIN stack'
    BY <1>1, <2>2, <2>4
  <2>6. f \in Frame
    BY <2>5 DEF TypeOK
  <2> QED
    BY <1>7, <1>15, <2>2, <2>3, <2>4, <2>6 DEF MarkStale
<1>16. CASE RunSyncEffect
  <2>0. syncPending \in Seq(Effects) /\ Head(syncPending) \in Effects
    BY <1>16 DEF RunSyncEffect, TypeOK
  <2>1. Pull(stack, Head(syncPending)) \in Frame
    BY <1>1, <2>0, PullType DEF Nodes
  <2>2. Pull(stack, Head(syncPending)).op = "pull"
    BY DEF Pull, Call
  <2> QED
    BY <1>1, <1>5, <1>16, <2>1, <2>2 DEF RunSyncEffect, Push
<1>17. CASE NotifyDone
  BY <1>3, <1>6, <1>17 DEF NotifyDone
<1>18. CASE PullSource
  <2>1. PICK d \in Top.todo :
          LET rest == [stack EXCEPT ![Len(stack)].todo = @ \ {d}]
          IN stack' = Append(rest, Pull(rest, d))
    BY <1>18 DEF PullSource
  <2> DEFINE f == [Top EXCEPT !.todo = Top.todo \ {d}]
             rest == [stack EXCEPT ![Len(stack)].todo = @ \ {d}]
             pull == Pull(rest, d)
  <2>2. stack # <<>> /\ Top \in Frames /\ Top.op = "pull" /\ WellFormed(Top)
    BY <1>18, TopFrame DEF PullSource
  <2>3. d \in Nodes /\ f \in Frame /\ f.op = Top.op /\ f.node = Top.node
    BY <2>1, <2>2 DEF Frame, Frames, WellFormed, Nodes
  <2>4. rest = [stack EXCEPT ![Len(stack)] = f]
    BY DEF Top
  <2>5. stack' = Append(rest, pull)
    BY <2>1
  <2> HIDE DEF f
  <2>6. rest \in Seq(Frame) /\ Nested(rest)
    BY <1>1, <2>2, <2>3, <2>4, NestTop, TopFrame DEF Nested
  <2> HIDE DEF rest
  <2>7. pull \in Frame
    BY <2>3, <2>6, PullType
  <2>8. pull.op = "pull"
    BY DEF Pull, Call
  <2>9. Depths /\ UNCHANGED flushing
    BY <1>18 DEF PullSource
  <2> HIDE DEF pull
  <2> QED
    BY <1>5, <2>5, <2>6, <2>7, <2>8, <2>9
<1>19. CASE PullRun
  <2> DEFINE f == [Call(stack, "body", Top.node) EXCEPT !.by = Top.node, !.obs = Top.node]
  <2>1. /\ stack # <<>> /\ Top \in Frames /\ WellFormed(Top) /\ Top.op = "pull"
        /\ ~Taken(Top.node)
    BY <1>19, TopFrame DEF PullRun
  <2>2. Top.node \in Observers
    BY <1>19, <2>1 DEF PullRun, WellFormed, TypeOK, Nodes, Sources, Observers, Clean, Dirty
  <2>3. f \in Frame
    BY <1>1, <2>2, BodyType
  <2>4. f.op = "body" /\ f.node = Top.node
    BY DEF Call
  <2>5. Pop \in Seq(Frame) /\ Nested(Pop)
    BY <1>3, <2>1 DEF Nested
  <2>6. \A i \in DOMAIN Pop : i \in DOMAIN stack /\ Pop[i] = stack[i]
    BY <1>1, <2>1 DEF Pop
  <2>7. \A i \in DOMAIN Pop : Pop[i].op = "body" => Pop[i].node # Top.node
    BY <2>1, <2>6 DEF Taken
  <2>8. stack' = Append(Pop, f) /\ Depths /\ UNCHANGED flushing
    BY <1>19 DEF PullRun
  <2> HIDE DEF f
  <2>9. NestedIn(Append(Pop, f), batchDepth, readingDepth, flushing)
    BY <1>1, <2>3, <2>4, <2>5, <2>7, NestBody DEF Nested
  <2> QED
    BY <2>8, <2>9
<1>20. CASE PullDone
  BY <1>4, <1>20 DEF PullDone
<1>21. CASE FinishEffect
  BY <1>4, <1>21 DEF FinishEffect
<1>22. CASE FinishComputed
  <2>1. Depths /\ UNCHANGED flushing /\ stack' = Pop /\ stack # <<>> /\ Top.op = "body"
    BY <1>22 DEF FinishComputed
  <2> QED
    BY <1>4, <2>1
<1>23. CASE EndGet
  BY <1>3, <1>6, <1>23 DEF EndGet
<1>24. CASE With
  <2> DEFINE f == [Top EXCEPT !.op = "with", !.val = value[Top.node]]
  <2>1. Top \in Frames /\ WellFormed(Top) /\ Top.op = "open" /\ stack # <<>>
    BY <1>24, TopFrame DEF With
  <2>2. f.op = "with"
    BY <2>1 DEF Frames
  <2>3. stack' = [stack EXCEPT ![Len(stack)] = f]
    BY <1>24 DEF With, Top
  <2> HIDE DEF f
  <2>4. f = stack'[Len(stack)] /\ Len(stack) \in DOMAIN stack'
    BY <1>1, <2>1, <2>3
  <2>5. f \in Frame
    BY <2>4 DEF TypeOK
  <2>6. stack' = Append(Pop, f)
    BY <1>1, <2>1, <2>3, <2>5, ReplaceIsAppend DEF Pop
  <2>7. Pop \in Seq(Frame) /\ Nested(Pop)
    BY <1>3, <2>1 DEF Nested
  <2>8. NestedIn(Append(Pop, f), batchDepth, readingDepth + 1, flushing)
    BY <1>1, <2>2, <2>5, <2>7, NestPush DEF Nested
  <2>9. readingDepth' = readingDepth + 1 /\ UNCHANGED <<batchDepth, flushing>>
    BY <1>24 DEF With
  <2> QED
    BY <2>6, <2>8, <2>9
<1>25. CASE EndWith
  <2>1. Pop \in Seq(Frame) /\ NestedIn(Pop, batchDepth, readingDepth - 1, flushing)
    BY <1>3, <1>25 DEF EndWith
  <2>2. NestedIn(stack', batchDepth, readingDepth - 1, flushing')
    BY <1>1, <1>25, <2>1, NestFlush DEF EndWith
  <2> QED
    BY <1>25, <2>2 DEF EndWith
<1>26. CASE ReadPanics
  BY <1>4, <1>26 DEF ReadPanics, Panic
<1>27. CASE EndBatch
  <2>1. Pop \in Seq(Frame) /\ NestedIn(Pop, batchDepth - 1, readingDepth, flushing)
    BY <1>3, <1>27 DEF EndBatch
  <2>2. NestedIn(stack', batchDepth - 1, readingDepth, flushing')
    <3>1. CASE batchDepth = 1
      BY <1>1, <1>27, <2>1, <3>1, NestFlush DEF EndBatch
    <3>2. CASE batchDepth # 1
      BY <1>27, <2>1, <3>2 DEF EndBatch
    <3> QED
      BY <3>1, <3>2
  <2> QED
    BY <1>27, <2>2 DEF EndBatch
<1>28. CASE EndTick
  BY <1>4, <1>28 DEF EndTick
<1>29. ASSUME NEW c \in Code, NEW d \in Sources, NEW op \in {"get", "open"}, Read(c, d, op)
       PROVE  NestedIn(stack', batchDepth', readingDepth', flushing')
  <2> DEFINE read == Call(stack, op, d)
             reading == Push(read)
             pull == Pull(reading, d)
  <2>1. read \in Frame /\ read.op \notin {"body", "batch", "with"}
    BY <1>1, CallType, PlainCallType DEF Ops, Nodes
  <2>2. stack' = Append(reading, pull) /\ Depths /\ UNCHANGED flushing
    BY <1>29 DEF Read
  <2> HIDE DEF read
  <2>3. reading \in Seq(Frame) /\ Nested(reading)
    <3>1. reading = Append(stack, read)
      BY DEF Push
    <3> HIDE DEF reading
    <3>2. reading \in Seq(Frame)
      BY <1>1, <2>1, <3>1
    <3>3. NestedIn(Append(stack, read), batchDepth, readingDepth, flushing)
      BY <1>1, <2>1, NestPush DEF Nested
    <3> QED
      BY <3>1, <3>2, <3>3 DEF Nested
  <2> HIDE DEF reading
  <2>4. pull \in Frame
    BY <2>3, PullType DEF Nodes
  <2>5. pull.op = "pull"
    BY DEF Pull, Call
  <2> HIDE DEF pull
  <2> QED
    BY <1>5, <2>2, <2>3, <2>4, <2>5
<1>30. ASSUME NEW c \in Code, Get(c) \/ Open(c)
       PROVE  NestedIn(stack', batchDepth', readingDepth', flushing')
  BY <1>29, <1>30, ProgramAssumption DEF Get, Open
<1>31. ASSUME NEW c \in Code, Set(c) \/ Update(c)
       PROVE  NestedIn(stack', batchDepth', readingDepth', flushing')
  <2>1. PICK s \in Signals : stack' = Notify(stack, s) \/ stack' = stack
    BY <1>31, ProgramAssumption DEF Set, Update
  <2>2. Depths /\ UNCHANGED flushing
    BY <1>31 DEF Set, Update
  <2> DEFINE f == [Call(stack, "notify", s) EXCEPT !.marks = Subs(s) \X {Dirty}]
  <2>3. Notify(stack, s) = Append(stack, f) /\ f.op = "notify"
    BY DEF Notify, Call
  <2>4. CASE stack' = Notify(stack, s)
    <3> HIDE DEF f
    <3>1. stack' = Append(stack, f) /\ stack' \in Seq(Frame)
      BY <2>3, <2>4 DEF TypeOK
    <3>2. f = stack'[Len(stack')] /\ stack' # <<>>
      BY <1>1, <3>1
    <3>3. f \in Frame
      BY <3>1, <3>2, LastType
    <3> QED
      BY <1>1, <1>5, <2>2, <2>3, <3>1, <3>3
  <2>5. CASE stack' = stack
    BY <1>4, <2>2, <2>5
  <2> QED
    BY <2>1, <2>4, <2>5
<1>32. ASSUME NEW c \in Code, UpdatePanics(c)
       PROVE  NestedIn(stack', batchDepth', readingDepth', flushing')
  BY <1>4, <1>32 DEF UpdatePanics, Panic
<1>33. ASSUME NEW c \in Code, Batch(c)
       PROVE  NestedIn(stack', batchDepth', readingDepth', flushing')
  <2> DEFINE f == Call(stack, "batch", None)
  <2>1. f \in Frame /\ f.op = "batch"
    BY <1>1, CallType, PlainCallType DEF Ops
  <2>2. /\ stack' = Append(stack, f) /\ batchDepth' = batchDepth + 1
        /\ UNCHANGED <<readingDepth, flushing>>
    BY <1>33 DEF Batch, Push
  <2> HIDE DEF f
  <2> QED
    BY <1>1, <2>1, <2>2, NestPush DEF Nested
<1>34. ASSUME NEW c \in Code, NextTick(c)
       PROVE  NestedIn(stack', batchDepth', readingDepth', flushing')
  <2>1. Depths
    BY <1>34 DEF NextTick
  <2>2. \/ ScheduleOrFlush(stack)
        \/ UNCHANGED <<stack, flushing>>
        \/ UNCHANGED flushing /\ \E t \in Ticks : stack' = Append(stack, TickFrame(stack, t))
    BY <1>34 DEF NextTick, Push
  <2>3. CASE \E t \in Ticks : UNCHANGED flushing /\ stack' = Append(stack, TickFrame(stack, t))
    <3>1. PICK t \in Ticks : stack' = Append(stack, TickFrame(stack, t))
      BY <2>3
    <3>2. TickFrame(stack, t) \in Frame
      BY <1>1, TickFrameType
    <3>3. TickFrame(stack, t).op = "tick"
      BY DEF TickFrame, Call
    <3> QED
      BY <1>1, <1>5, <2>1, <2>3, <3>1, <3>2, <3>3
  <2> QED
    BY <1>1, <1>4, <1>6, <2>1, <2>2, <2>3
<1>35. ASSUME NEW c \in Code, CreateEffect(c)
       PROVE  NestedIn(stack', batchDepth', readingDepth', flushing')
  <2>1. PICK e \in Effects : stack' = Append(stack, Call(stack, "pull", e))
    BY <1>35 DEF CreateEffect, Push
  <2>2. Depths /\ UNCHANGED flushing
    BY <1>35 DEF CreateEffect
  <2>3. Call(stack, "pull", e) \in Frame /\ Call(stack, "pull", e).op = "pull"
    BY <1>1, CallType, PlainCallType DEF Ops, Nodes
  <2> QED
    BY <1>1, <1>5, <2>1, <2>2, <2>3
<1>36. CASE SetScheduler \/ ClearScheduler
  BY <1>4, <1>36 DEF SetScheduler, ClearScheduler
<1>37. CASE UNCHANGED vars
  BY <1>4, <1>37 DEF vars
<1> QED
  BY <1>10, <1>11, <1>12, <1>13, <1>14, <1>15, <1>16, <1>17, <1>18, <1>19, <1>20, <1>21,
     <1>22, <1>23, <1>24, <1>25, <1>26, <1>27, <1>28, <1>30, <1>31, <1>32, <1>33, <1>34,
     <1>35, <1>36, <1>37
  DEF Next, System, User

(* The counters and flags that decide whether a flush may start agree with *)
(* the calls that are active, for every graph and every program: closures  *)
(* may write, batch, read inside reads, and panic.  No closure is entered  *)
(* while it runs, whatever the order of pulls, notifications and flushes.  *)
THEOREM NestingCorrect == Spec => []WellNested
<1>1. Init => WellNested
  <2> SUFFICES ASSUME Init
               PROVE  WellNested
    OBVIOUS
  <2>1. \A op : {i \in DOMAIN stack : stack[i].op = op} = {}
    BY DEF Init
  <2>2. \A op : Count(op) = 0
    BY <2>1, FS_EmptySet DEF Count, CountIn
  <2> QED
    BY <2>2 DEF Init, WellNested, BodiesOnce
<1>2. TypeOK /\ TypeOK' /\ WellNested /\ [Next]_vars => WellNested'
  BY NestNext
<1> QED
  BY <1>1, <1>2, TypeCorrect, PTL DEF Spec

-----------------------------------------------------------------------------
(* What the steps that change the innermost call make of the stack *)

LEMMA RetopIs ==
  ASSUME TypeOK, stack # <<>>, NEW f \in Frame
  PROVE  [stack EXCEPT ![Len(stack)] = f] = Append(Pop, f)
  BY ReplaceIsAppend DEF TypeOK, Pop

LEMMA FlushTakeIs ==
  ASSUME TypeOK, FlushTake
  PROVE  [Top EXCEPT !.cbs = postFlush] \in Frame
         /\ stack' = Append(Pop, [Top EXCEPT !.cbs = postFlush])
<1> DEFINE f == [Top EXCEPT !.cbs = postFlush]
<1>1. stack # <<>> /\ Top \in Frames /\ Top.op = "flush"
  BY TopFrame DEF FlushTake, In
<1>2. f \in Frame
  BY <1>1 DEF TypeOK, Frame, Frames, WellFormed
<1>3. stack' = [stack EXCEPT ![Len(stack)] = f]
  BY DEF FlushTake, Top
<1> HIDE DEF f
<1> QED
  BY <1>1, <1>2, <1>3, RetopIs DEF f

(* The frame of a flush without the callback that it runs next. *)
Rest == [Top EXCEPT !.cbs = Tail(Top.cbs)]

LEMMA FlushCallbackIs ==
  ASSUME TypeOK, FlushCallback
  PROVE  /\ Rest \in Frame /\ Append(Pop, Rest) \in Seq(Frame) /\ Head(Top.cbs) \in Ticks
         /\ TickFrame(Append(Pop, Rest), Head(Top.cbs)) \in Frame
         /\ stack' = Append(Append(Pop, Rest), TickFrame(Append(Pop, Rest), Head(Top.cbs)))
<1> DEFINE rest == [stack EXCEPT ![Len(stack)].cbs = Tail(@)]
<1>1. stack # <<>> /\ Top \in Frames /\ Top.op = "flush" /\ Top.cbs # <<>> /\ Pop \in Seq(Frame)
  BY TopFrame DEF FlushCallback, In
<1>2. Tail(Top.cbs) \in Seq(Ticks) /\ Head(Top.cbs) \in Ticks
  BY <1>1 DEF Frames
<1>3. Rest \in Frame
  BY <1>1, <1>2 DEF Frame, Frames, WellFormed, Rest
<1>4. rest = Append(Pop, Rest)
  <2>1. rest = [stack EXCEPT ![Len(stack)] = Rest]
    BY DEF Top, Rest
  <2> QED
    BY <1>1, <1>3, <2>1, RetopIs
<1>5. stack' = Append(rest, TickFrame(rest, Head(Top.cbs)))
  BY DEF FlushCallback
<1> HIDE DEF rest
<1>6. Append(Pop, Rest) \in Seq(Frame)
  BY <1>1, <1>3
<1> QED
  BY <1>2, <1>3, <1>4, <1>5, <1>6, TickFrameType

LEMMA PullSourceIs ==
  ASSUME TypeOK, PullSource
  PROVE  \E d \in Top.todo :
           LET f == [Top EXCEPT !.todo = Top.todo \ {d}]
           IN /\ f \in Frame /\ Append(Pop, f) \in Seq(Frame)
              /\ Pull(Append(Pop, f), d) \in Frame
              /\ stack' = Append(Append(Pop, f), Pull(Append(Pop, f), d))
<1>1. PICK d \in Top.todo :
        LET rest == [stack EXCEPT ![Len(stack)].todo = @ \ {d}]
        IN stack' = Append(rest, Pull(rest, d))
  BY DEF PullSource
<1> DEFINE f == [Top EXCEPT !.todo = Top.todo \ {d}]
           rest == [stack EXCEPT ![Len(stack)].todo = @ \ {d}]
<1>2. stack # <<>> /\ Top \in Frames /\ Top.op = "pull" /\ WellFormed(Top) /\ Pop \in Seq(Frame)
  BY TopFrame DEF PullSource, In
<1>3. d \in Nodes /\ f \in Frame
  BY <1>2 DEF Frame, Frames, WellFormed, Nodes
<1>4. rest = [stack EXCEPT ![Len(stack)] = f]
  BY DEF Top
<1>5. stack' = Append(rest, Pull(rest, d))
  BY <1>1
<1> HIDE DEF f, rest
<1>6. rest = Append(Pop, f) /\ Append(Pop, f) \in Seq(Frame)
  BY <1>2, <1>3, <1>4, RetopIs
<1>7. Pull(Append(Pop, f), d) \in Frame
  BY <1>3, <1>6, PullType
<1> QED
  BY <1>3, <1>5, <1>6, <1>7 DEF f

LEMMA MarkStaleIs ==
  ASSUME TypeOK, TypeOK', MarkStale
  PROVE  \E m \in Top.marks :
           LET n == m[1]
               more == IF Escalates(n, m[2]) THEN {<<x, Check>> : x \in Subs(n)} ELSE {}
               f == [Top EXCEPT !.marks = (Top.marks \ {m}) \cup more]
           IN /\ n \in Observers /\ m[2] \in {Check, Dirty} /\ m = <<n, m[2]>>
              /\ f \in Frame /\ stack' = Append(Pop, f)
              /\ state' = IF Escalates(n, m[2]) THEN [state EXCEPT ![n] = m[2]] ELSE state
              /\ Escalates(n, m[2]) /\ state[n] = Clean /\ n \in Effects \ SyncEffects
                   => n \in Elements(pending')
              /\ \A e \in Elements(pending) : e \in Elements(pending')
              /\ SyncEffects = {} => syncPending' = syncPending
              /\ pending # <<>> => pending' # <<>>
<1>1. PICK m \in Top.marks :
        LET n == m[1]
            target == m[2]
            rest == Top.marks \ {m}
            escalates == Escalates(n, target)
            queues == escalates /\ state[n] = Clean /\ n \in Effects
            more == IF escalates THEN {<<x, Check>> : x \in Subs(n)} ELSE {}
        IN /\ state' = IF escalates THEN [state EXCEPT ![n] = target] ELSE state
           /\ pending' = IF queues /\ n \notin SyncEffects \cup Elements(pending)
                         THEN Append(pending, n) ELSE pending
           /\ syncPending' = IF queues /\ n \in SyncEffects \ Elements(syncPending)
                             THEN Append(syncPending, n) ELSE syncPending
           /\ stack' = [stack EXCEPT ![Len(stack)].marks = rest \cup more]
  BY DEF MarkStale
<1> DEFINE n == m[1]
           more == IF Escalates(n, m[2]) THEN {<<x, Check>> : x \in Subs(n)} ELSE {}
           marks == (Top.marks \ {m}) \cup more
           f == [Top EXCEPT !.marks = marks]
<1>2. stack # <<>> /\ Top \in Frames /\ Top.op = "notify" /\ WellFormed(Top)
  BY TopFrame DEF MarkStale, In
<1>3. n \in Observers /\ m[2] \in {Check, Dirty} /\ m = <<n, m[2]>>
  BY <1>1, <1>2 DEF Frames
<1>4. marks \in SUBSET (Observers \X {Check, Dirty})
  BY <1>2 DEF Frames, Subs
<1>5. stack' = [stack EXCEPT ![Len(stack)].marks = marks]
  BY <1>1
<1> HIDE DEF marks
<1>6. f \in Frame
  BY <1>2, <1>4 DEF Frame, Frames, WellFormed
<1>7. stack' = [stack EXCEPT ![Len(stack)] = f]
  BY <1>5 DEF Top
<1> HIDE DEF f
<1>8. stack' = Append(Pop, f)
  BY <1>2, <1>6, <1>7, RetopIs
<1>9. pending \in Seq(Effects)
  BY DEF TypeOK
<1>10. ASSUME pending' = Append(pending, n), n \in Effects
       PROVE  /\ n \in Elements(pending') /\ \A e \in Elements(pending) : e \in Elements(pending')
              /\ pending' # <<>>
  BY <1>9, <1>10 DEF Elements
<1>11. /\ Escalates(n, m[2]) /\ state[n] = Clean /\ n \in Effects \ SyncEffects
            => n \in Elements(pending')
       /\ \A e \in Elements(pending) : e \in Elements(pending')
       /\ pending # <<>> => pending' # <<>>
  BY <1>1, <1>10
<1>12. SyncEffects = {} => syncPending' = syncPending
  BY <1>1
<1>13. state' = IF Escalates(n, m[2]) THEN [state EXCEPT ![n] = m[2]] ELSE state
  BY <1>1
<1> QED
  BY <1>3, <1>6, <1>8, <1>11, <1>12, <1>13 DEF f, marks

LEMMA PullRunIs ==
  ASSUME TypeOK, PullRun
  PROVE  LET n == Top.node
             f == [Call(stack, "body", n) EXCEPT !.by = n, !.obs = n]
         IN /\ n \in Observers /\ f \in Frame /\ stack' = Append(Pop, f)
            /\ f.op = "body" /\ f.node = n /\ f.by = n /\ f.obs = n
            /\ f.marks = {} /\ f.cbs = <<>> /\ f.todo = {}
<1>1. stack # <<>> /\ Top \in Frames /\ WellFormed(Top) /\ Top.op = "pull"
  BY TopFrame DEF PullRun, In
<1>2. Top.node \in Observers
  BY <1>1 DEF PullRun, WellFormed, TypeOK, Nodes, Sources, Observers, Clean, Dirty
<1>3. [Call(stack, "body", Top.node) EXCEPT !.by = Top.node, !.obs = Top.node] \in Frame
  BY <1>2, BodyType DEF TypeOK
<1> QED
  BY <1>2, <1>3 DEF PullRun, Call

LEMMA WithIs ==
  ASSUME TypeOK, TypeOK', With
  PROVE  LET f == [Top EXCEPT !.op = "with", !.val = value[Top.node]]
         IN /\ f \in Frame /\ stack' = Append(Pop, f)
            /\ f.op = "with" /\ f.node = Top.node /\ f.by = Top.by /\ f.obs = Top.obs
            /\ f.val = value[Top.node] /\ f.marks = Top.marks /\ f.cbs = Top.cbs
<1> DEFINE f == [Top EXCEPT !.op = "with", !.val = value[Top.node]]
<1>1. Top \in Frames /\ WellFormed(Top) /\ Top.op = "open" /\ stack # <<>>
  BY TopFrame DEF With, In
<1>2. /\ f.op = "with" /\ f.node = Top.node /\ f.by = Top.by /\ f.obs = Top.obs
      /\ f.val = value[Top.node] /\ f.marks = Top.marks /\ f.cbs = Top.cbs
  BY <1>1 DEF Frames
<1>3. stack' = [stack EXCEPT ![Len(stack)] = f]
  BY DEF With, Top
<1> HIDE DEF f
<1>4. f = stack'[Len(stack)] /\ Len(stack) \in DOMAIN stack'
  BY <1>1, <1>3 DEF TypeOK
<1>5. f \in Frame
  BY <1>4 DEF TypeOK
<1>6. stack' = Append(Pop, f)
  BY <1>1, <1>3, <1>5, RetopIs
<1> QED
  BY <1>2, <1>5, <1>6 DEF f

LEMMA PullFields ==
  ASSUME NEW s, NEW d
  PROVE  /\ Pull(s, d).op = "pull" /\ Pull(s, d).node = d
         /\ Pull(s, d).by = CodeIn(s) /\ Pull(s, d).obs = ObserverIn(s)
         /\ Pull(s, d).marks = {} /\ Pull(s, d).cbs = <<>>
         /\ Pull(s, d).todo = IF state[d] = Check THEN deps[d] ELSE {}
  BY DEF Pull, Call

LEMMA TickFields ==
  ASSUME NEW s, NEW t
  PROVE  /\ TickFrame(s, t).op = "tick" /\ TickFrame(s, t).by = Tick
         /\ TickFrame(s, t).obs = ObserverIn(s) /\ TickFrame(s, t).marks = {}
         /\ TickFrame(s, t).cbs = <<t>>
  BY DEF TickFrame, Call

LEMMA NotifyIs ==
  ASSUME NEW s \in Seq(Frame), NEW d \in Signals
  PROVE  LET f == [Call(s, "notify", d) EXCEPT !.marks = Subs(d) \X {Dirty}]
         IN /\ f \in Frame /\ Notify(s, d) = Append(s, f)
            /\ f.op = "notify" /\ f.node = d /\ f.by = CodeIn(s) /\ f.obs = ObserverIn(s)
            /\ f.marks = Subs(d) \X {Dirty} /\ f.cbs = <<>>
<1> DEFINE f == [Call(s, "notify", d) EXCEPT !.marks = Subs(d) \X {Dirty}]
<1>1. Notify(s, d) \in Seq(Frame) /\ Notify(s, d) = Append(s, f)
  BY NotifyType DEF Notify
<1>2. /\ f.op = "notify" /\ f.node = d /\ f.by = CodeIn(s) /\ f.obs = ObserverIn(s)
      /\ f.marks = Subs(d) \X {Dirty} /\ f.cbs = <<>>
  BY DEF Call
<1> HIDE DEF f
<1>3. Append(s, f) \in Seq(Frame) /\ Append(s, f)[Len(s) + 1] = f
      /\ Len(s) + 1 \in DOMAIN Append(s, f)
  BY <1>1
<1>4. f \in Frame
  BY <1>3
<1> QED
  BY <1>1, <1>2, <1>4 DEF f

-----------------------------------------------------------------------------
(* The edges change as DepGraph.tla says *)

BodiesIn(s) == {s[i].node : i \in {j \in DOMAIN s : s[j].op = "body"}}

(* Only a closure that runs observes. *)
ObserversRun(s) ==
  \A i \in DOMAIN s : s[i].obs # None =>
    \E j \in DOMAIN s : j =< i /\ s[j].op = "body" /\ s[j].node = s[i].obs

(* What t has of s: the closures that run, and observers among them. *)
KeepsBodies(s, t) == ObserversRun(t) /\ BodiesIn(t) = BodiesIn(s)

LEMMA PushIndex ==
  ASSUME NEW S, NEW s \in Seq(S), NEW f \in S
  PROVE  LET t == Append(s, f)
         IN /\ t \in Seq(S) /\ t # <<>> /\ Len(t) = Len(s) + 1 /\ Len(s) \in Nat
            /\ DOMAIN s = 1 .. Len(s) /\ DOMAIN t = 1 .. Len(s) + 1
            /\ t[Len(t)] = f /\ t[Len(s) + 1] = f
            /\ \A i \in DOMAIN s : i \in DOMAIN t /\ i < Len(t) /\ t[i] = s[i]
            /\ \A i \in DOMAIN t : i \in DOMAIN s \/ i = Len(t)
            /\ SubSeq(t, 1, Len(t) - 1) = s
  OBVIOUS

LEMMA PopIndex ==
  ASSUME NEW S, NEW s \in Seq(S), s # <<>>
  PROVE  LET t == SubSeq(s, 1, Len(s) - 1)
         IN /\ t \in Seq(S) /\ Len(t) = Len(s) - 1 /\ Len(s) \in Nat \ {0}
            /\ DOMAIN s = 1 .. Len(s) /\ DOMAIN t = 1 .. Len(s) - 1
            /\ s[Len(s)] \in S /\ Len(s) \in DOMAIN s
            /\ \A i \in DOMAIN t : i \in DOMAIN s /\ i < Len(s) /\ t[i] = s[i]
            /\ \A i \in DOMAIN s : i \in DOMAIN t \/ i = Len(s)
<1>1. Len(s) \in Nat \ {0} /\ DOMAIN s = 1 .. Len(s) /\ s[Len(s)] \in S
  OBVIOUS
<1> DEFINE n == Len(s)
           t == SubSeq(s, 1, n - 1)
<1>2. n \in Nat \ {0} /\ n - 1 \in Nat /\ \A i \in 1 .. n : s[i] \in S
  OBVIOUS
<1>3. /\ t \in Seq(S) /\ Len(t) = n - 1 /\ DOMAIN t = 1 .. n - 1
      /\ \A i \in 1 .. n - 1 : t[i] = s[i]
  <2> HIDE DEF n
  <2> QED
    BY <1>2, SubSeqProperties
<1> HIDE DEF n, t
<1>4. /\ t \in Seq(S) /\ Len(t) = n - 1 /\ n \in Nat \ {0}
      /\ DOMAIN s = 1 .. n /\ DOMAIN t = 1 .. n - 1
      /\ s[n] \in S /\ n \in DOMAIN s
      /\ \A i \in DOMAIN t : i \in DOMAIN s /\ i < n /\ t[i] = s[i]
      /\ \A i \in DOMAIN s : i \in DOMAIN t \/ i = n
  BY <1>1, <1>2, <1>3 DEF n
<1> QED
  BY <1>4 DEF n, t

LEMMA KeepsPush ==
  ASSUME NEW s \in Seq(Frame), ObserversRun(s), NEW f \in Frame, f.op # "body",
         f.obs = ObserverIn(s)
  PROVE  KeepsBodies(s, Append(s, f))
<1> DEFINE t == Append(s, f)
<1>1. /\ Len(t) = Len(s) + 1 /\ Len(s) \in Nat /\ t[Len(t)] = f
      /\ DOMAIN s = 1 .. Len(s) /\ DOMAIN t = 1 .. Len(s) + 1
      /\ \A i \in DOMAIN s : i \in DOMAIN t /\ i < Len(t) /\ t[i] = s[i]
      /\ \A i \in DOMAIN t : i \in DOMAIN s \/ i = Len(t)
  BY PushIndex
<1>2. s = <<>> \/ (s # <<>> /\ Len(s) \in DOMAIN s)
  OBVIOUS
<1> HIDE DEF t
<1>3. BodiesIn(t) = BodiesIn(s)
  <2>1. \A i \in DOMAIN t : t[i].op = "body" => i \in DOMAIN s
    BY <1>1
  <2> QED
    BY <1>1, <2>1 DEF BodiesIn
<1>4. ObserversRun(t)
  <2> SUFFICES ASSUME NEW i \in DOMAIN t, t[i].obs # None
               PROVE  \E j \in DOMAIN t : j =< i /\ t[j].op = "body" /\ t[j].node = t[i].obs
    BY DEF ObserversRun
  <2>1. CASE i \in DOMAIN s
    <3>1. PICK j \in DOMAIN s : j =< i /\ s[j].op = "body" /\ s[j].node = s[i].obs
      BY <1>1, <2>1 DEF ObserversRun
    <3> QED
      BY <1>1, <2>1, <3>1
  <2>2. CASE i = Len(t)
    <3>1. s # <<>> /\ Len(s) \in DOMAIN s /\ t[i].obs = s[Len(s)].obs
      BY <1>1, <1>2, <2>2 DEF ObserverIn
    <3>2. PICK j \in DOMAIN s : j =< Len(s) /\ s[j].op = "body" /\ s[j].node = s[Len(s)].obs
      BY <3>1 DEF ObserversRun
    <3> QED
      BY <1>1, <2>2, <3>1, <3>2
  <2> QED
    BY <1>1, <2>1, <2>2
<1> QED
  BY <1>3, <1>4 DEF KeepsBodies, t

LEMMA KeepsPop ==
  ASSUME NEW s \in Seq(Frame), s # <<>>, ObserversRun(s)
  PROVE  LET t == SubSeq(s, 1, Len(s) - 1)
         IN /\ ObserversRun(t)
            /\ s[Len(s)].op # "body" => KeepsBodies(s, t)
<1> DEFINE t == SubSeq(s, 1, Len(s) - 1)
<1>1. /\ Len(t) = Len(s) - 1 /\ Len(s) \in Nat \ {0}
      /\ DOMAIN s = 1 .. Len(s) /\ DOMAIN t = 1 .. Len(s) - 1
      /\ \A i \in DOMAIN t : i \in DOMAIN s /\ i < Len(s) /\ t[i] = s[i]
      /\ \A i \in DOMAIN s : i \in DOMAIN t \/ i = Len(s)
  BY PopIndex
<1> HIDE DEF t
<1>2. ObserversRun(t)
  <2> SUFFICES ASSUME NEW i \in DOMAIN t, t[i].obs # None
               PROVE  \E j \in DOMAIN t : j =< i /\ t[j].op = "body" /\ t[j].node = t[i].obs
    BY DEF ObserversRun
  <2>1. PICK j \in DOMAIN s : j =< i /\ s[j].op = "body" /\ s[j].node = s[i].obs
    BY <1>1 DEF ObserversRun
  <2>2. j \in DOMAIN t
    BY <1>1, <2>1
  <2> QED
    BY <1>1, <2>1, <2>2
<1>3. ASSUME s[Len(s)].op # "body"
      PROVE  BodiesIn(t) = BodiesIn(s)
  <2>1. \A i \in DOMAIN s : s[i].op = "body" => i \in DOMAIN t
    BY <1>1, <1>3
  <2> QED
    BY <1>1, <2>1 DEF BodiesIn
<1> QED
  BY <1>2, <1>3 DEF KeepsBodies, t

(* The innermost frame is replaced by one with the same observer. *)
LEMMA KeepsRetop ==
  ASSUME NEW s \in Seq(Frame), s # <<>>, ObserversRun(s), s[Len(s)].op # "body",
         NEW f \in Frame, f.op # "body", f.obs = s[Len(s)].obs
  PROVE  KeepsBodies(s, Append(SubSeq(s, 1, Len(s) - 1), f))
<1> DEFINE p == SubSeq(s, 1, Len(s) - 1)
           t == Append(p, f)
<1>1. /\ p \in Seq(Frame) /\ Len(p) = Len(s) - 1 /\ Len(s) \in Nat \ {0}
      /\ DOMAIN s = 1 .. Len(s) /\ DOMAIN p = 1 .. Len(s) - 1 /\ Len(s) \in DOMAIN s
      /\ \A i \in DOMAIN p : i \in DOMAIN s /\ i < Len(s) /\ p[i] = s[i]
      /\ \A i \in DOMAIN s : i \in DOMAIN p \/ i = Len(s)
  BY PopIndex
<1>2. ObserversRun(p) /\ BodiesIn(p) = BodiesIn(s)
  BY KeepsPop DEF KeepsBodies
<1> HIDE DEF p
<1>3. /\ Len(t) = Len(p) + 1 /\ t[Len(t)] = f /\ DOMAIN t = 1 .. Len(p) + 1
      /\ \A i \in DOMAIN p : i \in DOMAIN t /\ i < Len(t) /\ t[i] = p[i]
      /\ \A i \in DOMAIN t : i \in DOMAIN p \/ i = Len(t)
  BY <1>1, PushIndex
<1> HIDE DEF t
<1>4. BodiesIn(t) = BodiesIn(p)
  <2>1. \A i \in DOMAIN t : t[i].op = "body" => i \in DOMAIN p
    BY <1>3
  <2> QED
    BY <1>3, <2>1 DEF BodiesIn
<1>5. ObserversRun(t)
  <2> SUFFICES ASSUME NEW i \in DOMAIN t, t[i].obs # None
               PROVE  \E j \in DOMAIN t : j =< i /\ t[j].op = "body" /\ t[j].node = t[i].obs
    BY DEF ObserversRun
  <2>1. i \in DOMAIN s /\ t[i].obs = s[i].obs
    BY <1>1, <1>3
  <2>2. PICK j \in DOMAIN s : j =< i /\ s[j].op = "body" /\ s[j].node = s[i].obs
    BY <2>1 DEF ObserversRun
  <2>3. j \in DOMAIN p
    BY <1>1, <2>2
  <2> QED
    BY <1>1, <1>3, <2>1, <2>2, <2>3
<1> QED
  BY <1>2, <1>4, <1>5 DEF KeepsBodies, t, p

LEMMA KeepsFlush ==
  ASSUME NEW s \in Seq(Frame), ObserversRun(s), NEW reading,
         ScheduleOrFlush(s) \/ MaybeFlush(s, reading)
  PROVE  KeepsBodies(s, stack')
<1> DEFINE f == Call(s, "flush", None)
<1>1. f \in Frame /\ f.op = "flush" /\ f.obs = ObserverIn(s)
  BY CallType, PlainCallType DEF Ops
<1>2. stack' = s \/ stack' = Append(s, f)
  BY DEF ScheduleOrFlush, MaybeFlush
<1>3. KeepsBodies(s, s)
  BY DEF KeepsBodies
<1> HIDE DEF f
<1> QED
  BY <1>1, <1>2, <1>3, KeepsPush

LEMMA TakenIs ==
  /\ \A n : Taken(n) <=> n \in BodiesIn(stack)
  /\ \A n : Taken(n)' <=> n \in BodiesIn(stack')
  BY DEF Taken, BodiesIn

LEMMA KeepsEdges ==
  ASSUME KeepsBodies(stack, stack'), UNCHANGED <<deps, confirmed>>
  PROVE  UNCHANGED Graph!edgeVars
<1>1. \A n : Taken(n)' <=> Taken(n)
  BY TakenIs DEF KeepsBodies
<1>2. {n \in Observers : Taken(n)}' = {n \in Observers : Taken(n)}
  BY <1>1
<1>3. [n \in Nodes |-> IF n \in Observers THEN deps[n] ELSE {}]'
        = [n \in Nodes |-> IF n \in Observers THEN deps[n] ELSE {}]
  OBVIOUS
<1>4. [n \in Nodes |-> IF n \in Observers /\ Taken(n) THEN confirmed[n] ELSE {}]'
        = [n \in Nodes |-> IF n \in Observers /\ Taken(n) THEN confirmed[n] ELSE {}]
  BY <1>1
<1> QED
  BY <1>2, <1>3, <1>4 DEF Graph!edgeVars

(* A closure starts. *)
LEMMA StartEdges ==
  ASSUME TypeOK, NEW n \in Observers, ~Taken(n),
         \A m : Taken(m)' <=> Taken(m) \/ m = n,
         deps' = deps, confirmed' = [confirmed EXCEPT ![n] = {}]
  PROVE  Graph!Next
<1>1. n \in Nodes
  BY DEF Observers, Nodes, Sources
<1>2. {m \in Observers : Taken(m)}' = {m \in Observers : Taken(m)} \cup {n}
  OBVIOUS
<1>3. [m \in Nodes |-> IF m \in Observers THEN deps[m] ELSE {}]'
        = [m \in Nodes |-> IF m \in Observers THEN deps[m] ELSE {}]
  OBVIOUS
<1>4. [m \in Nodes |-> IF m \in Observers /\ Taken(m) THEN confirmed[m] ELSE {}]'
        = [m \in Nodes |-> IF m \in Observers /\ Taken(m) THEN confirmed[m] ELSE {}]
  BY DEF TypeOK
<1>5. Graph!Start(n)
  BY <1>1, <1>2, <1>3, <1>4 DEF Graph!Start
<1> QED
  BY <1>1, <1>5 DEF Graph!Next

(* It reads a source. *)
LEMMA ReadEdges ==
  ASSUME TypeOK, NEW n \in Observers, Taken(n), NEW d \in Sources,
         \A m : Taken(m)' <=> Taken(m),
         deps' = [deps EXCEPT ![n] = @ \cup {d}],
         confirmed' = [confirmed EXCEPT ![n] = @ \cup {d}]
  PROVE  Graph!Next
<1> DEFINE D == [m \in Nodes |-> IF m \in Observers THEN deps[m] ELSE {}]
           C == [m \in Nodes |-> IF m \in Observers /\ Taken(m) THEN confirmed[m] ELSE {}]
<1>1. n \in Nodes /\ d \in Nodes
  BY DEF Observers, Nodes, Sources
<1>2. {m \in Observers : Taken(m)}' = {m \in Observers : Taken(m)}
  OBVIOUS
<1>3. D' = [D EXCEPT ![n] = @ \cup {d}]
  BY <1>1 DEF TypeOK
<1>4. C' = [C EXCEPT ![n] = @ \cup {d}]
  BY <1>1 DEF TypeOK
<1>5. Graph!Read(n, d)
  BY <1>1, <1>2, <1>3, <1>4 DEF Graph!Read
<1> QED
  BY <1>1, <1>5 DEF Graph!Next

(* It returns. *)
LEMMA EndEdges ==
  ASSUME TypeOK, NEW n \in Observers, Taken(n),
         \A m : Taken(m)' <=> Taken(m) /\ m # n,
         deps' = [deps EXCEPT ![n] = confirmed[n]], confirmed' = confirmed
  PROVE  Graph!Next
<1> DEFINE D == [m \in Nodes |-> IF m \in Observers THEN deps[m] ELSE {}]
           C == [m \in Nodes |-> IF m \in Observers /\ Taken(m) THEN confirmed[m] ELSE {}]
<1>1. n \in Nodes
  BY DEF Observers, Nodes, Sources
<1>2. {m \in Observers : Taken(m)}' = {m \in Observers : Taken(m)} \ {n}
  OBVIOUS
<1>3. C[n] = confirmed[n]
  BY <1>1
<1>4. D' = [D EXCEPT ![n] = C[n]]
  BY <1>1, <1>3 DEF TypeOK
<1>5. C' = [C EXCEPT ![n] = {}]
  BY <1>1 DEF TypeOK
<1>6. Graph!End(n)
  BY <1>1, <1>2, <1>4, <1>5 DEF Graph!End
<1> QED
  BY <1>1, <1>6 DEF Graph!Next

LEMMA GraphNext ==
  ASSUME TypeOK, TypeOK', WellNested, ObserversRun(stack), [Next]_vars
  PROVE  ObserversRun(stack') /\ [Graph!Next]_(Graph!edgeVars)
<1> DEFINE Step == ObserversRun(stack') /\ [Graph!Next]_(Graph!edgeVars)
           Edges == UNCHANGED <<deps, confirmed>>
<1>1. stack \in Seq(Frame)
  BY DEF TypeOK
<1>2. ASSUME KeepsBodies(stack, stack'), Edges
      PROVE  Step
  BY <1>2, KeepsEdges DEF KeepsBodies
<1>3. KeepsBodies(stack, stack)
  BY DEF KeepsBodies
<1>4. ASSUME stack # <<>>
      PROVE  /\ Pop \in Seq(Frame) /\ Top \in Frame /\ ObserversRun(Pop)
             /\ Top.op # "body" => KeepsBodies(stack, Pop)
             /\ \A f \in Frame : Top.op # "body" /\ f.op # "body" /\ f.obs = Top.obs
                  => KeepsBodies(stack, Append(Pop, f))
  BY <1>1, <1>4, TopFrame, KeepsPop, KeepsRetop DEF Top, Pop
<1>5. ASSUME NEW s \in Seq(Frame), KeepsBodies(stack, s)
      PROVE  /\ \A f \in Frame : f.op # "body" /\ f.obs = ObserverIn(s)
                  => KeepsBodies(stack, Append(s, f))
             /\ \A reading : ScheduleOrFlush(s) \/ MaybeFlush(s, reading)
                  => KeepsBodies(stack, stack')
  BY <1>1, <1>5, KeepsPush, KeepsFlush DEF KeepsBodies
<1>6. SUFFICES Step
  OBVIOUS
<1> HIDE DEF Step
<1> USE DEF In
<1>10. CASE FlushEffect
  <2>1. Head(pending) \in Effects
    BY <1>10 DEF FlushEffect, TypeOK
  <2>2. Pull(stack, Head(pending)) \in Frame
    BY <1>1, <2>1, PullType DEF Nodes
  <2>3. KeepsBodies(stack, stack')
    BY <1>1, <1>3, <1>5, <1>10, <2>2, PullFields DEF FlushEffect, Push
  <2> QED
    BY <1>2, <1>10, <2>3 DEF FlushEffect, graph
<1>11. CASE FlushTake
  <2>1. stack # <<>> /\ Top.op = "flush" /\ Top \in Frames
    BY <1>11, TopFrame DEF FlushTake
  <2>2. [Top EXCEPT !.cbs = postFlush].op = Top.op /\ [Top EXCEPT !.cbs = postFlush].obs = Top.obs
    BY <2>1 DEF Frames
  <2>3. KeepsBodies(stack, stack')
    BY <1>4, <1>11, <2>1, <2>2, FlushTakeIs
  <2> QED
    BY <1>2, <1>11, <2>3 DEF FlushTake, graph
<1>12. CASE FlushCallback
  <2>1. stack # <<>> /\ Top.op = "flush" /\ Top \in Frames
    BY <1>12, TopFrame DEF FlushCallback
  <2>2. Rest.op = Top.op /\ Rest.obs = Top.obs
    BY <2>1 DEF Rest, Frames
  <2>3. KeepsBodies(stack, Append(Pop, Rest))
    BY <1>4, <1>12, <2>1, <2>2, FlushCallbackIs
  <2>4. KeepsBodies(stack, stack')
    BY <1>5, <1>12, <2>3, FlushCallbackIs, TickFields
  <2> QED
    BY <1>2, <1>12, <2>4 DEF FlushCallback, graph
<1>13. CASE FlushDone
  BY <1>2, <1>4, <1>13 DEF FlushDone, graph
<1>14. CASE FlushJobs
  <2>1. Call(stack, "flush", None) \in Frame /\ Call(stack, "flush", None).op = "flush"
        /\ Call(stack, "flush", None).obs = ObserverIn(stack)
    BY <1>1, CallType, PlainCallType DEF Ops
  <2>2. KeepsBodies(stack, stack')
    BY <1>1, <1>3, <1>5, <1>14, <2>1 DEF FlushJobs, Push
  <2> QED
    BY <1>2, <1>14, <2>2 DEF FlushJobs, graph
<1>15. CASE MarkStale
  <2>1. stack # <<>> /\ Top.op = "notify" /\ Top \in Frames
    BY <1>15, TopFrame DEF MarkStale
  <2>2. PICK marks : [Top EXCEPT !.marks = marks] \in Frame
                     /\ stack' = Append(Pop, [Top EXCEPT !.marks = marks])
    BY <1>15, MarkStaleIs
  <2>3. [Top EXCEPT !.marks = marks].op = Top.op /\ [Top EXCEPT !.marks = marks].obs = Top.obs
    BY <2>1 DEF Frames
  <2>4. KeepsBodies(stack, stack')
    BY <1>4, <2>1, <2>2, <2>3
  <2> QED
    BY <1>2, <1>15, <2>4 DEF MarkStale
<1>16. CASE RunSyncEffect
  <2>1. Head(syncPending) \in Effects
    BY <1>16 DEF RunSyncEffect, TypeOK
  <2>2. Pull(stack, Head(syncPending)) \in Frame
    BY <1>1, <2>1, PullType DEF Nodes
  <2>3. KeepsBodies(stack, stack')
    BY <1>1, <1>3, <1>5, <1>16, <2>2, PullFields DEF RunSyncEffect, Push
  <2> QED
    BY <1>2, <1>16, <2>3 DEF RunSyncEffect, graph
<1>17. CASE NotifyDone
  <2>1. KeepsBodies(stack, stack')
    BY <1>4, <1>5, <1>17 DEF NotifyDone
  <2> QED
    BY <1>2, <1>17, <2>1 DEF NotifyDone, graph
<1>18. CASE PullSource
  <2>1. stack # <<>> /\ Top.op = "pull" /\ Top \in Frames
    BY <1>18, TopFrame DEF PullSource
  <2>2. PICK d \in Top.todo :
           LET f == [Top EXCEPT !.todo = Top.todo \ {d}]
           IN /\ f \in Frame /\ Append(Pop, f) \in Seq(Frame)
              /\ Pull(Append(Pop, f), d) \in Frame
              /\ stack' = Append(Append(Pop, f), Pull(Append(Pop, f), d))
    BY <1>18, PullSourceIs
  <2> DEFINE f == [Top EXCEPT !.todo = Top.todo \ {d}]
  <2>3. f.op = "pull" /\ f.obs = Top.obs
    BY <2>1 DEF Frames
  <2>4. KeepsBodies(stack, Append(Pop, f))
    BY <1>4, <2>1, <2>2, <2>3
  <2> DEFINE rest == Append(Pop, f)
  <2>5. rest \in Seq(Frame) /\ Pull(rest, d) \in Frame /\ stack' = Append(rest, Pull(rest, d))
    BY <2>2
  <2> HIDE DEF rest
  <2>6. KeepsBodies(stack, rest)
    BY <2>4 DEF rest
  <2>7. KeepsBodies(stack, stack')
    BY <1>5, <2>5, <2>6, PullFields
  <2> QED
    BY <1>2, <1>18, <2>7 DEF PullSource, graph
<1>19. CASE PullRun
  <2> DEFINE n == Top.node
             f == [Call(stack, "body", n) EXCEPT !.by = n, !.obs = n]
  <2>1. /\ n \in Observers /\ f \in Frame /\ stack' = Append(Pop, f)
        /\ f.op = "body" /\ f.node = n /\ f.obs = n
    BY <1>19, PullRunIs
  <2>2. stack # <<>> /\ Top.op = "pull" /\ ~Taken(n)
    BY <1>19 DEF PullRun
  <2> HIDE DEF f
  <2>3. /\ DOMAIN stack' = 1 .. Len(Pop) + 1 /\ stack'[Len(Pop) + 1] = f
        /\ DOMAIN Pop = 1 .. Len(Pop) /\ Len(Pop) \in Nat
        /\ \A i \in DOMAIN Pop : i \in DOMAIN stack' /\ stack'[i] = Pop[i]
    BY <1>4, <2>1, <2>2, PushIndex
  <2>4. \A m : Taken(m)' <=> Taken(m) \/ m = n
    <3>1. \A m : m \in BodiesIn(stack') <=> m \in BodiesIn(Pop) \/ m = n
      <4>1. \A i \in DOMAIN stack' : i \in DOMAIN Pop \/ i = Len(Pop) + 1
        BY <2>3
      <4> QED
        BY <2>1, <2>3, <4>1 DEF BodiesIn
    <3>2. BodiesIn(Pop) = BodiesIn(stack)
      BY <1>4, <2>2 DEF KeepsBodies
    <3> QED
      BY <3>1, <3>2, TakenIs
  <2>5. ObserversRun(stack')
    <3>1. \A i \in DOMAIN Pop : Pop[i].obs # None =>
            \E j \in DOMAIN Pop : j =< i /\ Pop[j].op = "body" /\ Pop[j].node = Pop[i].obs
      BY <1>4, <2>2 DEF ObserversRun
    <3>2. \A i \in DOMAIN stack' : i \in DOMAIN Pop \/ i = Len(Pop) + 1
      BY <2>3
    <3> QED
      BY <2>1, <2>3, <3>1, <3>2 DEF ObserversRun
  <2>6. Graph!Next
    BY <1>19, <2>1, <2>2, <2>4, StartEdges DEF PullRun
  <2> QED
    BY <2>5, <2>6 DEF Step
<1>20. CASE PullDone
  BY <1>2, <1>4, <1>20 DEF PullDone
(* The frame that is left is the only one of its closure. *)
<1>21. ASSUME In("body"), stack' = Pop, EndTracking(Top.node), confirmed' = confirmed
       PROVE  Step
  <2>1. stack # <<>> /\ Top.op = "body" /\ Top \in Frame
    BY <1>4, <1>21
  <2>2. Top.node \in Observers
    BY <2>1 DEF Frame, WellFormed
  <2>3. /\ DOMAIN stack = 1 .. Len(stack) /\ DOMAIN Pop = 1 .. Len(stack) - 1
        /\ Len(stack) \in DOMAIN stack /\ Len(stack) \in Nat \ {0}
        /\ \A i \in DOMAIN Pop : i \in DOMAIN stack /\ i < Len(stack) /\ Pop[i] = stack[i]
        /\ \A i \in DOMAIN stack : i \in DOMAIN Pop \/ i = Len(stack)
    BY <1>1, <2>1, PopIndex DEF Pop
  <2>4. \A i, j \in DOMAIN stack :
          stack[i].op = "body" /\ stack[j].op = "body" /\ stack[i].node = stack[j].node => i = j
    BY DEF WellNested, BodiesOnce
  <2>5. \A m : m \in BodiesIn(Pop) <=> m \in BodiesIn(stack) /\ m # Top.node
    BY <2>1, <2>3, <2>4 DEF BodiesIn, Top
  <2>6. Taken(Top.node)
    BY <2>1, <2>3 DEF Taken, Top
  <2>7. \A m : Taken(m)' <=> Taken(m) /\ m # Top.node
    BY <1>21, <2>5, TakenIs
  <2>8. Graph!Next
    BY <1>21, <2>2, <2>6, <2>7, EndEdges DEF EndTracking
  <2> QED
    BY <1>4, <1>21, <2>1, <2>8 DEF Step
<1>22. CASE FinishEffect
  BY <1>21, <1>22 DEF FinishEffect
<1>23. CASE FinishComputed
  BY <1>21, <1>23 DEF FinishComputed
<1>24. CASE EndGet
  <2>1. KeepsBodies(stack, stack')
    BY <1>4, <1>5, <1>24 DEF EndGet
  <2> QED
    BY <1>2, <1>24, <2>1 DEF EndGet
<1>25. CASE With
  <2>1. stack # <<>> /\ Top.op = "open"
    BY <1>25 DEF With
  <2>2. KeepsBodies(stack, stack')
    BY <1>4, <1>25, <2>1, WithIs
  <2> QED
    BY <1>2, <1>25, <2>2 DEF With
<1>26. CASE EndWith
  <2>1. KeepsBodies(stack, stack')
    BY <1>4, <1>5, <1>26 DEF EndWith
  <2> QED
    BY <1>2, <1>26, <2>1 DEF EndWith
<1>27. CASE ReadPanics
  BY <1>2, <1>3, <1>27 DEF ReadPanics, Panic, graph
<1>28. CASE EndBatch
  <2>1. KeepsBodies(stack, stack')
    BY <1>4, <1>5, <1>28 DEF EndBatch
  <2> QED
    BY <1>2, <1>28, <2>1 DEF EndBatch, graph
<1>29. CASE EndTick
  BY <1>2, <1>4, <1>29 DEF EndTick, graph
<1>30. ASSUME NEW c \in Code, NEW d \in Sources, NEW op \in {"get", "open"}, Read(c, d, op)
       PROVE  Step
  <2> DEFINE read == Call(stack, op, d)
             reading == Push(read)
  <2>1. read \in Frame /\ read.op = op /\ read.obs = ObserverIn(stack)
    BY <1>1, CallType, PlainCallType DEF Ops, Nodes
  <2>2. stack' = Append(reading, Pull(reading, d))
    BY <1>30 DEF Read
  <2>3. reading \in Seq(Frame) /\ KeepsBodies(stack, reading)
    <3>1. reading = Append(stack, read)
      BY DEF Push
    <3> HIDE DEF read, reading
    <3> QED
      BY <1>1, <1>3, <1>5, <2>1, <3>1
  <2> HIDE DEF reading
  <2>4. Pull(reading, d) \in Frame
    BY <2>3, PullType DEF Nodes
  <2>5. KeepsBodies(stack, stack')
    BY <1>5, <2>2, <2>3, <2>4, PullFields
  <2>6. CASE Observer = None
    BY <1>2, <1>30, <2>5, <2>6 DEF Read
  <2>7. CASE Observer # None
    <3>1. /\ deps' = [deps EXCEPT ![Observer] = @ \cup {d}]
          /\ confirmed' = [confirmed EXCEPT ![Observer] = @ \cup {d}]
      BY <1>30, <2>7 DEF Read
    <3>2. stack # <<>> /\ Observer = Top.obs
      BY <2>7 DEF Observer, ObserverIn, Top
    <3>3. Observer \in Observers
      BY <1>4, <2>7, <3>2 DEF Frame, Frames
    <3>4. Taken(Observer)
      <4>1. Len(stack) \in DOMAIN stack
        BY <1>1, <3>2
      <4> QED
        BY <2>7, <3>2, <4>1 DEF ObserversRun, Taken, Top
    <3>5. \A m : Taken(m)' <=> Taken(m)
      BY <2>5, TakenIs DEF KeepsBodies
    <3>6. Graph!Next
      BY <3>1, <3>3, <3>4, <3>5, ReadEdges
    <3> QED
      BY <2>5, <3>6 DEF Step, KeepsBodies
  <2> QED
    BY <2>6, <2>7
<1>31. ASSUME NEW c \in Code, Get(c) \/ Open(c)
       PROVE  Step
  BY <1>30, <1>31, ProgramAssumption DEF Get, Open
<1>32. ASSUME NEW c \in Code, Set(c) \/ Update(c)
       PROVE  Step
  <2>1. PICK s \in Signals : stack' = Notify(stack, s) \/ stack' = stack
    BY <1>32, ProgramAssumption DEF Set, Update
  <2> DEFINE f == [Call(stack, "notify", s) EXCEPT !.marks = Subs(s) \X {Dirty}]
  <2>2. /\ f \in Frame /\ Notify(stack, s) = Append(stack, f)
        /\ f.op = "notify" /\ f.node = s /\ f.by = CodeIn(stack) /\ f.obs = ObserverIn(stack)
        /\ f.marks = Subs(s) \X {Dirty} /\ f.cbs = <<>>
    BY <1>1, NotifyIs
  <2> HIDE DEF f
  <2>3. KeepsBodies(stack, stack')
    BY <1>1, <1>3, <1>5, <2>1, <2>2
  <2> QED
    BY <1>2, <1>32, <2>3 DEF Set, Update
<1>33. ASSUME NEW c \in Code, UpdatePanics(c)
       PROVE  Step
  BY <1>2, <1>3, <1>33 DEF UpdatePanics, Panic, graph
<1>34. ASSUME NEW c \in Code, Batch(c)
       PROVE  Step
  <2>1. Call(stack, "batch", None) \in Frame /\ Call(stack, "batch", None).op = "batch"
        /\ Call(stack, "batch", None).obs = ObserverIn(stack)
    BY <1>1, CallType, PlainCallType DEF Ops
  <2>2. KeepsBodies(stack, stack')
    BY <1>1, <1>3, <1>5, <1>34, <2>1 DEF Batch, Push
  <2> QED
    BY <1>2, <1>34, <2>2 DEF Batch, graph
<1>35. ASSUME NEW c \in Code, NextTick(c)
       PROVE  Step
  <2>1. \/ ScheduleOrFlush(stack)
        \/ stack' = stack
        \/ \E t \in Ticks : stack' = Append(stack, TickFrame(stack, t))
    BY <1>35 DEF NextTick, Push
  <2>2. \A t \in Ticks : TickFrame(stack, t) \in Frame
    BY <1>1, TickFrameType
  <2>3. KeepsBodies(stack, stack')
    BY <1>1, <1>3, <1>5, <2>1, <2>2, TickFields
  <2> QED
    BY <1>2, <1>35, <2>3 DEF NextTick, graph
<1>36. ASSUME NEW c \in Code, CreateEffect(c)
       PROVE  Step
  <2>1. PICK e \in Effects : stack' = Append(stack, Call(stack, "pull", e))
    BY <1>36 DEF CreateEffect, Push
  <2>2. Call(stack, "pull", e) \in Frame /\ Call(stack, "pull", e).op = "pull"
        /\ Call(stack, "pull", e).obs = ObserverIn(stack)
    BY <1>1, CallType, PlainCallType DEF Ops, Nodes
  <2>3. KeepsBodies(stack, stack')
    BY <1>1, <1>3, <1>5, <2>1, <2>2
  <2> QED
    BY <1>2, <1>36, <2>3 DEF CreateEffect
<1>37. CASE SetScheduler \/ ClearScheduler
  BY <1>2, <1>3, <1>37 DEF SetScheduler, ClearScheduler, graph
<1>38. CASE UNCHANGED vars
  BY <1>2, <1>3, <1>38 DEF vars, graph
<1> QED
  BY <1>10, <1>11, <1>12, <1>13, <1>14, <1>15, <1>16, <1>17, <1>18, <1>19, <1>20, <1>22,
     <1>23, <1>24, <1>25, <1>26, <1>27, <1>28, <1>29, <1>31, <1>32, <1>33, <1>34, <1>35,
     <1>36, <1>37, <1>38
  DEF Next, System, User, Step

(* The runtime changes the dependency edges only in the ways that          *)
(* DepGraph.tla allows, for every graph and every program: a run starts    *)
(* with what the last one has read, every read adds an edge of the closure *)
(* that reads, and the end of the run keeps what it has read.              *)
THEOREM RuntimeImplementsGraph == Spec => ImplementsGraph
<1>1. Init => ObserversRun(stack) /\ Graph!Init
  <2> SUFFICES ASSUME Init
               PROVE  ObserversRun(stack) /\ Graph!Init
    OBVIOUS
  <2>1. stack = <<>> /\ DOMAIN stack = {}
    BY DEF Init
  <2>2. ObserversRun(stack)
    BY <2>1 DEF ObserversRun
  <2>3. {n \in Observers : Taken(n)} = {}
    BY <2>1 DEF Taken
  <2>4. [n \in Nodes |-> IF n \in Observers THEN deps[n] ELSE {}] = [n \in Nodes |-> {}]
    BY DEF Init
  <2>5. [n \in Nodes |-> IF n \in Observers /\ Taken(n) THEN confirmed[n] ELSE {}]
          = [n \in Nodes |-> {}]
    BY DEF Init
  <2> QED
    BY <2>2, <2>3, <2>4, <2>5 DEF Graph!Init
<1>2. TypeOK /\ TypeOK' /\ WellNested /\ ObserversRun(stack) /\ [Next]_vars
        => ObserversRun(stack)' /\ [Graph!Next]_(Graph!edgeVars)
  BY GraphNext
<1> QED
  BY <1>1, <1>2, TypeCorrect, NestingCorrect, PTL DEF Spec, ImplementsGraph, Graph!Spec
=============================================================================
