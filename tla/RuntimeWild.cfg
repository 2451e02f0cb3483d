\* Every program: sync effects, closures that write, batch and call next_tick,
\* reads inside reads, schedulers installed and removed.
SPECIFICATION Spec
CONSTANTS
  s1 = s1
  s2 = s2
  c1 = c1
  c2 = c2
  e1 = e1
  e2 = e2
  v0 = v0
  v1 = v1
  None = None
  Main = Main
  Tick = Tick
  Signals = {s1}
  Computeds = {c1}
  Effects = {e1, e2}
  SyncEffects = {e2}
  RawNodes = {}
  Values = {v0, v1}
  Ticks = {t1}
  CanRead <- Single
  CanWith <- EveryoneWith
  CanWrite <- ObserversWrite
  CanUpdate = {s1}
  CanBatch <- Everyone
  CanTick <- Everyone
  Habits = {"ReadInRead", "WriteTaken", "BatchInRead", "SetScheduler", "ClearScheduler"}
  MaxFuel = 3
CHECK_DEADLOCK FALSE
SYMMETRY ValueSymmetry
INVARIANTS
  TypeOK
  WellNested
PROPERTIES
  ImplementsGraph
