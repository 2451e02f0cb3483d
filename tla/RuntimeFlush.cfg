\* Main writes, batches, reads with closures and calls next_tick, installs an
\* async scheduler at any time or never; the callbacks do the same; closures only
\* read.
SPECIFICATION Spec
CONSTANTS
  s1 = s1
  s2 = s2
  c1 = c1
  c2 = c2
  e1 = e1
  e2 = e2
  v0 = v0
  v1 = v1
  None = None
  Main = Main
  Tick = Tick
  Signals = {s1, s2}
  Computeds = {c1}
  Effects = {e1, e2}
  SyncEffects = {}
  RawNodes = {}
  Values = {v0, v1}
  Ticks = {t1}
  CanRead <- Fork
  CanWith <- MainWith
  CanWrite <- OutsideWrites
  CanUpdate = {s2}
  CanBatch <- MainAndTick
  CanTick <- MainAndTick
  Habits = {"SetScheduler"}
  MaxFuel = 4
CHECK_DEADLOCK FALSE
SYMMETRY ValueSymmetry
INVARIANTS
  CleanIsFresh
  StaleEffectsQueued
  NotifiedAreQueued
  Settled
  CallbacksAfterEffects
  EffectsDeferred
  NoPanic
