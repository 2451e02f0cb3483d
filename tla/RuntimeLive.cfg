\* Liveness, with and without the scheduler.
SPECIFICATION FairSpec
CONSTANTS
  s1 = s1
  s2 = s2
  c1 = c1
  c2 = c2
  e1 = e1
  e2 = e2
  v0 = v0
  v1 = v1
  None = None
  Main = Main
  Tick = Tick
  Signals = {s1, s2}
  Computeds = {c1}
  Effects = {e1}
  SyncEffects = {}
  RawNodes = {}
  Values = {v0, v1}
  Ticks = {t1}
  CanRead <- Fork
  CanWith <- NoSource
  CanWrite <- OutsideWrites
  CanUpdate = {}
  CanBatch <- JustMain
  CanTick <- MainAndTick
  Habits = {"SetScheduler"}
  MaxFuel = 4
CHECK_DEADLOCK FALSE
PROPERTIES
  EffectsRun
  CallbacksRun
