\* An effect batches, while a callback waits for it.
SPECIFICATION Spec
CONSTANTS
  s1 = s1
  s2 = s2
  c1 = c1
  c2 = c2
  e1 = e1
  e2 = e2
  v0 = v0
  v1 = v1
  None = None
  Main = Main
  Tick = Tick
  Signals = {s1, s2}
  Computeds = {}
  Effects = {e1}
  SyncEffects = {}
  RawNodes = {}
  Values = {v0, v1}
  Ticks = {t1}
  CanRead <- SignalsRead
  CanWith <- NoSource
  CanWrite <- OutsideWrites
  CanUpdate = {}
  CanBatch <- Everyone
  CanTick <- JustMain
  Habits = {}
  MaxFuel = 4
CHECK_DEADLOCK FALSE
SYMMETRY ValueSymmetry
INVARIANT CallbacksAfterEffects
