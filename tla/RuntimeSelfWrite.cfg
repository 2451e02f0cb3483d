\* An effect that writes a source of a computed it has read.
SPECIFICATION Spec
CONSTANTS
  s1 = s1
  s2 = s2
  c1 = c1
  c2 = c2
  e1 = e1
  e2 = e2
  v0 = v0
  v1 = v1
  None = None
  Main = Main
  Tick = Tick
  Signals = {s1}
  Computeds = {c1}
  Effects = {e1}
  SyncEffects = {}
  RawNodes = {}
  Values = {v0, v1}
  Ticks = {}
  CanRead <- Single
  CanWith <- NoSource
  CanWrite <- ObserversWrite
  CanUpdate = {}
  CanBatch <- NoCode
  CanTick <- NoCode
  Habits = {}
  MaxFuel = 3
CHECK_DEADLOCK FALSE
SYMMETRY ValueSymmetry
INVARIANTS
  NotifiedAreQueued
