\* A computed of a computed, sources without equality check, two effects, and one
\* write per flush.
SPECIFICATION Spec
CONSTANTS
  s1 = s1
  s2 = s2
  c1 = c1
  c2 = c2
  e1 = e1
  e2 = e2
  v0 = v0
  v1 = v1
  None = None
  Main = Main
  Tick = Tick
  Signals = {s1, s2}
  Computeds = {c1, c2}
  Effects = {e1, e2}
  SyncEffects = {}
  RawNodes = {s2, c1}
  Values = {v0, v1}
  Ticks = {}
  CanRead <- Chain
  CanWith <- NoSource
  CanWrite <- HandlersWrite
  CanUpdate = {}
  CanBatch <- NoCode
  CanTick <- NoCode
  Habits = {}
  MaxFuel = 3
CHECK_DEADLOCK FALSE
SYMMETRY ValueSymmetry
INVARIANTS
  CleanIsFresh
PROPERTIES
  NoWastedRun
