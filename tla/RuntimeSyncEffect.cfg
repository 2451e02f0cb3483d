\* A sync effect and another one read the same computed.
SPECIFICATION Spec
CONSTANTS
  s1 = s1
  s2 = s2
  c1 = c1
  c2 = c2
  e1 = e1
  e2 = e2
  v0 = v0
  v1 = v1
  None = None
  Main = Main
  Tick = Tick
  Signals = {s1}
  Computeds = {c1}
  Effects = {e1, e2}
  SyncEffects = {e2}
  RawNodes = {}
  Values = {v0, v1}
  Ticks = {}
  CanRead <- Shared
  CanWith <- NoSource
  CanWrite <- OutsideWrites
  CanUpdate = {}
  CanBatch <- NoCode
  CanTick <- NoCode
  Habits = {}
  MaxFuel = 4
CHECK_DEADLOCK FALSE
SYMMETRY ValueSymmetry
INVARIANT Settled
