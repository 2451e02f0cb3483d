\* A closure given to `with` reads another reactive value.
SPECIFICATION Spec
CONSTANTS
  s1 = s1
  s2 = s2
  c1 = c1
  c2 = c2
  e1 = e1
  e2 = e2
  v0 = v0
  v1 = v1
  None = None
  Main = Main
  Tick = Tick
  Signals = {s1}
  Computeds = {c1}
  Effects = {}
  SyncEffects = {}
  RawNodes = {}
  Values = {v0, v1}
  Ticks = {}
  CanRead <- Single
  CanWith <- MainWith
  CanWrite <- OutsideWrites
  CanUpdate = {}
  CanBatch <- NoCode
  CanTick <- NoCode
  Habits = {"ReadInRead"}
  MaxFuel = 4
CHECK_DEADLOCK FALSE
SYMMETRY ValueSymmetry
INVARIANT NoPanic
