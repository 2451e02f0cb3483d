\* Three nodes, two callbacks, any program.
SPECIFICATION Spec
CONSTANTS
  Nodes = {n1, n2, n3}
  Callbacks = {k1, k2}
  None = None
  MaxCalls = 3
SYMMETRY NodesAndCallbacks
CHECK_DEADLOCK FALSE
INVARIANTS
  OwnedExactly
  NoOrphans
  ChildrenFirst
  CleanupsOnce
  AllCleanedUp
PROPERTIES
  ScopeCallbacks
