\* A cleanup of an effect stops the scope of the effect.
SPECIFICATION Spec
CONSTANTS
  Nodes = {n1, n2, n3}
  Callbacks = {k1, k2}
  None = None
  MaxCalls = 3
SYMMETRY NodesAndCallbacks
CHECK_DEADLOCK FALSE
INVARIANT RunsOnlyLiveEffects
