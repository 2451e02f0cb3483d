SPECIFICATION Spec
CONSTANTS
  Node = {n1, n2}
  None = None
  GenSpace = 4
  MaxSlots = 2
INVARIANTS HandlesResolve FreeSlotsEmpty
