\* An effect reads two signals and a computed, in any order and repeatedly.
SPECIFICATION Spec
CONSTANTS
  a = a
  b = b
  c = c
  e = e
  None = None
  Nodes = {a, b, c, e}
  Initial <- Early
  CanRead <- Reads
  Returns = {e}
  DisposeWhileTracking = FALSE
  MaxLinks = 9
  MaxRuns = 3
  MaxReads = 3
INVARIANTS WellLinked OneLinkPerEdge
PROPERTIES UnchangedAllocatesNothing ImplementsGraph
CHECK_DEADLOCK FALSE
