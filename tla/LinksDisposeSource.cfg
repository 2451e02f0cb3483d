\* A closure disposes a signal that it has read.
SPECIFICATION Spec
CONSTANTS
  a = a
  b = b
  c = c
  e = e
  None = None
  Nodes = {a, b, c, e}
  Initial <- Early
  CanRead <- SignalsReads
  Returns = {}
  DisposeWhileTracking = TRUE
  MaxLinks = 9
  MaxRuns = 3
  MaxReads = 3
INVARIANT NoDanglingLink
CHECK_DEADLOCK FALSE
