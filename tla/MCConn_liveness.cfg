SPECIFICATION FairSpec
CONSTANTS
  Streams = {s1}
  Conns = {c1, c2}
  Callers = {k1, k2}
  Closers = {}
  MaxQueryConns = 3
  MaxInFlight = 2
  MaxCancelled = 1
  MaxBroken = 0
  MaxLeft = 0
  Catalog = Catalog
  None = None
PROPERTIES
  CancelledStatementEnds
  CancelReturns
