SPECIFICATION Spec
CONSTANTS
  Streams = {s1, s2}
  Conns = {c1, c2}
  Callers = {k1}
  Closers = {}
  MaxQueryConns = 3
  MaxInFlight = 2
  MaxCancelled = 1
  MaxBroken = 0
  MaxLeft = 0
  Catalog = Catalog
  None = None
SYMMETRY MCSymmetry
INVARIANTS
  BusyHasHolder
PROPERTIES
  CancelFindsItsStatement
  KeepsTheContract
