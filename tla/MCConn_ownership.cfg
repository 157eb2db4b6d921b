SPECIFICATION Spec
CONSTANTS
  Streams = {s1, s2}
  Conns = {c1, c2}
  Callers = {k1, k2}
  Closers = {k1, k2}
  MaxQueryConns = 3
  MaxInFlight = 2
  MaxCancelled = 0
  MaxBroken = 1
  MaxLeft = 1
  Catalog = Catalog
  None = None
SYMMETRY MCSymmetry
INVARIANTS
  OneUserPerConnection
  OnlyAFailedEndLeavesATransaction
  NoConnectionLeaks
