SPECIFICATION Spec
CONSTANTS
  Streams = {s1, s2}
  Conns = {c1, c2}
  Schemas = {home, other}
  Home = home
  Warnings = {w1}
  ReadOnly = TRUE
  None = None
SYMMETRY MCSymmetry

INVARIANTS RunsInItsSchema WritesAreRefused StaleWarningsAreNotRepeated
