SPECIFICATION Spec
CONSTANTS
  Sessions = {s1, s2, s3}
  DataSources = {prod, staging}
  Slots = {t1, t2}
  Scripts <- MCScripts
  None = None
SYMMETRY MCSymmetry
CHECK_DEADLOCK FALSE
INVARIANTS
  OneSessionOpen
  MarkerCoversTransaction
  BatchIsDriven
  ScreenTellsTheTruth
PROPERTIES
  SwitchAsksFirst
