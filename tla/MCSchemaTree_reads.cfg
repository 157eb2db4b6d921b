SPECIFICATION FairSpec
CONSTANTS
  DataSources = {d, e}
  Former = former
  MaxLoads = 3
  MaxParts = 1
  None = None
INVARIANTS
  TreeTellsTheTruth
  BranchFilledOnce
  CacheIsWhole
PROPERTIES
  CompletionAgrees
  LoadingEnds
