SPECIFICATION FairSpec
CONSTANTS
  MaxRows = 2
  Chunk = 2
  MaxResult = 4
INVARIANTS SummaryMeansWhole NothingOutlivesTheQuery
PROPERTY QueryEnds
