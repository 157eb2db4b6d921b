SPECIFICATION Spec
CONSTANTS
  Cells <- MCCells
  Null = 0
  Readable <- MCReadable
  NaNs <- MCNaNs
  Parsed <- MCParsed
  Text <- MCText
  ColumnType <- MCColumnType
  Rows <- MCRows
  Wanted = 9
  BufferMax = 2
  MaxAnswer = 3
  MaxStarts = 2
CHECK_DEADLOCK FALSE
INVARIANTS CopyIsWhole CopiesOnlyWhatThereIs
PROPERTIES SearchFindsWhatIsThere SortKeepsTheRow
