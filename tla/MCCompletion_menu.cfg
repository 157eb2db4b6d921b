SPECIFICATION Spec
CONSTANTS
  Letters <- MCLetters
  Lexemes <- MCLexemes
  Schemas <- MCSchemas
  TablesOf <- MCTablesOf
  ColumnsOf <- MCColumnsOf
  Keywords <- MCKeywords
  Spelled <- MCSpelled
  Recalled <- MCRecalled
  MaxCandidates = 4
  popupRows = 2
  MaxLexemes = 3
INVARIANTS CandidatesAreForTheWord RefsAreTheTables
