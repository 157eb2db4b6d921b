SPECIFICATION ScriptSpec
CONSTANTS
  Letters = {}
  Typable <- MCTypable
  Beginnings <- MCBeginnings
  MaxTyped = 4
CHECK_DEADLOCK FALSE

INVARIANTS LimitIsSeen AdmittedIsARead CaretRunsItsStatement FormatKeepsTheStatement FormatIsStable
