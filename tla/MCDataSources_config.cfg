SPECIFICATION Spec
CONSTANTS
  a = a
  b = b
  c = c
  typed = typed
  exported = exported
  Symmetric = {a, b}
  Names = {a, b, c}
  Servers = {x}
  Passwords = {typed, exported}
  MaxEntries = 2
  MaxSlack = 0
  Environment <- MCEnvironment
  None = None
SYMMETRY MCSymmetry
INVARIANTS
  MemoryMatchesFile
  LabelsMatchEntries
  RenameKeepsPassword
  ProbeForetells
