CONSTANTS
  m = m
  n = n
  Names = {m, n}
  Capabilities <- MCCapabilities
  RowFilters <- NoRowFilters
  MaxScopes = 3
  MaxReferences = 2
  MaxReads = 3
  MaxRows = 2
  MaxTable = 5
SPECIFICATION Spec
INVARIANTS MasksFollowProvenance
SYMMETRY Columns
CHECK_DEADLOCK FALSE
