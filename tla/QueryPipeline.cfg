CONSTANTS
  m = m
  n = n
  Names = {m, n}
  Capabilities <- MCCapabilities
  RowFilters <- MCRowFilters
  MaxScopes = 3
  MaxReferences = 3
  MaxReads = 3
  MaxRows = 2
  MaxTable = 5
SPECIFICATION Spec
INVARIANTS TypeOK OutputsAreMasked PlanFitsResult RowsAreAuthorized TruncationIsHonest
SYMMETRY Columns
CHECK_DEADLOCK FALSE
