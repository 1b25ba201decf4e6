CONSTANTS
  c1 = c1
  c2 = c2
  Subjects = {a, b}
  Columns = {c1, c2}
  Sensitive = {c2}
  Requests = {r1, r2}
  Capabilities <- MCCapabilities
  Filters <- MCFilters
SYMMETRY Symmetric
SPECIFICATION Spec
INVARIANTS TypeOK SensitiveMasked RowsAreReferenced
PROPERTIES RevocationsStay RolesOnlyWiden SyncWidensOnlyEmptied
