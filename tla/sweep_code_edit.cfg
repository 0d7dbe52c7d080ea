SPECIFICATION Spec
CONSTANTS
  N = 1
  MaxInvocations = 1
  MaxEdits = 1
  Guarded = FALSE
  Orphans = FALSE
  Stalls = FALSE
INVARIANTS
  OkNamesItsCode
