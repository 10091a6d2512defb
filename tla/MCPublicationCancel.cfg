SPECIFICATION Spec
CONSTANTS
  old = old
  new = new
  other = other
  None = None
  Builds <- MCBuilds
  Ids <- MCIds
  IdOf <- MCIdOf
  PackCount = 2
  MaxAttempts = 2
INVARIANTS
  CancellationPreservesDatabase
CHECK_DEADLOCK FALSE
