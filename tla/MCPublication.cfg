SPECIFICATION Spec
CONSTANTS
  old = old
  new = new
  other = other
  None = None
  Builds <- MCBuilds
  Ids <- MCIds
  IdOf <- MCIdOf
  PackCount = 2
  MaxAttempts = 2
INVARIANTS
  VisibleDatabaseComplete
PROPERTIES
  PublishedPacksImmutable
  TemporariesRemoved
  ImplementsAtomicDatabase
  EveryBuildEnds
CHECK_DEADLOCK FALSE
