CONSTANTS
  Level = 2
  Side = 4
  Cells = 3
  Levels <- MCLevels
  MaxDone = 2
SPECIFICATION MCSpec
INVARIANTS
  NeighborsReciprocal
  CornersMeet
  StreamingEqualsBatch
  SeamsMeet
  PatchesIndependent
CHECK_DEADLOCK FALSE
