CONSTANTS
  Tiles <- MCTiles
  LevelOf <- MCLevelOf
  MaxLevel = 1
  ParentOf <- MCParentOf
  Neighbors <- MCNeighbors
  Configs = {"low", "high"}
  Elevation <- MCElevation
  MaxAttempts = 3
  None = None
SPECIFICATION Spec
INVARIANTS
  CompleteRowsResumable
  BuildsConverge
  InterruptedBuildResumes
PROPERTIES
  EveryBuildEnds
  CheckpointPreserved
CHECK_DEADLOCK FALSE
