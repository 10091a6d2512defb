CONSTANTS
  Tiles <- MCTiles
  LevelOf <- MCLevelOf
  MaxLevel = 1
  ParentOf <- MCParentOf
  Neighbors <- MCNeighbors
  Configs = {"low", "high"}
  Elevation <- MCElevation
  MaxAttempts = 2
  None = None
SPECIFICATION PowerLossSpec
INVARIANTS
  InterruptedBuildResumes
CHECK_DEADLOCK FALSE
