CONSTANTS
  Sources = {1, 2, 3, 4, 5, 6, 7, 8}
  ProcessOf <- MCProcessOf
  PathOf <- MCPathOf
  Chunks = 1
  Inodes = {1, 2, 3, 4, 5, 6, 7, 8}
  MaxStops = 2
  Grain = 4
  Turn = 64
  Limit = 9
  MaxBulk = 156
  None = None
  Hard = Hard
  TransitionWidth = 2
  MaxPasses = 6
  Core = 2
  Scenes <- MCScenes
  Pending = Pending
SPECIFICATION Spec
INVARIANTS
  SamplesAreDecoded
  UndisturbedCacheLoads
  UnlockedNeverFills
  FusedSmoothly
  SeamsFuseAlike
PROPERTY
  PathsAgree
CHECK_DEADLOCK FALSE
