CONSTANTS
  MaxCancels = 2
  MaxInterrupts = 0
  None = None
SPECIFICATION Spec
PROPERTIES
  ForceEnds
CHECK_DEADLOCK FALSE
