CONSTANTS
  MaxCancels = 2
  MaxInterrupts = 2
  None = None
SPECIFICATION Spec
INVARIANTS
  TerminalStatusIsTrue
  NoChildLeftBehind
PROPERTIES
  StatusNeverGoesBack
  CancelEnds
CHECK_DEADLOCK FALSE
