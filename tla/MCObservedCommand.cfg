CONSTANTS
  MaxEvents = 4
  None = None
SPECIFICATION Spec
INVARIANTS
  LogReadable
  TerminalEventLast
  ExitStatusIsBacked
PROPERTIES
  ProgressFollowsLog
  CommandEnds
CHECK_DEADLOCK FALSE
