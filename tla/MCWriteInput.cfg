CONSTANTS
  Letters = {x, y}
  Size = 2
  Limit = 4
  MaxTyped = 5
SPECIFICATION WSpec
CHECK_DEADLOCK FALSE
INVARIANTS
  ValueIsWhatWasSent
  TerminalRestored
PROPERTY InputEnds
