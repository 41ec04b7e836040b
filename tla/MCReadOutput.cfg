CONSTANTS
  Limit = 4
  MaxChunk = 3
SPECIFICATION OSpec
INVARIANTS
  ReadIsExact
  ProtectedFirst
  ReportIsTrue
PROPERTY OutputEnds
CHECK_DEADLOCK FALSE
