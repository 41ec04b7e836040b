SPECIFICATION OSpec
INVARIANTS
  AskedIsApplied
  RetryIsSafe
  LookupAgrees
PROPERTY ImplementsReported
CHECK_DEADLOCK FALSE
