CONSTANTS
  MaxKeys = 3
  MaxLate = 2
SPECIFICATION ASpec
INVARIANTS
  VerdictsHold
  PostedOnce
PROPERTIES
  ImplementsReported
  CommandsEnd
