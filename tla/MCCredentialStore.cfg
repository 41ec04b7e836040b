CONSTANTS
  Procs = {a, b}
  Profiles = {main}
  LegacyTokens = {1, 2}
  MaxGeneration = 2
SPECIFICATION Spec
SYMMETRY Symmetry
INVARIANTS
  RefusedNeverSelected
  HeldIsSelected
  RemovedLeavesNothing
PROPERTIES
  OnlyItsSaveSelects
  ImplementsRegister
