CONSTANTS
  Procs = {a, b}
  Profiles = {main}
  Main = main
  LegacyTokens = {}
  MaxGeneration = 2
  MaxTokens = 2
SPECIFICATION SSpec
SYMMETRY Symmetry
INVARIANTS
  NoSilentOrphan
  CompensatedNeverRead
  NewestTokenInUse
