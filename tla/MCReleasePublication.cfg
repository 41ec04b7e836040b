CONSTANTS
  Runs = {first, second}
  Commits = {reviewed, moved}
  NoRun = NoRun
  NoCommit = NoCommit
  MaxAttempt = 2
  MaxFaults = 2
  MaxHands = 1
SPECIFICATION PubSpec
CHECK_DEADLOCK FALSE
INVARIANTS
  ReleaseIsWhole
  OneRelease
PROPERTIES
  NothingOverwritten
  OneTimelyCall
  RecoveryCompletes
