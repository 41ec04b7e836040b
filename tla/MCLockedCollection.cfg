CONSTANTS
  Procs = {a, b}
  Names = {m, n}
  Values = {v}
  None = None
  Absent = Absent
  Partial = Partial
  Free = Free
  Abandoned = Abandoned
  Retries = 1
SPECIFICATION FairSpec
PROPERTIES
  ImplementsAtomic
  ChangesEnd
