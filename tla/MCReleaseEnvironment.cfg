CONSTANTS
  Accounts = {me, other}
  Nobody = Nobody
  MaxId = 4
  MaxMishaps = 3
SPECIFICATION ESpec
INVARIANT SuccessIsExact
PROPERTIES
  NeverRewrites
  GateCompleted
