CONSTANTS
  Lifetimes = {2, 5}
  Intervals = {1, 2}
  SlowDown = 2
  MaxTimer = 5
  Timeout = 2
  MaxLeft = 8
  MaxSet = 2
  Connections = {c1, c2, c3}
  MaxRequests = 4
CHECK_DEADLOCK FALSE
SPECIFICATION LoginSpec
INVARIANTS
  ExpiredInTime
  OnlyTheFirstMatch
  NothingLeftListening
  NeverCrashes
PROPERTIES
  NeverTooFast
  DeviceLoginEnds
  BrowserLoginEnds
