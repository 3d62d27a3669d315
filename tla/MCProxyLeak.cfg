CONSTANTS
  r1 = r1
  r2 = r2
  r3 = r3
  r4 = r4
  Request <- MCRequest
  NKeys = 2
  HasScorer = TRUE
  MaxConcurrent = 1
  KeyCbThreshold = 1
  KeyCbCooldown = 1
  CbMaxBackoff = 1
  HardBreak = 3
  MultiMinReqs = 1
  FailPct = 50
  CbThreshold = 0
  CbWindow = 1
  CbCooldown = 1
  MaxCooldown = 1
  DailyReset = 2
  MaxRetries429 = 2
  MaxRetriesNetwork = 1
  MaxRetries5xx = 1
  AcquireWait = 2
  MaxUsageLines = 1
  ClientsLeave = TRUE
SPECIFICATION Spec
CHECK_DEADLOCK FALSE
INVARIANT
  PendingInFlight
