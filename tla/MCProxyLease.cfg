CONSTANTS
  r1 = r1
  r2 = r2
  r3 = r3
  r4 = r4
  Request <- FourRequest
  NKeys = 1
  HasScorer = TRUE
  MaxConcurrent = 2
  KeyCbThreshold = 1
  KeyCbCooldown = 1
  CbMaxBackoff = 1
  HardBreak = 1
  MultiMinReqs = 1
  FailPct = 50
  CbThreshold = 0
  CbWindow = 1
  CbCooldown = 1
  MaxCooldown = 1
  DailyReset = 1
  MaxRetries429 = 0
  MaxRetriesNetwork = 0
  MaxRetries5xx = 0
  AcquireWait = 0
  MaxUsageLines = 2
  ClientsLeave = FALSE
SPECIFICATION Spec
CHECK_DEADLOCK FALSE
SYMMETRY Symmetric
INVARIANT
  PendingBounded
PROPERTY
  LeaseSpec
