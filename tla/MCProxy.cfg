CONSTANTS
  r1 = r1
  r2 = r2
  r3 = r3
  r4 = r4
  Request <- MCRequest
  NKeys = 2
  HasScorer = TRUE
  MaxConcurrent = 2
  KeyCbThreshold = 1
  KeyCbCooldown = 1
  CbMaxBackoff = 1
  HardBreak = 1
  MultiMinReqs = 3
  FailPct = 50
  CbThreshold = 0
  CbWindow = 1
  CbCooldown = 1
  MaxCooldown = 1
  DailyReset = 1
  MaxRetries429 = 2
  MaxRetriesNetwork = 1
  MaxRetries5xx = 1
  AcquireWait = 1
  MaxUsageLines = 2
  ClientsLeave = TRUE
SPECIFICATION Spec
CHECK_DEADLOCK FALSE
SYMMETRY Symmetric
INVARIANTS
  PendingBounded
  OnlyAbandonedOvercount
PROPERTIES
  RetryPolicy
