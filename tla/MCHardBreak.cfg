CONSTANTS
  r1 = r1
  r2 = r2
  Request <- MCRequest
  NKeys = 2
  HasScorer = TRUE
  MaxConcurrent = 0
  KeyCbThreshold = 2
  KeyCbCooldown = 1
  CbMaxBackoff = 2
  HardBreak = 3
  MultiMinReqs = 3
  FailPct = 50
  CbThreshold = 2
  CbWindow = 2
  CbCooldown = 2
  MaxCooldown = 1
  DailyReset = 2
  RecentBound = 3
  ToValidate <- NoValidation
SPECIFICATION Spec
PROPERTY
  HardBreakKept
