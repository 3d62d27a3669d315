CONSTANTS
  r1 = r1
  r2 = r2
  s1 = s1
  s2 = s2
  Request <- MCRequest
  Secret <- MCSecret
  FirstSecret = s1
  NKeys = 1
  HasScorer = TRUE
  MaxConcurrent = 1
  KeyCbThreshold = 1
  KeyCbCooldown = 1
  CbMaxBackoff = 2
  HardBreak = 2
  MultiMinReqs = 1
  FailPct = 50
  CbThreshold = 2
  CbWindow = 1
  CbCooldown = 2
  MaxCooldown = 1
  DailyReset = 2
  RecentBound = 4
  Validate = TRUE
SPECIFICATION Spec
PROPERTY
  KeptKeysProtected
