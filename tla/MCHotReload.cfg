CONSTANTS
  r1 = r1
  r2 = r2
  s1 = s1
  s2 = s2
  Request <- MCRequest
  Secret <- MCSecret
  FirstSecret = s1
  NKeys = 1
  HasScorer = TRUE
  MaxConcurrent = 2
  KeyCbThreshold = 1
  KeyCbCooldown = 1
  CbMaxBackoff = 2
  HardBreak = 2
  MultiMinReqs = 1
  FailPct = 50
  CbThreshold = 2
  CbWindow = 1
  CbCooldown = 1
  MaxCooldown = 1
  DailyReset = 2
  RecentBound = 3
  Validate = TRUE
SPECIFICATION Spec
INVARIANTS
  NeverOvercounted
  BlockedOnlyIfBlamed
SYMMETRY Symmetric
PROPERTIES
  PenaltyServed
