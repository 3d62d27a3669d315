CONSTANTS
  Key = {k1, k2}
  Focus = k1
  Limits = {0, 4}
  Buckets = 2
  Width = 1
  Header <- MCHeader
  MaxCount = 3
  MaxPeriods = 2
SPECIFICATION FairSpec
INVARIANTS
  WindowSound
  LimitsAgree
  DailyKept
PROPERTIES
  Recovers
