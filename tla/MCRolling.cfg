CONSTANTS
  Key = {k1, k2}
  Focus = k1
  Limits = {0, 4}
  Buckets = 1
  Width = 1
  Header <- MCHeader
  MaxCount = 3
  MaxPeriods = 2
SPECIFICATION Spec
INVARIANTS
  RollingKept
