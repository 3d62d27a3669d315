CONSTANTS
  Key = {k1}
  Focus = k1
  Limits = {4}
  Buckets = 3
  Width = 2
  Header <- WindowHeader
  MaxCount = 3
  MaxPeriods = 1
SPECIFICATION Spec
INVARIANTS
  WindowSound
