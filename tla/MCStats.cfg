CONSTANTS
  f1 = f1
  f2 = f2
  s1 = s1
  Flusher <- MCFlusher
  Stream <- MCStream
  DrainTime = 2
  MaxRecords = 3
SPECIFICATION FairStatsSpec
INVARIANTS
  NeverTorn
PROPERTIES
  ForwardOnly
  Saved
  StopEnds
