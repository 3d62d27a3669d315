CONSTANTS
  f1 = f1
  f2 = f2
  s1 = s1
  Flusher <- MCFlusher
  Stream <- MCStream
  DrainTime = 2
  MaxRecords = 3
SPECIFICATION StatsSpec
PROPERTY
  NothingLostAtStop
