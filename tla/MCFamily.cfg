CONSTANTS
  r1 = r1
  r2 = r2
  r3 = r3
  m1 = m1
  m2 = m2
  Request <- MCRequest
  Member <- MCMember
  NKeys = 1
  MaxConcurrent = 1
  MaxBlock = 1
  MaxRetries <- MCMaxRetries
  HasUpstream = {m1, m2}
  TooLarge <- MCTooLarge
  AcquireWait = 1
  MaxUsageLines = 2
SPECIFICATION FairSpec
CHECK_DEADLOCK FALSE
INVARIANTS
  PendingBounded
PROPERTIES
  LeaseSpec
  RetryPolicy
  EveryRequestEnds
