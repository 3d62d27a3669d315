CONSTANTS
  r1 = r1
  r2 = r2
  r3 = r3
  m1 = m1
  m2 = m2
  Request <- ThreeRequest
  Member <- MCMember
  NKeys = 1
  MaxConcurrent = 2
  MaxBlock = 0
  MaxRetries <- NoRetry
  HasUpstream = {m1, m2}
  TooLarge = {}
  AcquireWait = 1
  MaxUsageLines = 2
SPECIFICATION Spec
SYMMETRY Symmetric
CHECK_DEADLOCK FALSE
INVARIANTS
  PendingBounded
PROPERTIES
  LeaseSpec
