CONSTANTS
  p1 = p1
  p2 = p2
  q1 = q1
  q2 = q2
  bad = bad
  k1 = k1
  k2 = k2
  k3 = k3
  env = env
  t1 = t1
  t2 = t2
  r1 = r1
  r2 = r2
  Request <- MCRequest
  Page <- MCPage
  Key <- MCKey
  Token <- MCToken
  Content <- MCContent
  Readable <- MCReadable
  BadKey <- MCBadKey
  EnvKeys <- MCEnvKeys
  TTL = 1
  Skew = 1
  MaxNonces = 1
  Horizon = 3
SPECIFICATION Spec
INVARIANTS
  ReplayProof
