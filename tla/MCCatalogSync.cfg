CONSTANTS
  Runner = {r1, r2}
  Gateway = {g1, g2}
  Backend = {a}
  Favorites = f
  Others = {x}
  Allowlist = {x}
  MaxAttempts = 2
  MaxTries = 2
SPECIFICATION FairSpec
PROPERTIES
  NoLostUpdate
  NeverWiped
  FiresOnce
  SyncEnds
