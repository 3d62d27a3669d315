CONSTANTS
  a = a
  n = n
  x = x
  j1 = j1
  j2 = j2
  NProviders = 2
  Model <- MCModel
  NameOf <- MCNameOf
  NonChat <- MCNonChat
  Weak = {}
  Configs <- MCConfigs
  Refresh <- MCRefresh
  TTL = 2
SPECIFICATION Spec
PROPERTY
  WipeProtection
