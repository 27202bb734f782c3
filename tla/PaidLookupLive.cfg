SPECIFICATION FairSpec
CONSTANTS
  r1 = r1
  r2 = r2
  r3 = r3
  k1 = k1
  k2 = k2
  t1 = t1
  t2 = t2
  Rows = {r1, r3}
  Key <- MCKey
  Again = {}
  Early = {r1}
  Fickle = {r3}
  Ticks = {t1}
  MaxClaims = 2
  Lossy = {1, 2}
  AccountCap = 0
  GlobalCap = 0
PROPERTIES
  ClaimsResolve
  BatchesSettle
CHECK_DEADLOCK FALSE
