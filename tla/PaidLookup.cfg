SPECIFICATION Spec
CONSTANTS
  r1 = r1
  r2 = r2
  r3 = r3
  k1 = k1
  k2 = k2
  t1 = t1
  t2 = t2
  Rows = {r1, r2, r3}
  Key <- MCKey
  Again = {}
  Early = {r1, r2, r3}
  Fickle = {}
  Ticks = {t1, t2}
  MaxClaims = 2
  Lossy = {}
  AccountCap = 2
  GlobalCap = 3
SYMMETRY MCSymmetry
INVARIANTS
  TypeOK
  LeadShowsRow
  RepurchasedOnlyUnanswered
  ChargedWithinCap
  BilledWasBought
  AnswersFromOwnBatch
PROPERTIES
  KeepsContract
CHECK_DEADLOCK FALSE
