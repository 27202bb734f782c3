SPECIFICATION Spec
CONSTANTS
  j1 = j1
  j2 = j2
  NoJob = NoJob
  Jobs = {j1, j2}
  Leads = {1, 2}
  Strong = {1, 2}
  Found <- MCFound
  Actionable <- MCActionable
  Metered = TRUE
  Limit = 2
  MaxRetries = 1
  TransientRetries = 1
  Windows = 1
  Silent = {}
INVARIANTS
  TypeOK
  BilledIsDeliverable
  NoDoubleDelivery
  DeliveredHoldsClaim
  BilledWithinGrant
PROPERTIES
  KeepsContract
CHECK_DEADLOCK FALSE
