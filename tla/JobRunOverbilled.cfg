SPECIFICATION Spec
CONSTANTS
  j1 = j1
  j2 = j2
  NoJob = NoJob
  Jobs = {j1, j2}
  Leads = {1}
  Strong = {1}
  Found <- MCFound
  Actionable <- MCAllActionable
  Metered = TRUE
  Limit = 1
  MaxRetries = 1
  TransientRetries = 0
  Windows = 1
  Silent = {j1}
INVARIANTS
  BilledWithinGrant
CHECK_DEADLOCK FALSE
