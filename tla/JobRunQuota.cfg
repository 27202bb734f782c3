SPECIFICATION Spec
CONSTANTS
  j1 = j1
  j2 = j2
  NoJob = NoJob
  Jobs = {j1, j2}
  Leads = {1}
  Strong = {1}
  Found <- MCFound
  Actionable <- MCAllActionable
  Metered = TRUE
  Limit = 1
  MaxRetries = 1
  TransientRetries = 1
  Windows = 2
  Silent = {}
INVARIANTS
  Conservation
  WithinQuota
CHECK_DEADLOCK FALSE
