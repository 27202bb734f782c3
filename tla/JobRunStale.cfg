SPECIFICATION FairSpec
CONSTANTS
  j1 = j1
  j2 = j2
  NoJob = NoJob
  Jobs = {j1}
  Leads = {1}
  Strong = {1}
  Found <- MCFound
  Actionable <- MCAllActionable
  Metered = TRUE
  Limit = 1
  MaxRetries = 2
  TransientRetries = 1
  Windows = 1
  Silent = {j1}
INVARIANTS
  Conservation
  BilledIffDone
PROPERTIES
  TerminalIsFinal
  LiveClaimsReleasedByOwner
  EveryJobEnds
  ReservationsReturn
  ClaimsReturn
CHECK_DEADLOCK FALSE
