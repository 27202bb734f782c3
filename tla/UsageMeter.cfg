SPECIFICATION FairSpec
CONSTANTS
  b1 = b1
  b2 = b2
  Free = Free
  Change = Change
  Marked = Marked
  Batches = {b1, b2}
  Lookups <- MCLookups
  Quota = 1
  Horizon = 4
  Lossy = {b1}
INVARIANTS
  RowsTellTheMeter
  WindowsAddUp
PROPERTIES
  RowsAnswered
CHECK_DEADLOCK FALSE
