SPECIFICATION FairSpec
CONSTANTS
  l1 = l1
  l2 = l2
  k = k
  w1 = w1
  w2 = w2
  Scrape = Scrape
  NoOne = NoOne
  Leads = {l1, l2}
  Key <- MCKey
  MaxActions = 1
  Workers = {w1, w2}
INVARIANTS
  TypeOK
  LedgerMatchesQueue
  NeverBoughtTwice
  SettledStatesBilling
PROPERTIES
  EndedStays
  ActionEnds
CHECK_DEADLOCK FALSE
