SPECIFICATION ServerSpec
CONSTANTS
  p = p
  bmc = bmc
  a = a
  j1 = j1
  Free = Free
  None = None
  NoJob = NoJob
  Plans <- OnePlan
  Locks <- OneUri
  Sessions <- OneSession
  Sheets <- OneItem
  Jobs <- OneJob
  UriOf <- BmcUri
  Workers = {background}
  MaxRuns = 1
  MaxCrashes = 1
  MaxRaises = 1
INVARIANTS OneHolderPerUri
CHECK_DEADLOCK FALSE
