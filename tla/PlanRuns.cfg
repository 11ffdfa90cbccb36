SPECIFICATION Spec
CONSTANTS
  p = p
  q = q
  bmc = bmc
  ssh = ssh
  a = a
  b = b
  Free = Free
  None = None
  Plans <- TwoPlans
  Locks <- TwoLocks
  Sessions <- OneSession
  Sheets <- Workbooks
  MaxRuns = 2
  MaxCrashes = 1
  MaxRaises = 1
SYMMETRY Symmetric
INVARIANTS RunInv ResourceExclusive RunningHasThread ToldIsTrue CompletedIsTold
CHECK_DEADLOCK FALSE
