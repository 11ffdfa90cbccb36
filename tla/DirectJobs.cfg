SPECIFICATION FairSpec
CONSTANTS
  j1 = j1
  j2 = j2
  j3 = j3
  bmc = bmc
  ssh = ssh
  Free = Free
  NoJob = NoJob
  Jobs <- ThreeJobs
  Locks <- TwoLocks
  UriOf <- SharedUri
  Workers = {background, caller}
  MaxCrashes = 1
INVARIANTS DirectExclusive JobsAccountedFor EndWasHeard
PROPERTIES AcceptedEnds
CHECK_DEADLOCK FALSE
