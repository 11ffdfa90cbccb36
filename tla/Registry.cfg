SPECIFICATION FairSpec
CONSTANTS
  t1 = t1
  t2 = t2
  t3 = t3
  p1 = p1
  p2 = p2
  i1 = i1
  i2 = i2
  i3 = i3
  i4 = i4
  k1 = k1
  None = None
  Threads <- ThreeThreads
  Procs = {p1, p2}
  Endpoints = {k1}
  Inodes = {i1, i2, i3, i4}
  ProcOf <- TwoProcOf
  HolderOf <- SharedHolderOf
  Methods = {"try_hold", "wait_and_hold", "acquire"}
  FileLocking = TRUE
  MayTimeOut = TRUE
  MaxCalls = 1
  MaxCrashes = 1
INVARIANTS
  HeldOnce
  NoStaleFlock
PROPERTIES
  RegistryIsLeaseTable
  WaitersProceed
