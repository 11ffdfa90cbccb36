SPECIFICATION Spec
CONSTANTS
  c1 = c1
  c2 = c2
  good = good
  other = other
  bad = bad
  None = None
  Corrupt = Corrupt
  Callers <- TwoCallers
  Books <- ThreeBooks
  Readable <- GoodBooks
  Legacies <- SomeLegacies
  MaxSeconds = 1
  MaxRequests = 2
  MaxFaults = 2
  MaxCrashes = 1
SYMMETRY CallerSymmetry
INVARIANTS LatestIsWhole NoOrphans RunsAreCommitted
CHECK_DEADLOCK FALSE
