SPECIFICATION FairSpec
CONSTANTS
  Scheds <- PairScheds
  Plans <- PairPlans
  Endpoints <- PairEndpoints
  None = None
  OwnerOf <- PairOwnerOf
  EpOf <- PairEpOf
  EpType <- PairEpType
  Queue0 <- PairQueue0
  Ready0 <- PairReady0
  Gated = {"t"}
  BaseWorkers <- OneWorker
  MaxWorkers <- OneWorker
  Scales = {100}
  StopReasons <- PairStops
  Pauses <- PairPauses
  MayInterrupt = FALSE
  DrainExpires = FALSE
  SubmitFaults = {}
  MaxFaults = 0
INVARIANTS
  JobsExclusive
PROPERTIES
  ImplementsLeases
  AllSettle
  StopEndsRun
