SPECIFICATION Spec
CONSTANTS
  Scheds <- OneScheds
  Plans <- OnePlans
  Endpoints <- OneEndpoints
  None = None
  OwnerOf <- OneOwnerOf
  EpOf <- OneEpOf
  EpType <- OneEpType
  Queue0 <- OneQueue0
  Ready0 <- OneReady0
  Gated = {}
  BaseWorkers <- OneWorker
  MaxWorkers <- OneWorker
  Scales = {100}
  StopReasons <- RouteStops
  Pauses <- AllPauses
  MayInterrupt = TRUE
  DrainExpires = TRUE
  SubmitFaults = {"clean", "orphan"}
  MaxFaults = 1
INVARIANTS
  NoStrandedEndpoint
  NoPlanLost
  AtMostOnce
  FifoPerEndpoint
  AtMostOneLateDispatch
PROPERTIES
  ResultsOnlyUpgraded
  ReturnAccountsForPlans
