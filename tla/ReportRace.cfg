SPECIFICATION Spec
CONSTANTS
  Scheds <- OneScheds
  Plans <- OnePlans
  Endpoints <- OneEndpoints
  None = None
  OwnerOf <- OneOwnerOf
  EpOf <- OneEpOf
  EpType <- OneEpType
  Queue0 <- OneQueue0
  Ready0 <- OneReady0
  Gated = {}
  BaseWorkers <- OneWorker
  MaxWorkers <- OneWorker
  Scales = {100}
  StopReasons <- NoStops
  Pauses <- NoPauses
  MayInterrupt = FALSE
  DrainExpires = FALSE
  SubmitFaults = {}
  MaxFaults = 0
INVARIANTS
  ReportComplete
