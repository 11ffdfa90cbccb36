SPECIFICATION OutboxSpec
CONSTANTS
  Senders <- PlanSenders
  Callbacks <- PlanItems
  Feed <- PlanFeed
  Summaries = {}
  MayLackUrl = TRUE
  ChunkSize = 1
  MaxAttempts = 2
  MaxRetries = 5
  MaxDeaths = 1
INVARIANTS
  NoSilentDrop
  PostsBounded
CHECK_DEADLOCK FALSE
