SPECIFICATION Spec
CONSTANTS
  h1 = h1
  h2 = h2
  h3 = h3
  route = route
  line = line
  None = None
  Workbooks <- AllWorkbooks
  Modes <- BothModes
  Routes <- OneRoute
  ErrorLine = line
  StopThreshold = 1
  MaxChanges = 1
  MaxControls = 2
  MaxFaults = 1
INVARIANTS BatchAccounted AtMostOneLateStart
PROPERTIES StopTakesEffect
CHECK_DEADLOCK FALSE
