CONSTANTS
  MaxTasks = 2
  MaxLosses = 1
  Tasks <- AllTasks
SPECIFICATION Spec
CHECK_DEADLOCK FALSE
INVARIANT PassIsEarned
INVARIANT SubmitsBounded
INVARIANT OutputIsOwn
INVARIANT PassIsComplete
PROPERTY RefusalIsFinal
PROPERTY PlanEnds
