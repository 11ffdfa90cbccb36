CONSTANTS
  NPlans = 2
  RetryCount <- Retries
SPECIFICATION Spec
INVARIANT LoginsBounded
PROPERTY KeepsContract
