SPECIFICATION FairSpec
CONSTANTS
  Handles = {h1}
  Callers = {c1, c2}
  None = None
  PoolSize = 1
  MaxParallel = 0
  MaxRestarts = 0
  Offboarding = FALSE
INVARIANT DeliveredIsPaid
PROPERTIES
  GatherReturns
  GivenUpEndsFailed
