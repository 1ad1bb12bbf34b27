SPECIFICATION Spec
CONSTANTS
  Handles = {h1}
  Callers = {c1, c2}
  None = None
  PoolSize = 1
  MaxParallel = 0
  MaxRestarts = 1
  Offboarding = TRUE
INVARIANTS
  TypeOK
  NoEmptyDelivery
  ChargedOnce
  GivenUpStaysFailed
PROPERTIES
  FinishedOnlyFails
  KeepsContract
