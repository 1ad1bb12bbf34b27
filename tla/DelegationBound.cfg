SPECIFICATION Spec
CONSTANTS
  Handles = {h1, h2}
  Callers = {c1}
  None = None
  PoolSize = 1
  MaxParallel = 1
  MaxRestarts = 1
  Offboarding = FALSE
SYMMETRY Symmetry
INVARIANTS
  BoundHolds
  LostHasNoWorker
  NothingLostIsOpen
