SPECIFICATION Spec
CONSTANTS
  Tasks = {t1}
  Forbidden = {}
  None = None
  MaxDeliver = 2
  MaxRestarts = 1
INVARIANTS
  RestartLosesNothing
CHECK_DEADLOCK FALSE
