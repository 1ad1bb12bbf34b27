SPECIFICATION FairSpec
CONSTANTS
  Tasks = {t1}
  Forbidden = {}
  None = None
  MaxDeliver = 2
  MaxRestarts = 0
PROPERTIES
  PendingEnds
  StoredIsDecided
CHECK_DEADLOCK FALSE
