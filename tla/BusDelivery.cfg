SPECIFICATION Spec
CONSTANTS
  Tasks = {t1, t2}
  Forbidden = {t2}
  None = None
  MaxDeliver = 2
  MaxRestarts = 1
INVARIANTS
  TypeOK
  RunsOnceWhileFresh
  NoReplyDropped
  NothingLostWhileUp
CHECK_DEADLOCK FALSE
