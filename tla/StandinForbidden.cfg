SPECIFICATION PeopleSpec
CONSTANTS
  lead = lead
  deputy = deputy
  clerk = clerk
  Nobody = Nobody
  Agents = {lead, deputy, clerk}
  Manager <- MCManager
  Successor <- SafeSuccessor
  Mandate <- SafeMandate
  Separations <- SafeRules
  Threshold = 1
  Window = 0
  Threads = {r1, r2}
  MaxSessions = 3
  MaxCovers = 2
  MaxDay = 1
  ann = ann
  bob = bob
  People = {ann, bob}
  FirstMembers <- MCMembers
  Outsider = Outsider
  Reach <- MCReach
  NoDocument = NoDocument
  TTL = 1
  MaxLocks = 3
  MaxClock = 1
SYMMETRY Symmetry
INVARIANT NothingForbiddenIsHeld
CHECK_DEADLOCK FALSE
