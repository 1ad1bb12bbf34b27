SPECIFICATION PeopleSpec
CONSTANTS
  lead = lead
  deputy = deputy
  clerk = clerk
  Nobody = Nobody
  Agents = {lead, deputy, clerk}
  Manager <- MCManager
  Successor <- MCSuccessor
  Mandate <- MCMandate
  Separations <- MCRules
  Threshold = 1
  Window = 0
  Threads = {r1, r2}
  MaxSessions = 3
  MaxCovers = 2
  MaxDay = 1
  ann = ann
  bob = bob
  People = {ann, bob}
  FirstMembers <- MCMembers
  Outsider = Outsider
  Reach <- MCReach
  NoDocument = NoDocument
  TTL = 1
  MaxLocks = 3
  MaxClock = 1
SYMMETRY Symmetry
INVARIANTS
  PeopleTypeOK
  GrantsAreSafe
  CyclesAreRaces
  BackIsBack
  OwnersGoByDemotion
  HoldersAreRaces
CHECK_DEADLOCK FALSE
