SPECIFICATION RecordsSpec
CONSTANTS
  o1 = o1
  o2 = o2
  Tenants = {t1}
  Deployments = {d1}
  Operators = {o1, o2}
  RolesOf <- MCRoles
  Nothing = Nothing
  MaxMoves = 4
  Tasks = {k1}
  Paired = {k1}
  Starters = {s1, s2}
  Persons = {p1}
  NoRun = NoRun
  NoDoc = NoDoc
  MaxRuns = 2
  MaxPath = 4
SYMMETRY Symmetry
INVARIANTS
  RecordsTypeOK
  HistoryIsLegal
  TaskHistoryIsLegal
  DoneMeansWorked
PROPERTIES
  ClosedStaysClosed
CHECK_DEADLOCK FALSE
