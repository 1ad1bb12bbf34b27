SPECIFICATION Spec
CONSTANTS
  Editors = {e1, e2}
  Parts = {p}
  Values = {x, y}
  Absent = Absent
  Names = {n1, n2}
  MaxRevisions = 3
  MaxVersion = 4
SYMMETRY Symmetry
INVARIANTS
  TypeOK
PROPERTIES
  UnseenIsKept
  EditsAreWritten
CHECK_DEADLOCK FALSE
