SPECIFICATION WfSpec
CONSTANTS
  f = f
  g = g
  a = a
  b = b
  d = d
  j = j
  k = k
  x = x
  y = y
  END = END
  Nodes = {f, g, a, b, d, j, k}
  Keys = {x, y}
  Graphs <- MCGraphs
  MaxSteps = 12
INVARIANTS
  WfTypeOK
  ForksMerge
  
PROPERTIES
  RunEnds
CHECK_DEADLOCK FALSE
