SPECIFICATION RelSpec
CONSTANTS
  r1 = r1
  r2 = r2
  r3 = r3
  c1 = c1
  c2 = c2
  Releases = {r1, r2, r3}
  Calls = {c1, c2}
  CallOf <- MCCallOf
  Entitled = {r1, r2}
  Refused = {c2}
  Handlers = {h1, h2}
  Runs = {u1, u2}
  NoOne = NoOne
  MaxRestarts = 1
SYMMETRY Symmetry
INVARIANTS
  RelTypeOK
  UsedOnceWhileFresh
  DurableBeforeGrant
  CallsAreApproved
