CONSTANTS
  e1 = e1
  e2 = e2
  e3 = e3
  r1 = r1
  r2 = r2
  NoRow = NoRow
  Executions = {e1, e2, e3}
  Owners = {r1, r2}
  Lease = 2
  Overlap = FALSE
  MaxClock = 5
SPECIFICATION Spec
SYMMETRY Symmetry
INVARIANTS
  TypeOK
  LeaseExclusion
  GrantInRow
