CONSTANTS
  x1 = x1
  x2 = x2
  c1 = c1
  c2 = c2
  c3 = c3
  drift = drift
  Executions = {x1}
  Candidates = {c1, c2, c3}
  Passing = {c1, c2}
  Actions = {"cycle", "rollback"}
  Reasons = {drift}
  Serial = TRUE
  MaxStarts = 5
  None = None
SPECIFICATION Spec
SYMMETRY Symmetry
\* The bound on the executions is reached: the system stops.
CHECK_DEADLOCK FALSE
INVARIANTS
  ReportedIsChampion
