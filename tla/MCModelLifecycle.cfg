CONSTANTS
  x1 = x1
  x2 = x2
  c1 = c1
  c2 = c2
  drift = drift
  Executions = {x1, x2}
  Candidates = {c1, c2}
  Passing = {c1}
  Actions = {"cycle", "promote", "rollback"}
  Reasons = {drift}
  Serial = FALSE
  MaxStarts = 3
  None = None
SPECIFICATION Spec
SYMMETRY Symmetry
\* The bound on the executions is reached: the system stops.
CHECK_DEADLOCK FALSE
INVARIANTS
  TypeOK
  ChampionHasEvidence
  ViewsAgree
