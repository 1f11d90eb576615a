CONSTANTS
  e1 = e1
  e2 = e2
  c1 = c1
  c2 = c2
  NoRow = NoRow
  Absent = Absent
  Hidden = Hidden
  Executions = {e1, e2}
  Candidates = {c1, c2}
  Lease = 1
  Hierarchical = TRUE
  SoundGenerations = {0, 1}
  MaxGeneration = 2
  MaxPromotions = 1
  MaxTries = 1
  MaxFaults = 2
  MaxClock = 0
SPECIFICATION Spec
SYMMETRY Symmetry
\* The executions return and the bounds are reached: the system stops.
CHECK_DEADLOCK FALSE
INVARIANTS
  TypeOK
  VisibleDraftComplete
  BlockedLeavesNoRows
PROPERTIES
  ImplementsAtomicDraft
