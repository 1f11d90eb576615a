CONSTANTS
  e1 = e1
  e2 = e2
  c1 = c1
  NoRow = NoRow
  Absent = Absent
  Hidden = Hidden
  Executions = {e1, e2}
  Candidates = {c1}
  Lease = 1
  Hierarchical = FALSE
  SoundGenerations = {0}
  MaxGeneration = 0
  MaxPromotions = 0
  MaxTries = 3
  MaxFaults = 2
  MaxClock = 1
SPECIFICATION FairSpec
\* The executions return and the bounds are reached: the system stops.
CHECK_DEADLOCK FALSE
PROPERTIES
  EventuallyVisible
