CONSTANTS
  FirstDay <- FirstOfMonth
  MonthLength <- LengthOfMonth
  MonthOf <- MonthOfDay
  None = None
  Contracts <- Runs
  Tables <- Histories
  Absent = Absent
  Null = Absent
  Versions <- Publications
  Requests <- ReadRequests
  Monitors <- Configurations
  SignalRows <- ReadSignals
  GraphCases <- SomeGraphCases
  ReconcileCases <- ToReconcile
  DraftCases <- ToDraft
  SampleCases <- ToCalibrate
  TwinCases <- SomeTwins
SPECIFICATION Spec
\* A run ends.
CHECK_DEADLOCK FALSE
INVARIANTS
  LabelsKnown
  HistorySuffices
  HierarchiesAreForests
  ReconciledCoherent
  DraftAccounts
  CoversResiduals
  TwinRulesAgree
  PagesPartition
  AlertsReach
