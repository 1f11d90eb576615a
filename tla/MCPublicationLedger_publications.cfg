CONSTANTS
  Requests <- Arguments
  Sessions <- Mixed
  Serial <- OneAtATime
  MaxReruns = 1
  Forecast = Forecast
  Automatic = Automatic
  None = None
SPECIFICATION Spec
\* Every command returns and the bound on the reruns is reached.
CHECK_DEADLOCK FALSE
INVARIANTS
  TypeOK
  ApprovalBacksPublication
  LineageHolds
  CompletedIsAnnounced
PROPERTIES
  ImplementsVersionChain
  RetriesKeepCurrent
