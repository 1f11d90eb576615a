CONSTANTS
  Jobs <- JobNames
  StepOf <- Steps
  ConfigOf <- ConfigNames
  PinOf <- Pinned
  Untuned = {"t2"}
  TunedBy <- Searches
  RecordOf <- Records
  Families = {"xgboost", "random_forest", "timeseries", "prophet", "xgboost_direct"}
  Lossy = {"u1"}
  Mortal = {"t1", "p0"}
  MaxAttempts <- AttemptsOf
  LastSecond = 1
  None = None
  Drivers <- Sessions
SPECIFICATION Spec
\* Every driver and every job comes to an end.
CHECK_DEADLOCK FALSE
INVARIANTS
  TypeOK
  PredictionsOfDescribedModel
  FreshModel
  OptimizedParameters
  CanonicalRegistered
  SucceededIsComplete
  PlanCarriedOut
PROPERTIES
  DriverEnds
