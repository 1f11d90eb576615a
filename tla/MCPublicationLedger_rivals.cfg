CONSTANTS
  Requests <- Arguments
  Sessions <- Rivals
  Serial = {}
  MaxReruns = 0
  Forecast = Forecast
  Automatic = Automatic
  None = None
SPECIFICATION Spec
\* Every command returns and the bound on the reruns is reached.
CHECK_DEADLOCK FALSE
INVARIANTS
  OneCommandPerVersion
