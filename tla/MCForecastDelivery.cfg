CONSTANTS
  r1 = r1
  r2 = r2
  r3 = r3
  Commands = {"start", "fail", "retry", "again", "confirm", "abandon", r1, r2, r3}
  ActionOf <- Actions
  KeyOf <- OwnKeys
  Sessions <- Mixed
  Serial <- OneByOne
  SameSecond <- Interleaved
  MaxReruns <- Reruns
  Digests = {1, 2}
  None = None
SPECIFICATION Spec
SYMMETRY Symmetry
\* Every command returns and the bound on the reruns is reached.
CHECK_DEADLOCK FALSE
INVARIANTS
  TypeOK
  EveryEventFollows
  DeliveredWasAccepted
  OneEventPerKey
PROPERTIES
  ImplementsLifecycle
