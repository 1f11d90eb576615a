CONSTANTS
  r1 = r1
  r2 = r2
  r3 = r3
  Commands = {r1, r2, r3}
  ActionOf <- Actions
  KeyOf <- OwnKeys
  Sessions <- Together
  Serial <- Together
  SameSecond <- Together
  MaxReruns <- NoReruns
  Digests = {1, 2}
  None = None
SPECIFICATION Spec
SYMMETRY Symmetry
\* Every command returns and the bound on the reruns is reached.
CHECK_DEADLOCK FALSE
INVARIANTS
  NotSentAgain
