CONSTANTS
  nobody = nobody
  a1 = a1
  a2 = a2
  c1 = c1
  None = nobody
  Api <- TwoApi
  Cli <- NoCli
  Kinds <- ImportKinds
  MaxEdits = 1
  MaxFaults = 0
SPECIFICATION Spec
INVARIANTS
  OldTokenDies
CHECK_DEADLOCK FALSE
