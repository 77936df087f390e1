CONSTANTS
  nobody = nobody
  a1 = a1
  a2 = a2
  c1 = c1
  None = nobody
  Api <- TwoApi
  Cli <- OneCli
  Kinds <- KeptKinds
  MaxEdits = 2
  MaxFaults = 1
SPECIFICATION FairSpec
INVARIANTS
  TypeOK
  OldTokenStaysDead
  EditsKept
PROPERTIES
  AnsweredUnlessLeaked
CHECK_DEADLOCK FALSE
