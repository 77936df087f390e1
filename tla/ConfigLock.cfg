CONSTANTS
  nobody = nobody
  a1 = a1
  a2 = a2
  c1 = c1
  None = nobody
  Api <- OneApi
  Cli <- OneCli
  Kinds <- PlainKinds
  MaxEdits = 2
  MaxFaults = 0
SPECIFICATION FairSpec
PROPERTIES
  Answered
CHECK_DEADLOCK FALSE
