CONSTANTS
  n1 = n1
  n2 = n2
  a1 = a1
  c1 = c1
  Names <- OneName
  Pool <- OneIP
  Api <- OneApi
  Cli <- Nobody
  MaxIds = 2
  MaxFaults = 0
  DirKnown = FALSE
SPECIFICATION Spec
INVARIANTS
  DeletedStaysOut
