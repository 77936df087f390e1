CONSTANTS
  n1 = n1
  n2 = n2
  a1 = a1
  c1 = c1
  Names <- TwoNames
  Pool <- OneIP
  Api <- OneApi
  Cli <- OneCli
  MaxIds = 3
  MaxFaults = 1
  DirKnown = TRUE
SPECIFICATION Spec
SYMMETRY Symmetry
INVARIANTS
  TypeOK
  FileMatchesRow
  UniqueAddresses
  NoGhostLeft
PROPERTIES
  UsersKept
