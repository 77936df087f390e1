CONSTANTS
  f = f
  k1 = k1
  k2 = k2
  b1 = b1
  b2 = b2
  p1 = p1
  p2 = p2
  ca = ca
  crt = crt
  none = none
  Keys <- MCKeys
  NameOf <- MCName
  AddrOf <- MCAddr
  Foreign <- MCForeign
  Known <- MCKnown
  BundleKeys <- MCBundleKeys
  Bundles <- MCBundles
  OvpnKeys <- MCOvpnKeys
  PkiFiles <- MCPkiFiles
  Kinds <- MCKinds
  CfgEnd0 = ""
  Procs <- MCProcs
  Budget = 6
  ShortCost = 2
  ImportCost = 3
  MaxFaults = 2
  NoFile = none
SPECIFICATION Spec
SYMMETRY Symmetry
INVARIANTS
  TypeOK
  UnimportedStay
  InStep
  NeverTorn
  EndpointKept
  ImportComplete
  CcdMatches
CHECK_DEADLOCK FALSE
