CONSTANTS
  u1 = u1
  u2 = u2
  Bits = 6
  Octet = 8
  MinPrefix = 1
  Prefixes <- WideAndWider
  Classes <- MCClasses
  Users <- TwoUsers
  Installs <- AllInstalls
  MaxFaults = 1
SPECIFICATION Spec
SYMMETRY Symmetry
INVARIANTS
  TypeOK
  AddressesUsable
  MasksFollow
  Routed
  PoolsApart
  NoNewClash
  ServerStays
  FirewallFollows
