CONSTANTS
  l1 = l1
  nobody = nobody
  h1 = h1
  h2 = h2
  c1 = c1
  a1 = a1
  a2 = a2
  Users <- OneUser
  WgIPs <- OneWgIP
  OvpnIPs <- OneOvpnIP
  Quotas <- SmallQuota
  Handlers <- OneHandler
  CliTicks <- NoCli
  Attachers <- NoAttacher
  Ops <- LiveOps
  Streams <- RxTx
  MaxBytes = 2
  MaxFaults = 1
  Loop = l1
  None = nobody
SPECIFICATION FairSpec
INVARIANTS
  TypeOK
  NeverOverbilled
  Metering
  NothingLost
  FreshExact
PROPERTIES
  RequestAnswered
  IsMeter
