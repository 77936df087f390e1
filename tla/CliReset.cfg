CONSTANTS
  l1 = l1
  nobody = nobody
  h1 = h1
  h2 = h2
  c1 = c1
  a1 = a1
  a2 = a2
  Users <- OneUser
  WgIPs <- OneWgIP
  OvpnIPs <- OneOvpnIP
  Quotas <- NoQuota
  Handlers <- NoHandler
  CliTicks <- NoCli
  Attachers <- NoAttacher
  Ops <- CliResetOps
  Streams <- RxOnly
  MaxBytes = 2
  MaxFaults = 0
  Loop = l1
  None = nobody
SPECIFICATION Spec
INVARIANTS
  NeverOverbilled
