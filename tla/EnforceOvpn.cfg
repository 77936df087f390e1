CONSTANTS
  l1 = l1
  nobody = nobody
  h1 = h1
  h2 = h2
  c1 = c1
  a1 = a1
  a2 = a2
  Users <- OneUser
  WgIPs <- OneWgIP
  OvpnIPs <- OneOvpnIP
  Quotas <- NoQuota
  Handlers <- OneHandler
  CliTicks <- NoCli
  Attachers <- OneAttacher
  Ops <- OvpnOps
  Streams <- OvpnOnly
  MaxBytes = 3
  MaxFaults = 1
  Loop = l1
  None = nobody
SPECIFICATION Spec
INVARIANTS
  NeverOverbilledOvpn
