SPECIFICATION MCSpec
CONSTANTS
  u1 = u1
  u2 = u2
  c1 = c1
  c2 = c2
  a1 = a1
  a2 = a2
  p1 = p1
  p2 = p2
  Usage = {u1, u2}
  Container = {c1, c2}
  Address = {a1, a2}
  Port = {p1, p2}
  Inventories <- MCInventories
  ApplyGatewayFirewall = TRUE
  NoClient = NoClient
  NoTarget = NoTarget
  NoPort = NoPort
  NoDnat = NoDnat
  Enrolled = {c1, c2}
  Ipv6Routing = TRUE
  Nobody = Nobody
  NoPacket = NoPacket
  InternalPort = 1
  ExternalPort = {1, 2}
  Lifetime = {1, 2}
  InitialWait = 1
  WaitLimit = 2
  TheAddress = TheAddress
  Refusal = Refusal
  NoExternal = NoExternal
  NoAnswer = NoAnswer
INVARIANTS
  KernelOwned
  OnlyThroughTunnel
  DnsStaysLocal
  CountedWhole
PROPERTIES
  InstallsOwned
  LeaseSymmetric
  RequestEnds
