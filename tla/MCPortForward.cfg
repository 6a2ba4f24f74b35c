SPECIFICATION MCFairSpec
CONSTANTS
  u1 = u1
  u2 = u2
  c1 = c1
  c2 = c2
  a1 = a1
  a2 = a2
  p1 = p1
  p2 = p2
  Usage = {u1, u2}
  Container = {c1, c2}
  Address = {a1, a2}
  Port = {p1}
  Inventories <- MCInventories
  ApplyGatewayFirewall = TRUE
  NoClient = NoClient
  NoTarget = NoTarget
  NoPort = NoPort
  NoDnat = NoDnat
  NoSlot = NoSlot
  NoStatus = NoStatus
  NoUsage = NoUsage
  EventuallyCalm = TRUE
INVARIANTS
  PublishedMatchesKernel
  DownMeansRemoved
PROPERTIES
  CoordinatorSpec
  CalmInstalls
