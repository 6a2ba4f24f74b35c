SPECIFICATION HostFairSpec
CONSTANTS
  s1 = s1
  s2 = s2
  b1 = b1
  g1 = g1
  v6 = v6
  NoIpv6 = NoIpv6
  NoHostPolicy = NoHostPolicy
  NoRoute = NoRoute
  Subnet = {s1}
  Bridge = {b1}
  GatewayIp = {g1}
  Ipv6Subnet = {v6}
  HostPolicies <- DualStack
  Earlier <- Ipv4Only
  EscalateAfter = 2
  EventuallyCalm = TRUE
INVARIANTS
  SettledInstalled
PROPERTIES
  AgentNeverOpens
  EventuallyInstalled
  KillSwitchReturns
  SilenceEscalates
