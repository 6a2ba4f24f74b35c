SPECIFICATION Spec
CONSTANTS
  q1 = q1
  short = short
  c1 = c1
  c2 = c2
  w1 = w1
  w2 = w2
  u1 = u1
  u2 = u2
  Query = {q1, short}
  Single = {q1}
  LocalNames = {q1}
  Malformed = {short}
  Upstream = {u1, u2}
  Capacity = 1
  MinTtl = 1
  MaxTtl = 2
  Client = {c1, c2}
  Worker = {w1, w2}
  GlobalLimit = 2
  MinShare = 1
  ReserveDivisor = 4
  MaxTracked = 1
  FixedLimits = {NoLimit, 1}
  UdpAttempts = 2
  Responses <- MCResponses
  NoLimit = NoLimit
  NoClient = NoClient
  NoUpstream = NoUpstream
  NoAdmission = NoAdmission
  NoQuery = NoAnswer
  NoSlot = NoSlot
  Free = Free
  Untracked = Untracked
INVARIANTS
  CachedAnswerIsCurrent
  SlotsCharged
PROPERTIES
  PermitsSpec
  LadderDescends
SYMMETRY Symmetric
