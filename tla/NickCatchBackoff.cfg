\* BackoffHonoured; InflightLockHonoured in its place fails as well.
SPECIFICATION Spec
CONSTANTS
  b1 = b1 b2 = b2
  p = p q = q x = x u1 = u1 u2 = u2
  s1 = s1 s2 = s2
  Bots = {b1, b2}
  Crew <- MCCrew
  Polled = {b1, b2}
  Home <- MCHome
  Nicks = {p, u1, u2}
  Priority <- MCPriority
  Secondary <- MCNone
  OneChar = {}
  Lower <- MCLower
  ServerOf <- OneServer
  Refusing = {}
  InflightLock = 1
  Backoff = 2
  MaxPending = 1
  MaxQueue = 2
  MaxPolls = 3
  MayDrop = {}
  Penalised = {}
  MaxTakes = 0
PROPERTY BackoffHonoured
CHECK_DEADLOCK FALSE
