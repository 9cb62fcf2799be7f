SPECIFICATION Spec
CONSTANTS
  b1 = b1 b2 = b2
  p = p q = q x = x u1 = u1 u2 = u2
  s1 = s1 s2 = s2
  Bots = {b1, b2}
  Crew <- MCCrew
  Polled = {b1, b2}
  Home <- MCHome
  Nicks = {p, x, u1, u2}
  Priority <- MCDoubled
  Secondary <- MCLetters
  OneChar = {x}
  Lower <- MCLower
  ServerOf <- TwoServers
  Refusing <- AlsoTargets
  InflightLock = 1
  Backoff = 2
  MaxPending = 1
  MaxQueue = 2
  MaxPolls = 2
  MayDrop = {b1}
  Penalised = {p}
  MaxTakes = 1
INVARIANTS TypeOK NickChain
PROPERTY OneOfferPerStep
CHECK_DEADLOCK FALSE
