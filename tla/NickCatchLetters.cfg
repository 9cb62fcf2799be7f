SPECIFICATION FairSpec
CONSTANTS
  b1 = b1 b2 = b2
  p = p q = q x = x u1 = u1 u2 = u2
  s1 = s1 s2 = s2
  Bots = {b1, b2}
  Crew <- MCCrew
  Polled = {b1, b2}
  Home <- MCHome
  Nicks = {x, u1, u2}
  Priority <- MCNone
  Secondary <- MCLetters
  OneChar = {x}
  Lower <- MCLower
  ServerOf <- TwoServers
  Refusing <- NoLetters
  InflightLock = 1
  Backoff = 2
  MaxPending = 1
  MaxQueue = 1
  MaxPolls = 0
  MayDrop = {}
  Penalised = {}
  MaxTakes = 0
PROPERTY FreeTargetCaught
