SPECIFICATION FairSpec
CONSTANTS
  None = None
  b1 = b1 b2 = b2 t1 = t1 t2 = t2
  Bots = {b1, b2}
  Tunnels = {t1, t2}
  BotOf <- OneEach
  Quitters = {b1}
  Talkers = {t1, t2}
INVARIANTS TypeOK AliveListed
PROPERTY StopReturns
CHECK_DEADLOCK FALSE
