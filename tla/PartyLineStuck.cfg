SPECIFICATION FairSpec
CONSTANTS
  None = None
  b1 = b1 b2 = b2 t1 = t1 t2 = t2
  Bots = {b1}
  Tunnels = {t1}
  BotOf <- Single
  Quitters = {b1}
  Talkers = {t1}
PROPERTY QuitReturns
CHECK_DEADLOCK FALSE
