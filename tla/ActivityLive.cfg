SPECIFICATION FairSpec
CONSTANTS
  None = None
  Targets = {{}, {w}}
  Lists = {{h}}
  MayFail = FALSE
  MayRefuse = TRUE
  MayBan = FALSE
  MayRemove = FALSE
  MaxSets = 1
  MaxLosses = 1
  MaxKicks = 0
  MaxRunners = 3
  MaxQueue = 1
PROPERTIES WatchdogKeeps CallsReturn
CHECK_DEADLOCK FALSE
