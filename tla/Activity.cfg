SPECIFICATION Spec
CONSTANTS
  None = None
  Targets = {{}, {w}}
  Lists = {{h}}
  MayFail = TRUE
  MayRefuse = TRUE
  MayBan = TRUE
  MayRemove = TRUE
  MaxSets = 1
  MaxLosses = 1
  MaxKicks = 1
  MaxRunners = 1
  MaxQueue = 1
INVARIANTS TypeOK ViewInStep
PROPERTY WatchdogQuiet
CHECK_DEADLOCK FALSE
