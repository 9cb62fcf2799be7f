\* OneRunner; NotLeftHolding and RemovedRunnerStops in its place fail as well.
SPECIFICATION Spec
CONSTANTS
  None = None
  Targets = {{}}
  Lists = {{h}}
  MayFail = FALSE
  MayRefuse = FALSE
  MayBan = TRUE
  MayRemove = FALSE
  MaxSets = 1
  MaxLosses = 0
  MaxKicks = 0
  MaxRunners = 2
  MaxQueue = 1
INVARIANT OneRunner
CHECK_DEADLOCK FALSE
