\* Lockstep; PROPERTY RejoinsTarget in its place fails as well.
SPECIFICATION Spec
CONSTANTS
  None = None
  Targets = {{}, {w}, {v}}
  Lists = {{}}
  MayFail = TRUE
  MayRefuse = FALSE
  MayBan = FALSE
  MayRemove = FALSE
  MaxSets = 1
  MaxLosses = 0
  MaxKicks = 1
  MaxRunners = 0
  MaxQueue = 1
INVARIANT Lockstep
CHECK_DEADLOCK FALSE
