SPECIFICATION Spec
CONSTANTS
  None = None
  Publishers = {p1, p2}
  Topics = {t}
  Filters = {{t}}
  Replays = {2}
  RingSize = 2
  ChanSize = 1
  OutSize = 3
  MaxEvents = 2
  MaxRequests = 1
INVARIANT ReplayInOrder
CHECK_DEADLOCK FALSE
