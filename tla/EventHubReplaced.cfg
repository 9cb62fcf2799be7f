SPECIFICATION Spec
CONSTANTS
  None = None
  Publishers = {p1}
  Topics = {t}
  Filters = {{t}}
  Replays = {0}
  RingSize = 2
  ChanSize = 1
  OutSize = 3
  MaxEvents = 2
  MaxRequests = 2
INVARIANT Replaced
CHECK_DEADLOCK FALSE
