SPECIFICATION FairSpec
CONSTANTS
  None = None
  Publishers = {p1}
  Topics = {t, u}
  Filters = {{t}}
  Replays = {1}
  RingSize = 2
  ChanSize = 1
  OutSize = 2
  MaxEvents = 3
  MaxRequests = 2
INVARIANTS TypeOK LiveAccounted NoGap
PROPERTY PumpsEnd
CHECK_DEADLOCK FALSE
