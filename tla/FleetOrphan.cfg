SPECIFICATION FairSpec
CONSTANTS
    Conns = {c1, c2, c3}
    None = None
    MaxAttempts = 2
    Bounds <- Overlapping
INVARIANT OneAlways
INVARIANT NilAlways
CHECK_DEADLOCK FALSE
