SPECIFICATION FairSpec
CONSTANTS
    Conns = {c1, c2, c3}
    None = None
    MaxAttempts = 3
    Bounds <- Rejected
PROPERTY GaveUpRemoved
CHECK_DEADLOCK FALSE
