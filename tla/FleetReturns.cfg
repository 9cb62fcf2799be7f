SPECIFICATION FairSpec
CONSTANTS
    Conns = {c1, c2, c3}
    None = None
    MaxAttempts = 2
    Bounds <- Returning
PROPERTY RemovedForGood
CHECK_DEADLOCK FALSE
