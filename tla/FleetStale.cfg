SPECIFICATION FairSpec
CONSTANTS
    Conns = {c1, c2, c3}
    None = None
    MaxAttempts = 2
    Bounds <- Slow
INVARIANT InStepAlways
PROPERTY CorpseAlways
CHECK_DEADLOCK FALSE
