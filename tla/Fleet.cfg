SPECIFICATION FairSpec
CONSTANTS
    Conns = {c1, c2, c3}
    None = None
    MaxAttempts = 2
    Bounds <- Ordinary
INVARIANT TypeOK
INVARIANT OneConnection
INVARIANT InStep
PROPERTY CorpseStops
PROPERTY WedgeNoticed
PROPERTY StartResolves
CHECK_DEADLOCK FALSE
