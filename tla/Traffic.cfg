SPECIFICATION FairSpec
CONSTANTS
    None = None
    Callers = {boss, mate}
    Servers = {k1, k2}
    Clients = {c1, c2}
    Panels = {p1, p2}
    Callbacks = {r1, r2}
    Senders = {w}
    MaxConnections = 2
    OutSize = 2
    Budgets <- MCBudgets
INVARIANT TypeOK
INVARIANT NoOrphan
INVARIANT OneClient
INVARIANT NoneMissed
PROPERTY StopFrees
PROPERTY Forgotten
CHECK_DEADLOCK FALSE
