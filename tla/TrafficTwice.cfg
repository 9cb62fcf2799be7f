SPECIFICATION Spec
CONSTANTS
    None = None
    Callers = {boss, mate}
    Servers = {k1, k2}
    Clients = {c1, c2}
    Panels = {p1, p2}
    Callbacks = {r1, r2}
    Senders = {w}
    MaxConnections = 2
    OutSize = 2
    Budgets <- RaceBudgets
CHECK_DEADLOCK FALSE
INVARIANT NoneLost
