SPECIFICATION Spec
CONSTANTS
    None = None
    Callers = {boss}
    Servers = {k1, k2}
    Clients = {c1, c2}
    Panels = {p1, p2}
    Callbacks = {r1, r2}
    Senders = {w}
    MaxConnections = 2
    OutSize = 2
    Budgets <- LateBudgets
CHECK_DEADLOCK FALSE
PROPERTY SilentDetached
