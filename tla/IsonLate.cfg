SPECIFICATION Spec
CONSTANTS
    Bots = {b1, b2}
    Nicks = {n1, n2}
    None = None
    MaxChanges = 3
    Budget <- Rough
    MaxTroubles = 2
INVARIANT AnswerOwn
