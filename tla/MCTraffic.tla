----------------------------- MODULE MCTraffic -----------------------------
(* Mixtures of what happens, for TLC: the BNC alone, two panels, and both. *)
EXTENDS Traffic

Mixture(calls, clients, panels, requests, ins, outs, troubles) ==
    [t \in Things |-> CASE t = "call" -> calls [] t = "client" -> clients
                        [] t = "panel" -> panels [] t = "request" -> requests
                        [] t = "in" -> ins [] t = "out" -> outs [] t = "trouble" -> troubles]

MCBudgets == {Mixture(2, 2, 0, 0, 1, 0, 1), Mixture(2, 2, 0, 0, 0, 0, 2),
              Mixture(3, 1, 0, 0, 0, 0, 1), Mixture(0, 0, 2, 2, 1, 0, 0),
              Mixture(0, 0, 1, 1, 1, 1, 0), Mixture(1, 1, 1, 1, 2, 0, 1),
              Mixture(2, 1, 1, 1, 0, 0, 2)}
RaceBudgets == {Mixture(3, 0, 0, 0, 0, 0, 0)}
QuitBudgets == {Mixture(1, 2, 0, 0, 0, 0, 1)}
LateBudgets == {Mixture(0, 0, 1, 2, 1, 0, 0)}
=============================================================================
