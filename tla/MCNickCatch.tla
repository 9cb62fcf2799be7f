----------------------------- MODULE MCNickCatch -----------------------------
(* Instances of NickCatch small enough for TLC.                             *)
EXTENDS NickCatch

CONSTANTS b1, b2, p, q, x, u1, u2, s1, s2

MCCrew == <<b1, b2>>
MCHome == b1 :> u1 @@ b2 :> u2
MCPriority == <<p>>
MCDoubled == <<p, x>>
MCLetters == <<x>>
NoLetters == {<<s1, x>>}
AlsoTargets == {<<s1, x>>, <<s2, p>>}
MCNone == <<>>
MCLower == [n \in Nicks |-> n]
OneServer == [b \in Bots |-> s1]
TwoServers == b1 :> s1 @@ b2 :> s2
=============================================================================
