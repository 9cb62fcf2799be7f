----------------------------- MODULE MCPartyLine -----------------------------
(* Instances of PartyLine small enough for TLC: two tunnels at most.         *)
EXTENDS PartyLine, TLC
CONSTANTS b1, b2, t1, t2
OneEach == t1 :> b1 @@ t2 :> b2
TwoOfOne == t1 :> b1 @@ t2 :> b1
Single == t1 :> b1
=============================================================================
