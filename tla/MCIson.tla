------------------------------- MODULE MCIson -------------------------------
(* Two bots and the troubles of their connections, for TLC. *)
EXTENDS Ison, TLC

Rough == [rename |-> 2, slow |-> 1, drop |-> 1, remove |-> 1]
=============================================================================
