---------------------------- MODULE NickRegister ----------------------------
(***************************************************************************)
(* What the bots promise about their own nicks, and no more: the server    *)
(* decides which nicks a bot has had, the bot follows.  As long as it is   *)
(* online it never goes back to an earlier nick and never misses a change  *)
(* for good.  Ison implements it.                                          *)
(***************************************************************************)
EXTENDS Naturals, Sequences

CONSTANTS
    Bots,
    MaxChanges    \* bound: how many nicks one bot has

VARIABLES
    history,   \* history[b]: the nicks that the server has given to b
    known,     \* known[b]: the position in it of the one that b believes in
    online     \* online[b]: b is connected and part of the fleet

register == <<history, known, online>>

Init == \A b \in Bots : Len(history[b]) = 1 /\ known[b] = 1 /\ ~online[b]

(* The server may name b anew; what was, remains. *)
Extended(b) ==
    LET n == Len(history[b])
    IN  Len(history'[b]) \in n .. n + 1 /\ SubSeq(history'[b], 1, n) = history[b]

Stays(b) == online[b] /\ online'[b] => known'[b] >= known[b]

Next == \A b \in Bots : Extended(b) /\ Stays(b) /\ known'[b] \in DOMAIN history'[b]

(* A bot that stays online learns of every change. *)
Hears == \A b \in Bots, n \in 1 .. MaxChanges :
             (online[b] /\ Len(history[b]) >= n) ~> (~online[b] \/ known[b] >= n)

Safety == Init /\ [][Next]_register

Spec == Safety /\ Hears
=============================================================================
