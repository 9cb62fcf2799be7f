------------------------------- MODULE MCFleet -------------------------------
(* The troubles of one bot, for TLC. *)
EXTENDS Fleet, TLC

With(ts, any, rounds, overlap, retries) ==
    [b \in Bounded |-> CASE b = "any" -> any [] b = "rounds" -> rounds [] b = "overlap" -> overlap
                         [] b = "retries" -> retries [] OTHER -> IF b \in ts THEN 1 ELSE 0]
(* Any two troubles but a rejection; a rejection, which overlaps with the start,
   and any other, or two; Reconnect in the middle of the start, and a slow
   server; a second round of the start. *)
Ordinary == {With(Trouble \ {"reject"}, 2, 0, 0, 2), With(Trouble \ {"reconnect"}, 2, 0, 0, 1),
             [With({"reject"}, 2, 0, 0, 1) EXCEPT !["reject"] = 2],
             With({"reconnect", "slow"}, 2, 0, 1, 1),
             With({"slow", "drop", "refuse", "silence", "quit"}, 1, 1, 0, 2)}
Overlapping == {With({"reconnect", "reject", "refuse"}, 3, 0, 1, 2)}
Slow == {With({"slow", "ban"}, 2, 0, 0, 2)}
Rejected == {With({"reject", "refuse"}, 2, 0, 0, 1)}
Returning == {With(Trouble, 2, 0, 0, 2)}
=============================================================================
