-------------------------------- MODULE Ison --------------------------------
(***************************************************************************)
(* The polling of the fleet: the monitor of NickManager                    *)
(* (internal/nickmanager/nickmanager.go), which asks one bot per second    *)
(* for ISON, the table of waiting requests of a bot                        *)
(* (internal/bot/bot.go), and what a 303 reply does besides answering: it  *)
(* is addressed to the nick that the server knows the bot by, and so heals *)
(* a nick change that the bot missed.                                      *)
(*                                                                         *)
(* NewBotManager registers every bot before the monitor starts, so that    *)
(* Init is the state that RegisterBot and SetBots leave behind.            *)
(***************************************************************************)
EXTENDS Naturals, Sequences, FiniteSets, SequencesExt

CONSTANTS
    Bots,
    Nicks,
    None,
    MaxChanges,   \* bound: the nicks one bot has had
    Budget,       \* bound: how often each kind of trouble happens
    MaxTroubles   \* bound: how often any does

Trouble == {"rename", "slow", "drop", "remove"}

ASSUME BotsAssumption == IsFiniteSet(Bots) /\ Bots # {} /\ Nicks # {}
ASSUME BoundAssumption == MaxChanges \in Nat \ {0} /\ Budget \in [Trouble -> Nat]
                          /\ MaxTroubles \in Nat

VARIABLES
    hist,        \* hist[b]: the nicks the server has given to b, the last one holds
    cur,         \* cur[b]: b.CurrentNick, as a position of hist[b]
    lib,         \* lib[b]: the same for the library's own idea of the nick
    isConnected, \* b.isConnected
    link,        \* link[b]: the server has b registered
    asks,        \* asks[b]: ISON commands that the server has yet to answer; TRUE is
                 \* the one that b waits for
    wire,        \* wire[b]: lines b has yet to read
    req,         \* req[b]: isonInFlight and the channel of the request
    bots,        \* nm.bots
    polled,      \* nm.connectedBots
    botIndex,
    update,      \* what updateConnectedBots is about to assign
    leaving,     \* leaving[b]: how far UnregisterBot is
    left         \* what remains of Budget, and (as left.any) of MaxTroubles

nickVars == <<hist, cur, lib>>
connVars == <<isConnected, link>>
askVars == <<asks, wire, req>>
pollVars == <<bots, polled, botIndex, update, leaving>>
vars == <<nickVars, connVars, askVars, pollVars, left>>

Line == [kind : {"001", "NICK", "303", "gone"}, at : 1 .. MaxChanges, own : BOOLEAN]

TypeOK ==
    /\ hist \in [Bots -> BoundedSeq(Nicks, MaxChanges)]
    /\ \A b \in Bots : cur[b] \in DOMAIN hist[b] /\ lib[b] \in DOMAIN hist[b]
    /\ isConnected \in [Bots -> BOOLEAN] /\ link \in [Bots -> BOOLEAN]
    /\ asks \in [Bots -> Seq(BOOLEAN)] /\ wire \in [Bots -> Seq(Line)]
    /\ req \in [Bots -> {"none", "waiting", "own", "late"}]
    /\ bots \in Seq(Bots) /\ polled \in Seq(Bots) /\ botIndex \in 0 .. Cardinality(Bots) - 1
    /\ update = None \/ update \in Seq(Bots)
    /\ leaving \in [Bots -> {"no", "polled", "done"}] /\ left \in [Trouble \cup {"any"} -> Nat]

Init ==
    /\ hist = [b \in Bots |-> <<CHOOSE n \in Nicks : TRUE>>]   \* which one is all the same
    /\ cur = [b \in Bots |-> 1] /\ lib = cur
    /\ isConnected = [b \in Bots |-> FALSE] /\ link = isConnected
    /\ asks = [b \in Bots |-> <<>>] /\ wire = asks
    /\ req = [b \in Bots |-> "none"]
    /\ bots = SetToSeq(Bots) /\ polled = <<>> /\ botIndex = 0 /\ update = None
    /\ leaving = [b \in Bots |-> "no"]
    /\ left = [t \in Trouble \cup {"any"} |-> IF t = "any" THEN MaxTroubles ELSE Budget[t]]

Spend(t) == /\ left[t] > 0 /\ left["any"] > 0
            /\ left' = [left EXCEPT ![t] = @ - 1, !["any"] = @ - 1]

IsConnected(b) == isConnected[b] /\ link[b]
Waiting(b) == req[b] = "waiting"

-----------------------------------------------------------------------------
(* The server and the network. *)

Sends(b, kind, at, own) == wire' = [wire EXCEPT ![b] = Append(@, [kind |-> kind, at |-> at, own |-> own])]

(* The server makes b's nick n; the bot need not be sent a line about it. *)
Renamed(b, n) ==
    /\ n # Last(hist[b]) /\ Len(hist[b]) < MaxChanges /\ Spend("rename")
    /\ hist' = [hist EXCEPT ![b] = Append(@, n)]

Rename(b) ==
    /\ link[b]
    /\ \E n \in Nicks : Renamed(b, n)
    /\ Sends(b, "NICK", Len(hist'[b]), FALSE) \/ UNCHANGED wire
    /\ UNCHANGED <<cur, lib, connVars, asks, req, pollVars>>

(* The library connects anew once the callbacks of the old connection have run;
   a bot that was removed has its quit flag set. *)
Registers(b) ==
    /\ ~link[b] /\ wire[b] = <<>> /\ leaving[b] = "no"
    /\ (\E n \in Nicks : Renamed(b, n)) \/ UNCHANGED <<hist, left>>
    /\ link' = [link EXCEPT ![b] = TRUE]
    /\ Sends(b, "001", Len(hist'[b]), FALSE)
    /\ UNCHANGED <<cur, lib, isConnected, asks, req, pollVars>>

Drop(b) ==
    /\ link[b]
    /\ IF leaving[b] = "no" THEN Spend("drop") ELSE UNCHANGED left
    /\ link' = [link EXCEPT ![b] = FALSE]
    /\ asks' = [asks EXCEPT ![b] = <<>>]
    /\ Sends(b, "gone", Len(hist[b]), FALSE)
    /\ UNCHANGED <<nickVars, isConnected, req, pollVars>>

Answer(b) ==
    /\ asks[b] # <<>>
    /\ asks' = [asks EXCEPT ![b] = Tail(@)]
    /\ Sends(b, "303", Len(hist[b]), Head(asks[b]))
    /\ UNCHANGED <<nickVars, connVars, req, pollVars, left>>

-----------------------------------------------------------------------------
(* The callbacks of a bot. *)

Receive(b, kind) ==
    /\ wire[b] # <<>> /\ Head(wire[b]).kind = kind
    /\ wire' = [wire EXCEPT ![b] = Tail(@)]

(* The nick is read off the event. *)
Recv001(b) ==
    /\ Receive(b, "001")
    /\ isConnected' = [isConnected EXCEPT ![b] = TRUE]
    /\ cur' = [cur EXCEPT ![b] = Head(wire[b]).at]
    /\ lib' = [lib EXCEPT ![b] = Head(wire[b]).at]
    /\ UNCHANGED <<hist, link, asks, req, pollVars, left>>

(* tryAcceptSelfNickChange; the library compares in the same way. *)
Follow(b, who) ==
    LET at == Head(wire[b]).at
    IN  IF hist[b][who[b]] = hist[b][at - 1] THEN [who EXCEPT ![b] = at] ELSE who

RecvNick(b) ==
    /\ Receive(b, "NICK")
    /\ cur' = Follow(b, cur) /\ lib' = Follow(b, lib)
    /\ UNCHANGED <<hist, connVars, asks, req, pollVars, left>>

(* Mutant: no second opinion. *)
RecvIsonTrusting(b) ==
    /\ Receive(b, "303")
    /\ req' = [req EXCEPT ![b] = IF ~Waiting(b) THEN @ ELSE IF Head(wire[b]).own THEN "own" ELSE "late"]
    /\ UNCHANGED <<nickVars, connVars, asks, pollVars, left>>

(* The server addresses the reply to the nick that it knows the bot by. *)
Reconciled(b) == [cur EXCEPT ![b] = Head(wire[b]).at]

(* reconcileSelfNickFromISON; then the reply goes to whatever request is waiting. *)
RecvIson(b) ==
    /\ Receive(b, "303")
    /\ cur' = Reconciled(b)
    /\ req' = [req EXCEPT ![b] = IF ~Waiting(b) THEN @ ELSE IF Head(wire[b]).own THEN "own" ELSE "late"]
    /\ UNCHANGED <<hist, lib, connVars, asks, pollVars, left>>

(* markAsDisconnected takes the library's nick. *)
RecvGone(b) ==
    /\ Receive(b, "gone")
    /\ isConnected' = [isConnected EXCEPT ![b] = FALSE]
    /\ cur' = [cur EXCEPT ![b] = lib[b]]
    /\ UNCHANGED <<hist, lib, link, asks, req, pollVars, left>>

-----------------------------------------------------------------------------
(* RequestISON *)

Send(b) ==
    /\ req' = [req EXCEPT ![b] = "waiting"]
    /\ asks' = [asks EXCEPT ![b] = Append(@, TRUE)]

(* The request is over: what the server still owes for it comes too late. *)
Forget(b) ==
    /\ req' = [req EXCEPT ![b] = "none"]
    /\ asks' = [asks EXCEPT ![b] = [i \in DOMAIN @ |-> FALSE]]
    /\ wire' = [wire EXCEPT ![b] = [i \in DOMAIN @ |-> [@[i] EXCEPT !.own = FALSE]]]

Owed(b) == Contains(asks[b], TRUE) \/ \E i \in DOMAIN wire[b] : wire[b][i].own

Return(b) ==
    /\ req[b] \in {"own", "late"} /\ Forget(b)
    /\ UNCHANGED <<nickVars, connVars, pollVars, left>>

(* Mutant: a request that times out leaves the in-flight flag set. *)
TimeoutLeaky(b) ==
    /\ Waiting(b) /\ IF Owed(b) THEN Spend("slow") ELSE UNCHANGED left
    /\ asks' = [asks EXCEPT ![b] = [i \in DOMAIN @ |-> FALSE]]
    /\ wire' = [wire EXCEPT ![b] = [i \in DOMAIN @ |-> [@[i] EXCEPT !.own = FALSE]]]
    /\ UNCHANGED <<req, nickVars, connVars, pollVars>>

(* After five seconds, for want of an answer. *)
Timeout(b) ==
    /\ Waiting(b) /\ Forget(b)
    /\ IF Owed(b) THEN Spend("slow") ELSE UNCHANGED left
    /\ UNCHANGED <<nickVars, connVars, pollVars>>

-----------------------------------------------------------------------------
(* The loops that copy the bots of s that are to be kept, in their order. *)
Passed(s, kept) ==
    LET list[i \in 0 .. Len(s)] == IF i = 0 THEN <<>>
                                  ELSE IF s[i] \in kept THEN Append(list[i - 1], s[i]) ELSE list[i - 1]
    IN  list

Kept(s, kept) == Passed(s, kept)[Len(s)]

(* Mutant: the index is not brought back. *)
TickUnbounded ==
    /\ update = None /\ polled # <<>>
    /\ LET b == polled[(botIndex % Len(polled)) + 1]
       IN  IF IsConnected(b) /\ req[b] = "none" THEN Send(b) ELSE UNCHANGED <<asks, req>>
    /\ botIndex' = botIndex + 1
    /\ UNCHANGED <<nickVars, connVars, wire, bots, polled, update, leaving, left>>

(* monitorNicks: one goroutine, so that nothing is asked during an update. *)

Tick ==
    /\ update = None /\ polled # <<>>
    /\ LET b == polled[(botIndex % Len(polled)) + 1]
       IN  IF IsConnected(b) /\ req[b] = "none" THEN Send(b) ELSE UNCHANGED <<asks, req>>
    /\ botIndex' = (botIndex + 1) % Len(polled)
    /\ UNCHANGED <<nickVars, connVars, wire, bots, polled, update, leaving, left>>

UpdateLook ==
    /\ update = None
    /\ update' = Kept(bots, {b \in Bots : IsConnected(b)})
    /\ UNCHANGED <<nickVars, connVars, askVars, bots, polled, botIndex, leaving, left>>

UpdateAssign ==
    /\ update # None
    /\ polled' = update /\ update' = None
    /\ UNCHANGED <<nickVars, connVars, askVars, bots, botIndex, leaving, left>>

(* Mutant: the bot is taken from the polled bots only. *)
UnregisterPolled(b) ==
    /\ leaving[b] = "no" /\ Spend("remove")
    /\ leaving' = [leaving EXCEPT ![b] = "polled"]
    /\ UNCHANGED <<nickVars, connVars, askVars, bots, polled, botIndex, update>>

(* UnregisterBot changes the two lists under one mutex each. *)
Unregister(b) ==
    /\ leaving[b] = "no" /\ Spend("remove")
    /\ leaving' = [leaving EXCEPT ![b] = "polled"]
    /\ bots' = Kept(bots, Bots \ {b})
    /\ UNCHANGED <<nickVars, connVars, askVars, polled, botIndex, update>>

Unpoll(b) ==
    /\ leaving[b] = "polled"
    /\ leaving' = [leaving EXCEPT ![b] = "done"]
    /\ polled' = Kept(polled, Bots \ {b})
    /\ UNCHANGED <<nickVars, connVars, askVars, bots, botIndex, update, left>>

-----------------------------------------------------------------------------
Callback(b) == Recv001(b) \/ RecvNick(b) \/ RecvIson(b) \/ RecvGone(b)
Environment(b) == Rename(b) \/ Registers(b) \/ Drop(b)

Next ==
    \/ Tick \/ UpdateLook \/ UpdateAssign
    \/ \E b \in Bots : \/ Environment(b) \/ Answer(b) \/ Callback(b)
                       \/ Return(b) \/ Timeout(b) \/ Unregister(b) \/ Unpoll(b)

Spec == Init /\ [][Next]_vars

(* The monitor's tickers, of which Go's select passes over none for ever, the
   goroutines, the callbacks, and a server that answers.  Nothing is owed by
   the network and by those who remove bots. *)
Fairness ==
    /\ SF_vars(Tick) /\ WF_vars(UpdateLook) /\ WF_vars(UpdateAssign)
    /\ \A b \in Bots : /\ WF_vars(Answer(b)) /\ WF_vars(Callback(b)) /\ WF_vars(Unpoll(b))
                       /\ WF_vars(Return(b)) /\ WF_vars(Timeout(b) /\ ~Owed(b))

FairSpec == Spec /\ Fairness

-----------------------------------------------------------------------------
Online(b) == IsConnected(b) /\ leaving[b] = "no"

(* The bots are registers that follow the nicks the server gives it: missed
   and forced changes, late replies and broken connections notwithstanding
   (tryAcceptSelfNickChange, reconcileSelfNickFromISON, 001). *)
Register == INSTANCE NickRegister
                WITH history <- hist, known <- cur, online <- [b \in Bots |-> Online(b)]
FollowsServer == Register!Spec

(* A bot that stays connected and registered is asked again and again, whatever
   happens to the other bots and to its own requests (monitorNicks,
   RequestISON): the index stays in step with a list that is replaced under
   it, and no timeout leaves isonInFlight set. *)
AskedAgain ==
    \A b \in Bots : <>[]Online(b) => []<>(req[b] # "none") /\ []<>(req[b] = "none")

(* A bot that was unregistered is forgotten for good, although an update that
   was computed before may list it once more (updateConnectedBots,
   UnregisterBot). *)
RemovedForgotten ==
    \A b \in Bots : (leaving[b] = "done") ~> [](~Contains(polled, b))

(* By hand, with a slow server: a request takes the reply to its own command
   (RequestISON).  The table hands a late reply to the next request. *)
AnswerOwn == \A b \in Bots : req[b] # "late"
=============================================================================
