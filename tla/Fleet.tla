-------------------------------- MODULE Fleet --------------------------------
(***************************************************************************)
(* The connections of one bot (internal/bot/bot.go) and its place in the   *)
(* fleet (internal/bot/manager.go).  The bots of a fleet meet only in      *)
(* bm.bots and in StartBots, which waits for all of them: the others are   *)
(* the time that StartBots takes after this bot is done.                   *)
(*                                                                         *)
(* Three goroutines open connections (Openers): the one of StartBots,      *)
(* Reconnect, and handleTMHCBackoff after the server has turned the host   *)
(* away.  go-ircevo (external) reopens a connection on its own in Loop()   *)
(* until its quit flag is latched.  For each event of a connection it runs *)
(* the callbacks, waits for them (30 s at most, and those here are taken   *)
(* to end within them) and goes on to the next event; Disconnect returns   *)
(* when all have run.  Callbacks of an old connection change the same Bot  *)
(* as those of the current one.                                            *)
(***************************************************************************)
EXTENDS Naturals, Sequences, FiniteSets

CONSTANTS
    Conns,        \* identities of irc.Connection objects, reused when nothing runs on them
    None,         \* b.Connection = nil
    MaxAttempts,  \* tmhcMaxAttempts
    Bounds        \* bounds, each b with: b[t], how often the trouble t happens; b.any, how often
                  \* any does; b.rounds, how often startBotWithRetry calls Connect again within
                  \* its 120 s; b.overlap, whether Reconnect is called while another opener
                  \* is at work; b.retries, GlobalConfig.ReconnectRetries

Openers == {"start", "reconnect", "tmhc"}
Trouble == {"refuse", "slow", "drop", "silence", "reject", "ban", "lull", "reconnect", "quit"}
Bounded == Trouble \cup {"any", "rounds", "overlap", "retries"}

ASSUME ConnsAssumption == None \notin Conns /\ IsFiniteSet(Conns)
ASSUME CountAssumption == MaxAttempts \in Nat \ {0}
ASSUME BoundsAssumption == /\ Bounds \subseteq [Bounded -> Nat]
                           /\ \A b \in Bounds : b["retries"] # 0

VARIABLES
    cur,          \* b.Connection
    link,         \* link[c]: "none" before Connect, "open", "up" (registered), "silent", "down"
    latched,      \* the connections whose quit flag is set
    looping,      \* those on which Loop() was started
    bye,          \* those on which QUIT was sent
    inbox,        \* inbox[c]: the events whose callbacks have not run
    isConnected, gaveUp, banHandled, tmhcAttempts, tmhcInProgress, isReconnecting,
    closed,       \* b.connected is closed
    waiting,      \* the openers that wait for that very channel
    released,     \* the openers whose channel was closed
    pc, at,       \* pc[o]: where an opener is; at[o]: the connection that it, or
                  \* handleBanCleanup ("ban"), has at hand
    tries,        \* tries[o]: attempts of connectWithRetry
    listed,       \* the bot is in bm.bots
    kept,         \* and in connectedBots of StartBots
    settled,      \* StartBots has assigned bm.bots and started the liveness loop
    cleanup,      \* cleanupDisconnectedBots: "wait", "found", "done"
    ban,          \* handleBanCleanup: "no", "disconnect", "remove"
    quitting,     \* a call of Quit is under way
    closing,      \* connections with a `go conn.Disconnect()`
    killing,      \* forceDisconnect was started
    alive,        \* lastEventAt and wdProbeAt against the clock, see Sweep
    left,         \* the bounds of this behaviour, troubles and rounds as far as they remain
    panicked,     \* a method was called on a nil b.Connection
    crowded,      \* history: two have been opening connections at a time, see Crowds
    misled,       \* history: a 001 was passed over, the flag being set for another connection
    speaker       \* history: the connection about which isConnected was last set

flags == <<isConnected, gaveUp, banHandled, tmhcAttempts, tmhcInProgress, isReconnecting>>
channel == <<closed, waiting, released>>
openers == <<pc, at, tries>>
roster == <<listed, kept, settled, cleanup>>
net == <<link, latched, looping, bye, inbox>>
others == <<ban, quitting, closing, killing>>
history == <<crowded, misled, speaker>>
vars == <<cur, net, flags, channel, openers, roster, others, alive, left, panicked, history>>

Active == {"open", "up", "silent"}
Busy(o) == pc[o] \notin {"idle", "done"}
(* An opener begins while another one is at work. *)
Crowds(o) == crowded' = (crowded \/ \E p \in Openers \ {o} : Busy(p))
Speaks(c) == speaker' = c

Spend(t) == /\ left[t] > 0 /\ left["any"] > 0
            /\ left' = [left EXCEPT ![t] = @ - 1, !["any"] = @ - 1]

(* Bot.IsConnected *)
IsConnected == isConnected /\ cur # None /\ link[cur] \in {"up", "silent"}

TypeOK ==
    /\ cur \in Conns \cup {None}
    /\ link \in [Conns -> {"none", "open", "up", "silent", "down"}]
    /\ latched \subseteq Conns /\ looping \subseteq Conns /\ bye \subseteq Conns
    /\ inbox \in [Conns -> Seq({"001", "welcomed", "465", "ERROR", "DISCONNECTED"})]
    /\ \A f \in {isConnected, gaveUp, banHandled, tmhcInProgress, isReconnecting, closed,
                 listed, kept, settled, quitting, killing, panicked, crowded, misled} : f \in BOOLEAN
    /\ tmhcAttempts \in Nat
    /\ waiting \subseteq Openers /\ released \subseteq Openers
    /\ pc \in [Openers -> {"idle", "connect", "close", "drain", "cool", "open", "dial", "wait",
                           "poll", "retry", "done"}]
    /\ at \in [Openers \cup {"ban"} -> Conns \cup {None}]
    /\ tries \in [Openers -> 0 .. left["retries"]]
    /\ cleanup \in {"wait", "found", "done"} /\ ban \in {"no", "disconnect", "drain"}
    /\ closing \subseteq Conns
    /\ alive \in {"fresh", "idle", "probed", "overdue", "answered"}
    /\ speaker \in Conns \cup {None}
    /\ left \in [Bounded -> Nat]

(* NewBot, NewBotManager: nobody is connected, all bots are in the list and
   StartBots has spawned a goroutine for each. *)
Init ==
    /\ cur = None /\ link = [c \in Conns |-> "none"]
    /\ latched = {} /\ looping = {} /\ bye = {} /\ inbox = [c \in Conns |-> <<>>]
    /\ isConnected = FALSE /\ gaveUp = FALSE /\ banHandled = FALSE
    /\ tmhcAttempts = 0 /\ tmhcInProgress = FALSE /\ isReconnecting = FALSE
    /\ closed = FALSE /\ waiting = {} /\ released = {}
    /\ pc = [o \in Openers |-> IF o = "start" THEN "connect" ELSE "idle"]
    /\ at = [o \in Openers \cup {"ban"} |-> None] /\ tries = [o \in Openers |-> 0]
    /\ listed = TRUE /\ kept = FALSE /\ settled = FALSE /\ cleanup = "wait"
    /\ ban = "no" /\ quitting = FALSE /\ closing = {} /\ killing = FALSE
    /\ alive = "fresh" /\ panicked = FALSE /\ crowded = FALSE /\ misled = FALSE /\ speaker = None
    /\ left \in Bounds

-----------------------------------------------------------------------------
(* The library, the network and the server. *)

(* Disconnect closes the socket; DISCONNECTED is delivered after what came before. *)
Down(c, last) ==
    /\ link' = [link EXCEPT ![c] = "down"]
    /\ inbox' = [inbox EXCEPT ![c] = @ \o last \o <<"DISCONNECTED">>]

Disconnect(c) ==
    IF c # None /\ link[c] \in Active THEN Down(c, <<>>) ELSE UNCHANGED <<link, inbox>>

(* Connection.Quit latches the quit flag at once and sends QUIT a second later. *)
LibQuit(c) ==
    /\ latched' = latched \cup ({c} \ {None})
    /\ bye' = IF c # None /\ link[c] \in Active THEN bye \cup {c} ELSE bye

(* Nothing runs on the connection any more and nobody has it at hand. *)
Free(c) == /\ c # cur /\ c \notin closing /\ \A o \in DOMAIN at : at[o] # c
           /\ link[c] \in {"none", "down"} /\ inbox[c] = <<>>
           /\ (c \in looping => c \in latched)

(* Loop() reopens a lost connection once the loops of the old socket have ended. *)
LoopReconnect(c) ==
    /\ c \in looping \ latched /\ link[c] = "down" /\ inbox[c] = <<>>
    /\ link' = [link EXCEPT ![c] = "open"]
    /\ UNCHANGED <<cur, latched, looping, bye, inbox, flags, channel, openers, roster, others,
                   alive, left, panicked, history>>

Welcome(c) ==
    /\ link[c] = "open" /\ c \notin bye
    /\ link' = [link EXCEPT ![c] = "up"]
    /\ inbox' = [inbox EXCEPT ![c] = Append(@, "001")]
    /\ UNCHANGED <<cur, latched, looping, bye, flags, channel, openers, roster, others,
                   alive, left, panicked, history>>

(* The server answers QUIT. *)
QuitAnswered(c) ==
    /\ link[c] \in {"open", "up"} /\ c \in bye /\ Down(c, <<>>)
    /\ UNCHANGED <<cur, latched, looping, bye, flags, channel, openers, roster, others,
                   alive, left, panicked, history>>

(* The connection breaks, the host has too many of them, it is banned. *)
Ends(c) ==
    /\ link[c] \in {"open", "up"}
    /\ \/ (Spend("drop") /\ Down(c, <<>>))
       \/ (link[c] = "open" /\ Spend("reject") /\ Down(c, <<"ERROR">>))
       \/ (Spend("ban") /\ Down(c, <<"465">>))
    /\ UNCHANGED <<cur, latched, looping, bye, flags, channel, openers, roster, others,
                   alive, panicked, history>>

(* The server is gone and the socket does not notice. *)
FallSilent(c) ==
    /\ link[c] = "up" /\ Spend("silence")
    /\ link' = [link EXCEPT ![c] = "silent"]
    /\ UNCHANGED <<cur, latched, looping, bye, inbox, flags, channel, openers, roster, others,
                   alive, panicked, history>>

-----------------------------------------------------------------------------
(* b.connected. *)

NewChannel == closed' = FALSE /\ waiting' = {} /\ UNCHANGED released
CloseChannel == closed' = TRUE /\ released' = released \cup waiting /\ UNCHANGED waiting

(* The program pauses for seconds: what has arrived by then has been handled. *)
CallbacksRun == \A c \in Conns : inbox[c] = <<>>

(* connectWithRetry, for the opener o. *)

Goto(o, l) == pc' = [pc EXCEPT ![o] = l]

(* Mutant: one attempt too many. *)
OpenAlways(o) ==
    /\ pc[o] = "open" /\ CallbacksRun /\ \E c \in Conns : Free(c)
    /\ LET c == CHOOSE d \in Conns : Free(d)
       IN /\ cur' = c /\ at' = [at EXCEPT ![o] = c]
          /\ link' = [link EXCEPT ![c] = "none"]
          /\ latched' = latched \ {c} /\ looping' = looping \ {c} /\ bye' = bye \ {c}
    /\ NewChannel /\ Goto(o, "dial") /\ tries' = [tries EXCEPT ![o] = @ + 1]
    /\ speaker' = IF speaker = cur' THEN None ELSE speaker
    /\ UNCHANGED <<inbox, flags, roster, others, alive, left, panicked, crowded, misled>>

(* After the pause, if any, the head of its loop makes a channel and a
   connection with its callbacks. *)
Open(o) ==
    /\ pc[o] = "open" /\ tries[o] < left["retries"] /\ CallbacksRun
    /\ \E c \in Conns : Free(c)
    /\ LET c == CHOOSE d \in Conns : Free(d)
       IN /\ cur' = c /\ at' = [at EXCEPT ![o] = c]
          /\ link' = [link EXCEPT ![c] = "none"]
          /\ latched' = latched \ {c} /\ looping' = looping \ {c} /\ bye' = bye \ {c}
    /\ NewChannel /\ Goto(o, "dial") /\ tries' = [tries EXCEPT ![o] = @ + 1]
    /\ speaker' = IF speaker = cur' THEN None ELSE speaker
    /\ UNCHANGED <<inbox, flags, roster, others, alive, left, panicked, crowded, misled>>

(* Connect fails: markAsDisconnected, sleep, next attempt. *)
DialFails(o) ==
    /\ pc[o] = "dial" /\ Spend("refuse")
    /\ isConnected' = FALSE /\ Speaks(at[o]) /\ Goto(o, "open") /\ at' = [at EXCEPT ![o] = None]
    /\ UNCHANGED <<cur, net, gaveUp, banHandled, tmhcAttempts, tmhcInProgress, isReconnecting,
                   channel, tries, roster, others, alive, panicked, crowded, misled>>

(* It succeeds: Loop() is started and the channel waited for, each on what
   b.Connection and b.connected are by now. *)
DialDone(o) ==
    /\ pc[o] = "dial"
    /\ link' = [link EXCEPT ![at[o]] = "open"] /\ at' = [at EXCEPT ![o] = None]
    /\ looping' = looping \cup ({cur} \ {None})
    /\ panicked' = (panicked \/ cur = None)
    /\ released' = IF closed THEN released \cup {o} ELSE released \ {o}
    /\ waiting' = IF closed THEN waiting ELSE waiting \cup {o}
    /\ Goto(o, "wait")
    /\ UNCHANGED <<cur, latched, bye, inbox, flags, closed, tries, roster, others,
                   alive, left, history>>

(* connectWithRetry returns nil ... *)
Succeed(o) ==
    /\ Goto(o, IF o = "start" THEN "poll" ELSE "idle")
    /\ tries' = [tries EXCEPT ![o] = 0]
    /\ isReconnecting' = (isReconnecting /\ o # "reconnect")
    /\ tmhcInProgress' = (tmhcInProgress /\ o # "tmhc")

Connected(o) ==
    /\ pc[o] = "wait" /\ (o \in released \/ IsConnected)
    /\ Succeed(o) /\ released' = released \ {o} /\ waiting' = waiting \ {o}
    /\ UNCHANGED <<cur, net, isConnected, gaveUp, banHandled, tmhcAttempts, closed, at,
                   roster, others, alive, left, panicked, history>>

(* ... or 45 s are over: the connection of the moment is quit.  A server that
   has not registered it by then, or whose 001 was only just read, is "slow". *)
Timeout(o) ==
    /\ pc[o] = "wait" /\ o \notin released /\ ~IsConnected
    /\ IF cur # None /\ cur \notin latched
             /\ (link[cur] = "open" \/ (link[cur] = "up" /\ inbox[cur] # <<>>))
         THEN Spend("slow") ELSE UNCHANGED left
    /\ isConnected' = FALSE /\ Speaks(cur) /\ LibQuit(cur)
    /\ Goto(o, "open") /\ waiting' = waiting \ {o}
    /\ UNCHANGED <<cur, link, looping, inbox, gaveUp, banHandled, tmhcAttempts, tmhcInProgress,
                   isReconnecting, closed, released, at, tries, roster, others, alive,
                   panicked, crowded, misled>>

(* Mutant: the attempts start again. *)
ExhaustedAnew(o) ==
    /\ pc[o] = "open" /\ tries[o] = left["retries"] /\ tries' = [tries EXCEPT ![o] = 0]
    /\ UNCHANGED <<cur, net, flags, channel, pc, at, roster, others, alive, left, panicked, history>>

(* The last attempt has failed: Connect quits the connection, Reconnect and
   handleTMHCBackoff give up. *)
Exhausted(o) ==
    /\ pc[o] = "open" /\ tries[o] = left["retries"]
    /\ tries' = [tries EXCEPT ![o] = 0]
    /\ IF o = "start"
         THEN /\ isConnected' = FALSE /\ Speaks(cur) /\ LibQuit(cur) /\ Goto(o, "retry")
              /\ UNCHANGED <<gaveUp, isReconnecting, tmhcInProgress>>
         ELSE /\ gaveUp' = TRUE /\ Goto(o, "idle")
              /\ isReconnecting' = (isReconnecting /\ o # "reconnect")
              /\ tmhcInProgress' = (tmhcInProgress /\ o # "tmhc")
              /\ UNCHANGED <<isConnected, latched, bye, speaker>>
    /\ UNCHANGED <<cur, link, looping, inbox, banHandled, tmhcAttempts, channel, at,
                   roster, others, alive, left, panicked, crowded, misled>>

-----------------------------------------------------------------------------
(* StartBots and startBotWithRetry. *)

(* Bot.Connect *)
Connect ==
    /\ pc["start"] = "connect"
    /\ IF IsConnected
         THEN Goto("start", "poll") /\ UNCHANGED <<isConnected, channel, speaker>>
         ELSE Goto("start", "open") /\ isConnected' = FALSE /\ Speaks(None) /\ NewChannel
    /\ UNCHANGED <<cur, net, gaveUp, banHandled, tmhcAttempts, tmhcInProgress, isReconnecting,
                   at, tries, roster, others, alive, left, panicked, crowded, misled>>

(* Ten seconds of asking IsConnected.  Who tries anew then competes with Loop()
   for a connection that was lost meanwhile. *)
Poll ==
    /\ pc["start"] = "poll" /\ (IsConnected \/ CallbacksRun)
    /\ kept' = IsConnected
    /\ Goto("start", IF IsConnected THEN "done" ELSE "retry")
    /\ crowded' = (crowded \/ (~IsConnected /\ cur \in looping \ latched))
    /\ UNCHANGED <<cur, net, flags, channel, at, tries, listed, settled, cleanup, others,
                   alive, left, panicked, misled, speaker>>

(* Quit, but for what it stops besides the connection. *)
QuitEffect ==
    /\ isConnected' = FALSE /\ Speaks(cur) /\ LibQuit(cur)
    /\ CloseChannel

(* After 120 s the bot is quit and not kept. *)
Retry ==
    /\ pc["start"] = "retry"
    /\ \/ /\ left["rounds"] > 0 /\ left' = [left EXCEPT !["rounds"] = @ - 1]
          /\ Goto("start", "connect")
          /\ UNCHANGED <<isConnected, latched, bye, channel, speaker>>
       \/ /\ Goto("start", "done") /\ QuitEffect /\ UNCHANGED left
    /\ UNCHANGED <<cur, link, looping, inbox, gaveUp, banHandled, tmhcAttempts, tmhcInProgress,
                   isReconnecting, at, tries, roster, others, alive, panicked, crowded, misled>>

(* All bots have come to an end of it. *)
StartBotsEnds ==
    /\ pc["start"] = "done" /\ ~settled
    /\ settled' = TRUE /\ listed' = kept
    /\ UNCHANGED <<cur, net, flags, channel, openers, kept, cleanup, others, alive, left, panicked, history>>

-----------------------------------------------------------------------------
(* Reconnect and handleTMHCBackoff: stop what is there, then open anew. *)

ReconnectCalled ==
    /\ listed /\ ~isReconnecting /\ Spend("reconnect")
    /\ (\E o \in Openers : Busy(o)) => left["overlap"] # 0
    /\ isReconnecting' = TRUE /\ Goto("reconnect", "close") /\ Crowds("reconnect")
    /\ UNCHANGED <<cur, net, isConnected, gaveUp, banHandled, tmhcAttempts, tmhcInProgress,
                   channel, at, tries, roster, others, alive, panicked, misled, speaker>>

(* Mutant: Disconnect without StopReconnect. *)
CloseUnlatched(o) ==
    /\ pc[o] = "close" /\ Goto(o, "drain") /\ at' = [at EXCEPT ![o] = cur] /\ Disconnect(cur)
    /\ UNCHANGED <<cur, latched, looping, bye, flags, channel, tries, roster, others,
                   alive, left, panicked, history>>

CloseOld(o) ==
    /\ pc[o] = "close" /\ Goto(o, "drain") /\ at' = [at EXCEPT ![o] = cur]
    /\ latched' = latched \cup ({cur} \ {None}) /\ Disconnect(cur)
    /\ UNCHANGED <<cur, looping, bye, flags, channel, tries, roster, others, alive, left,
                   panicked, history>>

Drained(c) == c # None => link[c] \in {"none", "down"} /\ inbox[c] = <<>>

ReconnectAnew ==
    /\ pc["reconnect"] = "drain" /\ Drained(at["reconnect"])
    /\ at' = [at EXCEPT !["reconnect"] = None] /\ cur' = None
    /\ NewChannel /\ Goto("reconnect", "open")
    /\ UNCHANGED <<net, flags, tries, roster, others, alive, left, panicked, history>>

(* With the budget of attempts used up the bot is removed, otherwise it cools off. *)
BackoffDecide ==
    /\ pc["tmhc"] = "drain" /\ Drained(at["tmhc"])
    /\ at' = [at EXCEPT !["tmhc"] = None]
    /\ IF tmhcAttempts >= MaxAttempts
         THEN /\ gaveUp' = TRUE /\ QuitEffect /\ listed' = FALSE
              /\ tmhcInProgress' = FALSE /\ Goto("tmhc", "idle")
         ELSE /\ Goto("tmhc", "cool")
              /\ UNCHANGED <<gaveUp, isConnected, latched, bye, channel, listed, tmhcInProgress,
                             speaker>>
    /\ UNCHANGED <<cur, link, looping, inbox, banHandled, tmhcAttempts, isReconnecting, tries,
                   kept, settled, cleanup, others, alive, left, panicked, crowded, misled>>

BackoffRetry ==
    /\ pc["tmhc"] = "cool"
    /\ IF gaveUp
         THEN Goto("tmhc", "idle") /\ tmhcInProgress' = FALSE /\ UNCHANGED <<cur, channel>>
         ELSE Goto("tmhc", "open") /\ cur' = None /\ NewChannel /\ UNCHANGED tmhcInProgress
    /\ UNCHANGED <<net, isConnected, gaveUp, banHandled, tmhcAttempts, isReconnecting, at, tries,
                   roster, others, alive, left, panicked, history>>

-----------------------------------------------------------------------------
(* The callbacks. *)

Take(c, event) == inbox[c] # <<>> /\ Head(inbox[c]) = event
Done(c) == inbox' = [inbox EXCEPT ![c] = Tail(@)]

(* Mutant: gaveUp is not looked at. *)
Recv001Always(c) ==
    /\ Take(c, "001") /\ misled' = (misled \/ (IsConnected /\ speaker # c))
    /\ IF IsConnected THEN Done(c) ELSE inbox' = [inbox EXCEPT ![c][1] = "welcomed"]
    /\ UNCHANGED <<cur, link, latched, looping, bye, flags, channel, openers, roster, others,
                   alive, left, panicked, crowded, speaker>>

(* 001: a bot that gave up is stopped again. *)
Recv001(c) ==
    /\ Take(c, "001") /\ misled' = (misled \/ (IsConnected /\ speaker # c))
    /\ IF IsConnected
         THEN Done(c) /\ UNCHANGED <<latched, closing>>
         ELSE IF gaveUp
           THEN /\ Done(c) /\ latched' = latched \cup ({cur} \ {None})
                /\ closing' = closing \cup ({cur} \ {None})
           ELSE /\ inbox' = [inbox EXCEPT ![c][1] = "welcomed"]
                /\ UNCHANGED <<latched, closing>>
    /\ UNCHANGED <<cur, link, looping, bye, flags, channel, openers, roster, ban, quitting, killing,
                   alive, left, panicked, crowded, speaker>>

Welcomed(c) ==
    /\ Take(c, "welcomed") /\ Done(c)
    /\ isConnected' = TRUE /\ Speaks(c) /\ tmhcAttempts' = 0 /\ alive' = "fresh"
    /\ CloseChannel
    /\ UNCHANGED <<cur, link, latched, looping, bye, gaveUp, banHandled, tmhcInProgress,
                   isReconnecting, openers, roster, others, left, panicked, crowded, misled>>

(* 465 and 466 *)
RecvBan(c) ==
    /\ Take(c, "465") /\ Done(c)
    /\ IF banHandled
         THEN UNCHANGED <<banHandled, gaveUp, latched, ban>>
         ELSE /\ banHandled' = TRUE /\ gaveUp' = TRUE /\ ban' = "disconnect"
              /\ latched' = latched \cup ({cur} \ {None})
    /\ UNCHANGED <<cur, link, looping, bye, isConnected, tmhcAttempts, tmhcInProgress,
                   isReconnecting, channel, openers, roster, quitting, closing, killing, alive,
                   left, panicked, history>>

(* ERROR: too many connections of this host *)
RecvError(c) ==
    /\ Take(c, "ERROR") /\ Done(c)
    /\ IF tmhcInProgress
         THEN UNCHANGED <<tmhcInProgress, tmhcAttempts, pc, crowded>>
         ELSE /\ tmhcInProgress' = TRUE /\ tmhcAttempts' = tmhcAttempts + 1
              /\ Goto("tmhc", "close") /\ Crowds("tmhc")
    /\ UNCHANGED <<cur, link, latched, looping, bye, isConnected, gaveUp, banHandled,
                   isReconnecting, channel, at, tries, roster, others, alive, left,
                   panicked, misled, speaker>>

(* Mutant: the callback only logs. *)
DisconnectedLogged(c) ==
    /\ Take(c, "DISCONNECTED") /\ Done(c)
    /\ UNCHANGED <<cur, link, latched, looping, bye, flags, channel, openers, roster, others,
                   alive, left, panicked, history>>

RecvDisconnected(c) ==
    /\ Take(c, "DISCONNECTED") /\ Done(c)
    /\ isConnected' = FALSE /\ Speaks(c)
    /\ UNCHANGED <<cur, link, latched, looping, bye, gaveUp, banHandled, tmhcAttempts,
                   tmhcInProgress, isReconnecting, channel, openers, roster, others, alive, left,
                   panicked, crowded, misled>>

-----------------------------------------------------------------------------
(* Removal: handleBanCleanup, cleanupDisconnectedBots, Quit. *)

BanDisconnect ==
    /\ ban = "disconnect" /\ ban' = "drain" /\ Disconnect(cur)
    /\ at' = [at EXCEPT !["ban"] = cur]
    /\ UNCHANGED <<cur, latched, looping, bye, flags, channel, pc, tries, roster, quitting, closing,
                   killing, alive, left, panicked, history>>

BanRemove ==
    /\ ban = "drain" /\ Drained(at["ban"]) /\ ban' = "no" /\ listed' = FALSE
    /\ at' = [at EXCEPT !["ban"] = None]
    /\ UNCHANGED <<cur, net, flags, channel, pc, tries, kept, settled, cleanup, quitting, closing,
                   killing, alive, left, panicked, history>>

(* 240 s after NewBotManager, once. *)
CleanupLook ==
    /\ cleanup = "wait"
    /\ cleanup' = IF listed /\ ~IsConnected THEN "found" ELSE "done"
    /\ UNCHANGED <<cur, net, flags, channel, openers, listed, kept, settled, others, alive, left,
                   panicked, history>>

CleanupRemove ==
    /\ cleanup = "found" /\ cleanup' = "done" /\ listed' = FALSE /\ quitting' = TRUE
    /\ UNCHANGED <<cur, net, flags, channel, openers, kept, settled, ban, closing, killing, alive,
                   left, panicked, history>>

QuitCalled ==
    /\ listed /\ ~quitting /\ Spend("quit") /\ quitting' = TRUE
    /\ UNCHANGED <<cur, net, flags, channel, openers, roster, ban, closing, killing, alive, panicked, history>>

Quit ==
    /\ quitting /\ quitting' = FALSE /\ QuitEffect
    /\ UNCHANGED <<cur, link, looping, inbox, gaveUp, banHandled, tmhcAttempts, tmhcInProgress,
                   isReconnecting, openers, roster, ban, closing, killing, alive, left, panicked,
                   crowded, misled>>

(* go conn.Disconnect() *)
Close(c) ==
    /\ c \in closing /\ closing' = closing \ {c} /\ Disconnect(c)
    /\ UNCHANGED <<cur, latched, looping, bye, flags, channel, openers, roster, ban, quitting,
                   killing, alive, left, panicked, history>>

-----------------------------------------------------------------------------
(* Mutant: an overdue probe is repeated. *)
livenessProbes == CASE alive \in {"idle", "overdue"} -> "probe" [] alive = "answered" -> "clear"
                    [] OTHER -> "none"

(* The liveness watchdog.  alive: "fresh" and "idle" when no probe is pending
   and the last line is younger or older than livenessIdle; "probed" and
   "overdue" when a probe is within or beyond its grace without an answer, and
   "answered" when a line came after it. *)

livenessDecision == CASE alive = "idle" -> "probe" [] alive = "overdue" -> "kill"
                      [] alive = "answered" -> "clear" [] OTHER -> "none"

(* sweepLiveness and applyLiveness *)
Sweep ==
    /\ settled /\ listed /\ IsConnected /\ livenessDecision # "none"
    /\ CASE livenessDecision = "probe" -> alive' = "probed" /\ UNCHANGED killing
         [] livenessDecision = "clear" -> alive' = "fresh" /\ UNCHANGED killing
         [] livenessDecision = "kill" -> alive' = "idle" /\ killing' = TRUE
    /\ UNCHANGED <<cur, net, flags, channel, openers, roster, ban, quitting, closing, left, panicked, history>>

(* forceDisconnect *)
Kill ==
    /\ killing /\ killing' = FALSE /\ closing' = closing \cup ({cur} \ {None})
    /\ UNCHANGED <<cur, net, flags, channel, openers, roster, ban, quitting, alive, left, panicked, history>>

(* Time passes without a line, which needs a lull when the server is there, or
   one arrives (the "*" callback), while the sweeper looks at the bot. *)
TimePasses ==
    /\ settled /\ listed /\ IsConnected /\ alive \in {"fresh", "probed"}
    /\ alive' = IF alive = "fresh" THEN "idle" ELSE "overdue"
    /\ IF link[cur] = "up" THEN Spend("lull") ELSE UNCHANGED left
    /\ UNCHANGED <<cur, net, flags, channel, openers, roster, others, panicked, history>>

Line ==
    /\ settled /\ listed /\ IsConnected /\ link[cur] = "up"
    /\ alive \in {"idle", "probed", "overdue"}
    /\ alive' = IF alive = "idle" THEN "fresh" ELSE "answered"
    /\ UNCHANGED <<cur, net, flags, channel, openers, roster, others, left, panicked, history>>

-----------------------------------------------------------------------------
Opener(o) == \/ Open(o) \/ DialFails(o) \/ DialDone(o) \/ Connected(o) \/ Timeout(o)
             \/ Exhausted(o) \/ CloseOld(o)
Starting == Connect \/ Poll \/ Retry \/ StartBotsEnds
Backoff == ReconnectAnew \/ BackoffDecide \/ BackoffRetry
Callback(c) == Recv001(c) \/ Welcomed(c) \/ RecvBan(c) \/ RecvError(c) \/ RecvDisconnected(c)
Removal == BanDisconnect \/ BanRemove \/ CleanupLook \/ CleanupRemove \/ Quit
Watchdog == Sweep \/ Kill
Server(c) == LoopReconnect(c) \/ Welcome(c) \/ QuitAnswered(c)

Next == /\ ~panicked
        /\ \/ \E o \in Openers : Opener(o)
           \/ Starting \/ Backoff \/ Removal \/ Watchdog
           \/ ReconnectCalled \/ QuitCalled \/ TimePasses \/ Line
           \/ \E c \in Conns : Callback(c) \/ Server(c) \/ Ends(c) \/ FallSilent(c) \/ Close(c)

Spec == Init /\ [][Next]_vars

(* Goroutines and callbacks run, timers fire, tickers tick, a QUIT is answered
   and the server registers whom it does not turn away; troubles owe nothing. *)
Fairness ==
    /\ \A o \in Openers : WF_vars(Opener(o))
    /\ WF_vars(Starting) /\ WF_vars(Backoff) /\ WF_vars(Removal)
    /\ WF_vars(Sweep) /\ WF_vars(Kill)
    /\ WF_vars(TimePasses /\ link[cur] = "silent")
    /\ \A c \in Conns : WF_vars(Callback(c)) /\ WF_vars(Server(c)) /\ WF_vars(Close(c))

FairSpec == Spec /\ Fairness

-----------------------------------------------------------------------------
(* Whoever opens a connection has stopped the one before: a connection that is
   not b.Connection any more is on its way out and will not come back by itself,
   unless two have been opening connections at a time.  (Its callbacks would act
   on the bot, and nobody could stop it.) *)
Alone == \A c \in Conns \ {cur} : (link[c] \in Active \/ c \in looping) => c \in latched
OneConnection == crowded \/ Alone

(* Nothing is under way. *)
AtRest == /\ \A o \in Openers : ~Busy(o)
          /\ \A c \in Conns : inbox[c] = <<>> /\ (c \in bye => link[c] \notin Active)
          /\ ban = "no" /\ ~quitting /\ closing = {} /\ ~killing /\ cleanup # "found"

(* With nothing under way the flag isConnected, which everything from ISON to
   the panel and the watchdog goes by, says what the connection is, unless a
   callback of an older connection had the last word: its DISCONNECTED may come
   after the 001 of the new one. *)
Says == isConnected <=> cur # None /\ link[cur] \in {"up", "silent"}
InStep == AtRest /\ cur # None /\ speaker = cur => Says

(* A bot that was banned, removed or gave up ends without any connection, be it
   in the middle of a retry, a back-off, a Reconnect or the start, unless two have
   been opening connections at a time or its 001 was passed over: what IsConnected
   said was then about a connection given up before. *)
Stopped == \A c \in Conns : link[c] \notin {"open", "up"}
CorpseStops == <>gaveUp => <>[](crowded \/ misled \/ Stopped)

(* A connection on which nothing arrives any more is noticed by the liveness
   watchdog and torn down, whatever else the bot is doing.  The sweeper sends the
   probe itself: that SendRaw shows it to the BNC tunnel of the bot, and waits there
   while an SSH client does not read, is not modelled. *)
Wedged == settled /\ listed /\ IsConnected /\ link[cur] = "silent"
WedgeNoticed == Wedged ~> ~Wedged

(* StartBots comes to its end, whatever the server does to a bot meanwhile. *)
StartResolves == <>settled

(* BackoffEnds: "either reattempts a fresh registration or removes the bot once
   the per-bot budget is exhausted" (bot.go:1227-1229): a bot that gave up does
   not stay in bm.bots. *)
GaveUpRemoved == gaveUp ~> ~listed

(* bot.go:940-942: b.Connection is never nil once there is one. *)
NeverNil == crowded \/ ~panicked

(* By hand: the same without the conditions. *)
OneAlways == Alone
NilAlways == ~panicked
InStepAlways == AtRest => Says
CorpseAlways == <>gaveUp => <>[](crowded \/ Stopped)

(* "Już usunięty" (manager.go:406): a bot that was removed does not return. *)
RemovedForGood == [][~listed => ~listed']_vars
=============================================================================
