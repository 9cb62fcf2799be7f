--------------------------- MODULE ChannelActivity ---------------------------
(***************************************************************************)
(* The channels of one bot under the two runtime switches: the watchdog,   *)
(* which keeps it on its targets, and the human-like runner, which joins   *)
(* and parts channels by itself.  RuntimeState (internal/runtime/state.go) *)
(* holds the switches and applies every change to the bot                  *)
(* (internal/bot/humanlike.go), while the 001, JOIN, PART, KICK, 465 and   *)
(* DISCONNECTED callbacks, the channel checker, the timers after a KICK    *)
(* and RemoveBot (internal/bot/bot.go) go on.                              *)
(*                                                                         *)
(* setMu makes all setters one process, whose snapshot is the current      *)
(* state; no other bot changes what this one does.  A test and the send    *)
(* that directly follows it are one step.  go-ircevo runs the callbacks of *)
(* one event before those of the next one, and registers anew by itself    *)
(* after a lost connection.                                                *)
(***************************************************************************)
EXTENDS Integers, Sequences, FiniteSets, SequencesExt

CONSTANTS
  Targets,    \* the watchdog settings a client may choose: sets of channels,
              \* the configured list or the one override; {} is disabled
  Lists,      \* the human-like lists a client may choose
  MayFail,    \* whether data/runtime.json may fail to be written
  MayRefuse,  \* whether the server may refuse a JOIN
  MayBan,     \* whether the server may ban the bot
  MayRemove,  \* whether the bot may be removed by a command
  MaxSets,    \* bound: calls of SetWatchdog and SetHumanlike
  MaxLosses,  \* bound: lost connections
  MaxKicks,   \* bound: KICKs
  MaxRunners, \* bound: human-like runners in all
  MaxQueue,   \* bound: lines under way in one direction
  None        \* no channel

WdChannels == UNION Targets
HlChannels == UNION Lists
Channels == WdChannels \cup HlChannels
Config == [wd : Targets, on : BOOLEAN, list : Lists]

\* Overlapping lists are a user error by the design of the feature.
ASSUME ActivityAssumption ==
  /\ {} \in Targets /\ WdChannels \cap HlChannels = {}
  /\ IsFiniteSet(Channels) /\ None \notin Channels
  /\ {MaxSets, MaxLosses, MaxKicks, MaxRunners, MaxQueue} \subseteq Nat
  /\ {MayFail, MayRefuse, MayBan, MayRemove} \subseteq BOOLEAN

VARIABLES
  cfg,      \* s.watchdog, s.humanlike
  disk,     \* data/runtime.json
  job,      \* the goroutines inside the code below: a setter, the 001 callback,
            \* RemoveBot
  slot,     \* b.humanlike: a runner or 0
  runners,  \* the runners so far
  up,       \* b.isConnected
  view,     \* b.joinedChannels
  checker,  \* b.channelCheckTicker # nil
  rejoin,   \* channels whose timer after a KICK runs
  gaveUp,   \* b.gaveUp
  link,     \* the connection: up, down (to be made anew) or off (for good)
  out,      \* lines on their way to the server
  in,       \* events on their way to the callbacks
  member,   \* the channels the server has the bot on
  spent     \* setters, losses and KICKs so far

state == <<cfg, disk>>
bot == <<slot, runners, up, view, checker, rejoin, gaveUp>>
net == <<link, out, in, member>>
vars == <<state, job, bot, net, spent>>

Callers == {"set", "welcome", "remove"}
Idle == [pc |-> "idle", on |-> FALSE, running |-> FALSE, runner |-> 0]
Line == [cmd : {"JOIN", "PART", "KICK"}, channel : Channels]
   \cup [cmd : {"001", "465", "closed"}]

TypeOK ==
  /\ cfg \in Config /\ disk \in Config
  /\ job \in [Callers -> [pc : {"idle", "gate", "watchdog", "reset", "look", "act", "take", "wait", "quit", "gone"},
                          on : BOOLEAN, running : BOOLEAN, runner : 0 .. MaxRunners]]
  /\ slot \in 0 .. Len(runners)
  /\ runners \in Seq([pc : {"off", "join", "stay", "done"}, stop : BOOLEAN, joined : HlChannels \cup {None}])
  /\ Len(runners) <= MaxRunners
  /\ up \in BOOLEAN /\ checker \in BOOLEAN /\ gaveUp \in BOOLEAN
  /\ view \subseteq Channels /\ member \subseteq Channels /\ rejoin \subseteq WdChannels
  /\ link \in {"up", "down", "off"}
  /\ out \in Seq(Line) /\ in \in Seq(Line)

Init ==
  /\ cfg \in Config /\ disk = cfg
  /\ job = [c \in Callers |-> Idle]
  /\ slot = 0 /\ runners = <<>>
  /\ up = FALSE /\ view = {} /\ checker = FALSE /\ rejoin = {} /\ gaveUp = FALSE
  /\ link = "down" /\ out = <<>> /\ in = <<>> /\ member = {}
  /\ spent = [set |-> 0, loss |-> 0, kick |-> 0]

\* Lines written to a broken connection are lost.
Sent(cmd, channels) ==
  IF link # "up" THEN out
  ELSE out \o SetToSeq([cmd : {cmd}, channel : channels])
JoinChannels(channels) == out' = IF up THEN Sent("JOIN", channels) ELSE out

-----------------------------------------------------------------------------
(* SetWatchdog and SetHumanlike: change, persist, notify.                  *)

Changed(new) ==
  /\ job["set"].pc = "idle" /\ spent.set < MaxSets
  /\ spent' = [spent EXCEPT !.set = @ + 1]
  /\ cfg' = new
  /\ \/ disk' = new /\ job' = [job EXCEPT !["set"].pc = "gate"]
     \/ MayFail /\ UNCHANGED <<disk, job>>
  /\ UNCHANGED <<bot, net>>

SetWatchdog(targets) == Changed([cfg EXCEPT !.wd = targets])
SetHumanlike(on, list) == Changed([cfg EXCEPT !.on = on, !.list = list])

\* applyRuntimeChange
Gate ==
  /\ job["set"].pc = "gate"
  /\ job' = [job EXCEPT !["set"].pc = IF gaveUp THEN "idle" ELSE "watchdog"]
  /\ UNCHANGED <<state, bot, net, spent>>

\* Mutant: the checker is not started when the watchdog is switched on.
ApplyWatchdogOnce ==
  /\ job["set"].pc = "watchdog"
  /\ job' = [job EXCEPT !["set"].pc = "look", !["set"].on = cfg.on]
  /\ IF up
     THEN checker' = (checker /\ cfg.wd # {}) /\ JoinChannels(cfg.wd \ view)
     ELSE UNCHANGED <<checker, out>>
  /\ UNCHANGED <<state, slot, runners, up, view, rejoin, gaveUp, link, in, member, spent>>

\* applyWatchdogChange
ApplyWatchdog ==
  /\ job["set"].pc = "watchdog"
  /\ job' = [job EXCEPT !["set"].pc = "look", !["set"].on = cfg.on]
  /\ IF up
     THEN checker' = (cfg.wd # {}) /\ JoinChannels(cfg.wd \ view)
     ELSE UNCHANGED <<checker, out>>
  /\ UNCHANGED <<state, slot, runners, up, view, rejoin, gaveUp, link, in, member, spent>>

\* applyHumanlikeChange: the slot is read under one hold of b.mutex ...
Look(c) ==
  /\ job[c].pc = "look"
  /\ job' = [job EXCEPT ![c].pc = "act", ![c].running = slot # 0]
  /\ UNCHANGED <<state, bot, net, spent>>

\* ... and written under another one.
Start(c) ==
  /\ job[c].pc = "act" /\ job[c].on /\ ~job[c].running
  /\ Len(runners) < MaxRunners
  /\ runners' = Append(runners, [pc |-> "off", stop |-> FALSE, joined |-> None])
  /\ slot' = Len(runners) + 1
  /\ job' = [job EXCEPT ![c] = Idle]
  /\ UNCHANGED <<state, up, view, checker, rejoin, gaveUp, net, spent>>

\* The runner of the slot, if any, is told to stop and the caller waits for it.
StopRunner(c) ==
  /\ slot' = 0
  /\ IF slot = 0
     THEN UNCHANGED runners
     ELSE runners' = [runners EXCEPT ![slot].stop = TRUE]
  /\ job' = [job EXCEPT ![c].pc = "wait", ![c].runner = slot]
  /\ UNCHANGED <<state, up, view, checker, rejoin, gaveUp, net, spent>>

Stop(c) == job[c].pc = "act" /\ ~job[c].on /\ job[c].running /\ StopRunner(c)

Keep(c) ==
  /\ job[c].pc = "act" /\ job[c].on = job[c].running
  /\ job' = [job EXCEPT ![c] = Idle]
  /\ UNCHANGED <<state, bot, net, spent>>

\* stopAndPart returns.
Stopped(c) ==
  /\ job[c].pc = "wait"
  /\ job[c].runner # 0 => runners[job[c].runner].pc = "done"
  /\ job' = [job EXCEPT ![c] = IF c = "remove" THEN [Idle EXCEPT !.pc = "quit"] ELSE Idle]
  /\ UNCHANGED <<state, bot, net, spent>>

-----------------------------------------------------------------------------
(* The callbacks.                                                          *)

Receive(cmd) ==
  /\ job["welcome"].pc = "idle"
  /\ in # <<>> /\ Head(in).cmd = cmd
  /\ in' = Tail(in)

\* 001 of a bot that gave up: the connection is stopped for good.
WelcomeGone ==
  /\ Receive("001") /\ ~up /\ gaveUp
  /\ link' = "off" /\ out' = <<>> /\ member' = {}
  /\ UNCHANGED <<state, job, bot, spent>>

\* 001: marked connected first, ...
Welcome ==
  /\ Receive("001") /\ ~up /\ ~gaveUp
  /\ up' = TRUE
  /\ job' = [job EXCEPT !["welcome"].pc = "reset"]
  /\ UNCHANGED <<state, slot, runners, view, checker, rejoin, gaveUp, link, out, member, spent>>

\* Mutant: the channels of the last connection are kept.
ResetNothing ==
  /\ job["welcome"].pc = "reset"
  /\ job' = [job EXCEPT !["welcome"].pc = "watchdog"]
  /\ UNCHANGED <<state, bot, net, spent>>

\* ... then the channels are forgotten, ...
Reset ==
  /\ job["welcome"].pc = "reset"
  /\ view' = {}
  /\ job' = [job EXCEPT !["welcome"].pc = "watchdog"]
  /\ UNCHANGED <<state, slot, runners, up, checker, rejoin, gaveUp, net, spent>>

\* ... then the targets joined; applyHumanlikeChange follows.
WelcomeWatchdog ==
  /\ job["welcome"].pc = "watchdog"
  /\ IF cfg.wd = {} THEN UNCHANGED <<checker, out>>
     ELSE checker' = TRUE /\ JoinChannels(cfg.wd)
  /\ job' = [job EXCEPT !["welcome"].pc = "look", !["welcome"].on = cfg.on]
  /\ UNCHANGED <<state, slot, runners, up, view, rejoin, gaveUp, link, in, member, spent>>

RecvJoin ==
  /\ Receive("JOIN")
  /\ view' = view \cup {Head(in).channel}
  /\ UNCHANGED <<state, job, slot, runners, up, checker, rejoin, gaveUp, link, out, member, spent>>

RecvPart ==
  /\ Receive("PART")
  /\ view' = view \ {Head(in).channel}
  /\ UNCHANGED <<state, job, slot, runners, up, checker, rejoin, gaveUp, link, out, member, spent>>

\* Mutant: the bot rejoins whatever channel it was kicked from.
RecvKickAnywhere ==
  /\ Receive("KICK")
  /\ view' = view \ {Head(in).channel}
  /\ rejoin' = rejoin \cup {Head(in).channel}
  /\ UNCHANGED <<state, job, slot, runners, up, checker, gaveUp, link, out, member, spent>>

RecvKick ==
  /\ Receive("KICK")
  /\ view' = view \ {Head(in).channel}
  /\ rejoin' = IF Head(in).channel \in cfg.wd THEN rejoin \cup {Head(in).channel} ELSE rejoin
  /\ UNCHANGED <<state, job, slot, runners, up, checker, gaveUp, link, out, member, spent>>

\* 465, StopReconnect and handleBanCleanup's Disconnect: the human-like runner
\* is not touched.
RecvBan ==
  /\ Receive("465")
  /\ gaveUp' = TRUE
  /\ link' = "off" /\ out' = <<>> /\ member' = {}
  /\ UNCHANGED <<state, job, slot, runners, up, view, checker, rejoin, spent>>

\* DISCONNECTED
RecvClosed ==
  /\ Receive("closed")
  /\ up' = FALSE
  /\ UNCHANGED <<state, job, slot, runners, view, checker, rejoin, gaveUp, link, out, member, spent>>

-----------------------------------------------------------------------------
(* The timers.                                                             *)

\* checkAndRejoinChannels at a tick, 5 minutes after the last one.
Check ==
  /\ checker /\ up /\ Len(out) < MaxQueue
  /\ JoinChannels(cfg.wd \ view)
  /\ UNCHANGED <<state, job, bot, link, in, member, spent>>

\* Mutant: the watchdog is not asked again after the 30 s.
RejoinBlindly(c) ==
  /\ c \in rejoin
  /\ rejoin' = rejoin \ {c}
  /\ JoinChannels({c})
  /\ UNCHANGED <<state, job, slot, runners, up, view, checker, gaveUp, link, in, member, spent>>

\* 30 s after a KICK.
Rejoin(c) ==
  /\ c \in rejoin
  /\ rejoin' = rejoin \ {c}
  /\ JoinChannels(IF cfg.wd = {} THEN {} ELSE {c})
  /\ UNCHANGED <<state, job, slot, runners, up, view, checker, gaveUp, link, in, member, spent>>

\* humanlikeRunner.run: the off-period is over before a stop and a channel is
\* picked, ...
Pick(r) ==
  /\ runners[r].pc = "off" /\ ~runners[r].stop /\ Len(out) < MaxQueue
  /\ \E c \in cfg.list \ view :
       runners' = [runners EXCEPT ![r].pc = "join", ![r].joined = c]
  /\ UNCHANGED <<state, job, slot, up, view, checker, rejoin, gaveUp, net, spent>>

\* ... joined if the bot is connected, ...
Join(r) ==
  /\ runners[r].pc = "join"
  /\ JoinChannels({runners[r].joined})
  /\ runners' = IF up THEN [runners EXCEPT ![r].pc = "stay"]
                ELSE [runners EXCEPT ![r].pc = "off", ![r].joined = None]
  /\ UNCHANGED <<state, job, slot, up, view, checker, rejoin, gaveUp, link, in, member, spent>>

\* partIfJoined
PartTo(r, next) ==
  LET c == runners[r].joined IN
  /\ runners' = [runners EXCEPT ![r].pc = next, ![r].joined = None]
  /\ IF up /\ c \in view
     THEN out' = Sent("PART", {c}) /\ view' = view \ {c}
     ELSE UNCHANGED <<out, view>>
  /\ UNCHANGED <<state, job, slot, up, checker, rejoin, gaveUp, link, in, member, spent>>

\* ... and parted when the stay is over.
Leave(r) == ~runners[r].stop /\ runners[r].pc = "stay" /\ PartTo(r, "off")

\* Mutant: only a stay is interrupted.
EndStay(r) == runners[r].stop /\ runners[r].pc = "stay" /\ PartTo(r, "done")

\* Either sleep ends when the runner is told to stop.
End(r) == runners[r].stop /\ runners[r].pc \in {"off", "stay"} /\ PartTo(r, "done")

-----------------------------------------------------------------------------
(* RemoveBot and Quit.                                                     *)

RemoveBot ==
  /\ MayRemove /\ job["remove"].pc = "idle"
  /\ gaveUp' = TRUE
  /\ job' = [job EXCEPT !["remove"].pc = "take"]
  /\ UNCHANGED <<state, slot, runners, up, view, checker, rejoin, net, spent>>

Take == job["remove"].pc = "take" /\ StopRunner("remove")

Quit ==
  /\ job["remove"].pc = "quit"
  /\ checker' = FALSE /\ view' = {} /\ up' = FALSE
  /\ link' = "off" /\ out' = <<>> /\ member' = {}
  /\ job' = [job EXCEPT !["remove"].pc = "gone"]
  /\ UNCHANGED <<state, slot, runners, rejoin, gaveUp, in, spent>>

-----------------------------------------------------------------------------
(* The server and the network.                                             *)

Event(cmd, c) == in' = Append(in, [cmd |-> cmd, channel |-> c])

Serve ==
  /\ link = "up" /\ out # <<>>
  /\ out' = Tail(out)
  /\ LET l == Head(out) IN
     IF (l.cmd = "JOIN") = (l.channel \in member) THEN UNCHANGED <<in, member>>
     ELSE /\ member' = IF l.cmd = "JOIN" THEN member \cup {l.channel} ELSE member \ {l.channel}
          /\ Event(l.cmd, l.channel)
  /\ UNCHANGED <<state, job, bot, link, spent>>

Refuse ==
  /\ MayRefuse /\ link = "up" /\ out # <<>> /\ Head(out).cmd = "JOIN"
  /\ out' = Tail(out)
  /\ UNCHANGED <<state, job, bot, link, in, member, spent>>

Kick(c) ==
  /\ link = "up" /\ c \in member /\ spent.kick < MaxKicks
  /\ member' = member \ {c} /\ Event("KICK", c)
  /\ spent' = [spent EXCEPT !.kick = @ + 1]
  /\ UNCHANGED <<state, job, bot, link, out>>

Ban ==
  /\ MayBan /\ link = "up" /\ ~gaveUp
  /\ in' = in \o << [cmd |-> "465"], [cmd |-> "closed"] >>
  /\ link' = "down" /\ out' = <<>> /\ member' = {}
  /\ UNCHANGED <<state, job, bot, spent>>

Lose ==
  /\ link = "up" /\ spent.loss < MaxLosses
  /\ link' = "down" /\ out' = <<>> /\ member' = {}
  /\ in' = Append(in, [cmd |-> "closed"])
  /\ spent' = [spent EXCEPT !.loss = @ + 1]
  /\ UNCHANGED <<state, job, bot>>

\* go-ircevo registers anew, once all callbacks of the old connection ran.
Register ==
  /\ link = "down" /\ in = <<>> /\ job["welcome"].pc = "idle"
  /\ link' = "up" /\ in' = << [cmd |-> "001"] >>
  /\ UNCHANGED <<state, job, bot, out, member, spent>>

-----------------------------------------------------------------------------
Switch(c) == Look(c) \/ Start(c) \/ Stop(c) \/ Keep(c) \/ Stopped(c)
Apply == Gate \/ ApplyWatchdog \/ Switch("set")
Callback ==
  \/ Welcome \/ WelcomeGone \/ Reset \/ WelcomeWatchdog \/ Switch("welcome")
  \/ RecvJoin \/ RecvPart \/ RecvKick \/ RecvBan \/ RecvClosed
Removal == Take \/ Stopped("remove") \/ Quit
Runner(r) == Pick(r) \/ Join(r) \/ Leave(r) \/ End(r)

Next ==
  \/ \E targets \in Targets : SetWatchdog(targets)
  \/ \E on \in BOOLEAN, list \in Lists : SetHumanlike(on, list)
  \/ Apply \/ Callback \/ RemoveBot \/ Removal \/ Check
  \/ \E c \in WdChannels : Rejoin(c)
  \/ \E r \in DOMAIN runners : Runner(r)
  \/ Serve \/ Refuse \/ Ban \/ Lose \/ Register
  \/ \E c \in Channels : Kick(c)

Spec == Init /\ [][Next]_vars

\* Goroutines, timers, the library and the server run on.  The bound on the
\* lines under way does not keep the checker from sending for ever, and a server
\* that is asked again and again for a channel does not refuse for ever.
Fairness ==
  /\ WF_vars(Apply) /\ WF_vars(Callback) /\ WF_vars(Removal)
  /\ SF_vars(Check) /\ WF_vars(Register) /\ WF_vars(Serve)
  /\ \A c \in WdChannels : WF_vars(Rejoin(c)) /\ SF_vars(Serve /\ Head(out) = [cmd |-> "JOIN", channel |-> c])
  /\ \A r \in 1 .. MaxRunners : WF_vars(r \in DOMAIN runners /\ (Join(r) \/ End(r)))
FairSpec == Spec /\ Fairness

-----------------------------------------------------------------------------
(* Properties.                                                             *)

Settled == link = "up" /\ up /\ in = <<>> /\ out = <<>> /\ job["welcome"].pc = "idle"

\* Whatever was joined, parted, kicked or lost, a bot with no line under way
\* has the channels in b.joinedChannels that the server has it on.
ViewInStep == Settled => view = member

\* A disabled watchdog joins nothing: no checker, KICK timer or setter sends a
\* JOIN for one of its channels; only a 001 callback under way still may.
WatchdogQuiet ==
  [][cfg.wd = {} /\ job["welcome"].pc # "watchdog" =>
     \A c \in WdChannels :
       [cmd |-> "JOIN", channel |-> c] \in ToSet(out') => [cmd |-> "JOIN", channel |-> c] \in ToSet(out)]_vars

\* A bot that stays connected is brought back again and again to a channel that
\* stays a target, however the setters and the 001 callback met.
WatchdogKeeps ==
  \A c \in WdChannels :
    <>[](c \in cfg.wd /\ link = "up" /\ ~gaveUp) => []<>(c \in member)

\* Every setter, 001 callback and removal returns: none waits for ever for a
\* runner to stop.
CallsReturn == \A c \in Callers : job[c].pc # "idle" ~> job[c].pc \in {"idle", "gone"}

\* design of the feature: "A bot has at most one runner."
OneRunner == Cardinality({r \in DOMAIN runners : ~runners[r].stop}) <= 1

\* panel guide: after the feature is turned off "The bot will not be left
\* holding a channel."
NotLeftHolding ==
  Settled /\ ~cfg.on /\ job["set"].pc = "idle" /\ (\A r \in DOMAIN runners : runners[r].pc = "done")
  => member \cap HlChannels = {}

\* design of the feature: a runner stops when the bot "is being removed".
RemovedRunnerStops ==
  gaveUp /\ link = "off" /\ job["remove"].pc \in {"idle", "gone"} /\ in = <<>>
  => \A r \in DOMAIN runners : runners[r].stop

\* state.go: "persistence and observer notification are kept in lockstep".
Lockstep == job["set"].pc = "idle" => cfg = disk

\* panel guide: with an override "The configured channels are not auto-joined
\* and not auto-rejoined": a KICK timer joins a current target only.
RejoinsTarget ==
  [][\A c \in WdChannels : c \in rejoin /\ c \notin rejoin' /\ out' # out => c \in cfg.wd]_vars
=============================================================================
