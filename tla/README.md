# A TLA+ development of gNb

gNb runs a fleet of IRC bots in one Go process.  The bots watch a list of
nicks and take those that become free; owners steer them from IRC, over DCC
chats and, since the panel API, over WebSockets.  Almost everything happens in
goroutines that share a few maps and flags: one reading loop per IRC
connection, one goroutine per callback of an event, per ISON poll, per nick
attempt, per WebSocket session and subscription, per DCC chat, and timers.  The
library, go-ircevo, starts the callbacks of one event side by side
(`bot.go:1350-1356`) and its reading loop waits for them, but for no longer than
`CallbackTimeout`, 30 s (`bot.go:334-336`): then the callbacks of later lines overlap
with one that is held up.  This directory holds
models of the parts of that program where the order of steps matters, the
TLC configurations that check them, and proofs.

Contents: [the system](#the-system) · [the modules](#the-modules) ·
[the runs](#the-runs) · [fairness](#fairness) · [the proofs](#the-proofs) ·
[where code and documents differ](#where-code-and-documents-differ) ·
[what is left out](#what-is-left-out) · [plan](#plan)

Run TLC with `tlc -config X.cfg M`, where `M` is the module that `PROJECT.json` names for
the configuration, and the proofs with `tlapm M.tla`, where `M` ends in `Proofs`.

## The system

| component (source) | state | operations | talks to |
|---|---|---|---|
| NickManager, assignment (`nickmanager.go` 250-367, 494-559) | `tempUnavailableNicks`, `NoLettersServers`, `bots` | `handleISONResponse`, `ReturnNickToPool`, `NotifyNickChange` | spawns `AttemptNickChange` of the bots |
| NickManager, polling (83-108, 151-248) | `connectedBots`, `botIndex` | `monitorNicks`, `updateConnectedBots`, `RegisterBot`, `UnregisterBot` | `RequestISON` of one bot per second |
| NickManager, lists (110-137, 369-457) | `priorityNicks`, `nicksToCatch`, `data/nicks.json` | `LoadNicks`, `AddNick`, `RemoveNick` | `nicks.changed` |
| Bot, nick changing (`bot.go` 655-748, 960-1087, 1297-1428) | `CurrentNick`, `nickChangeBusy`, `isonInFlight`, `isonRequests` | `RequestISON`, `AttemptNickChange`, `ChangeNick`; callbacks NICK, 303, 432, 433, 436, 437 | NickManager, the server |
| Bot, channels (`bot.go` 543-647, 785-952, 1089-1175; `humanlike.go`) | `joinedChannels`, `channelCheckTicker`, `humanlike` | 001, JOIN, PART, KICK, 465; checker, KICK timer, runner | the runtime switches |
| RuntimeState (`runtime/state.go`) | the two switches, `data/runtime.json` | `SetWatchdog`, `SetHumanlike`, `OnChange` | `applyRuntimeChange` of every bot |
| Bot and BotManager, connections (`bot.go` 213-416, 543-584, 856-952, 1177-1283; `manager.go` 194-450) | `Connection`, `isConnected`, `gaveUp`, `isReconnecting`, `tmhcInProgress`, `bm.bots` | `StartBots`, `Connect`, `Reconnect`, the TMHC back-off, `Quit`, `RemoveBot`, the clean-up, the liveness watchdog | the library, NickManager |
| BotManager, owners (468-537) | `bm.owners`, `configs/owners.json` | `AddOwner`, `RemoveOwner` | `SetOwnerList`, `owners.changed` |
| BotManager, reactions and mass commands (453-466, 576-666) | `reactionRequests`, `errorHandled`, cooldowns | `CollectReactions`, `CanExecuteMassCommand` | nicks, owners, all bots |
| Commands (`bot/commands.go`, `dcc/dcc_cmd.go`), API handlers (`api/handlers_*.go`) | none of their own | `!addnick`, `.addowner`, `nicks.add`, ... | reactions or the operations themselves |
| EventHub (`api/events.go`) | `seq`, ring buffer, subscribers | `Publish`, `Subscribe`, `Unsubscribe`, `Replay` | sessions |
| Session, server (`api/session.go`, `server.go`) | outbound queue, subscription, login | `send`, the loops, `close` | everything above |
| AttachManager (`api/attach.go`, `sink.go`) | who watches which bot | `Attach`, `Detach`, `DetachAll`, `Publish` | sessions, each line of a bot |
| DCC tunnels, party line (`dcc/dcc_tunnel.go`, `bot.go` 485-533, 756-769, 1507-1586) | `active`, `sessions`, `messageLog`, `b.dccTunnel` | `Start`, `Stop`, `WriteToConn`, `broadcast` | one another, the bots |
| BNC tunnels (`bnc/`, `bot.go` 1458-1486) | `bncServer`, `tunnel`, `stopChan` | `StartBNC`, `StopBNC`, `listen`, `Stop`, the loops | an SSH client, each line of a bot |

What is hard about each, and what makes it correct:

- **Assignment.**  Two replies are handled at the same time, and each handler
  gives the mutex up between reading the lock map and assigning.  A target must
  not be offered twice, a back-off must last, and yet no lock, busy flag or
  in-flight flag may stop the fleet: a free target is caught in the end.
- **A bot's own nick.**  Two NICK commands may be under way; self-NICK lines
  must be applied without a gap, or the bot refuses all later ones.
- **Lists and owners.**  Slices share arrays; snapshots leave the mutex before
  they are written, handed out or announced.
- **Event stream.**  Number, ring and fan-out of an event are three steps under
  no common lock; queues overflow; a session ends while its pumps run.
- **Channels.**  Switches are set while a 001 callback, the checker, a KICK
  timer, a runner, a ban or a removal is under way; connections are lost.
- **DCC.**  b.mutex, a tunnel's mutex and the readers-writer lock of the party
  line are taken in different orders.
- **Connections.**  `StartBots`, `Reconnect` and the back-off open connections,
  the library reopens them by itself, four places remove a bot; callbacks of an
  old connection change the same Bot as those of the current one.  One
  connection at a time, none after the bot gave up, and a flag that says so.
- **Polling.**  The list of polled bots is computed under no lock and assigned
  later, while bots leave; a reply may come after its timeout.  Each bot must be
  asked again and again, and a removed one not at all.
- **Commands.**  Every bot hears a command in a channel; one must obey, in the
  order of the commands, although each bot reads at its own pace.
- **Lines of a bot.**  The reading loop and the senders write to an SSH client
  and to the panels themselves.  A client that does not read must be got rid of,
  and a panel that is attached must miss nothing.

`PROJECT.json` lists the single hazards at their lines.

## The modules

Every module declares its parameters as constants with named assumptions, its
type invariant as `TypeOK`, and one action per step that the code takes without
giving up the mutex or the goroutine it runs in.  An operator whose comment
says *Mutant* is a faulty variant of the definition below it; no specification
uses it.  It replaces that definition to see that a property notices.
`MC...` modules only name model values and small data; EventHub and ChannelActivity
need none and are checked as they are.  A module `...Proofs` extends the module it is
about.

### NickCatch

NickManager's lock map and response handlers, the nick side of the bots and the
server between them.

| variables | code |
|---|---|
| `roster`, `lock`, `noLetters` | `nm.bots`, `tempUnavailableNicks` (time left per key, in ticks), `NoLettersServers` |
| `hnd` | the local variables of `handleISONResponse` in the goroutine that polled a bot |
| `pending`, `run` | spawned `AttemptNickChange` goroutines, and the one that holds `nickChangeBusy` |
| `cur`, `lib`, `up`, `polling` | `CurrentNick`, the library's own idea of the nick, `isConnected`, `isonInFlight` |
| `told`, `leaving` | a callback between its nick update and `NotifyNickChange`; `RemoveBotFromManager` |
| `held`, `foreign`, `penal`, `out`, `in` | the server and the two directions of a connection |

`Begin`, `FilterPriority`, `FilterSecondary`, `Purge`, `Assign` are the stretches of
`handleISONResponse` between two holds of `nm.mutex`; `Attempt`, `SendNick`,
`GiveBack` those of `AttemptNickChange`; `Recv...` the callbacks.  `Poll` and
`RecvIson` are `RequestISON` without its timeout.  DISCONNECTED (`RecvClosed`) marks the
bot as disconnected and takes over the library's nick; that a bot gives up and is
removed (`RemoveBotFromManager`, `ReturnDead`, `Unregister`) is a matter of its own,
which may happen to a bot that is down.  A callback here waits for no more than a
mutex, so none overruns its 30 s.  Nicks are model values; the maps `Lower` and
`OneChar` stand for `strings.ToLower` and `len(n) = 1`.

### Slices, NickList, OwnerList, OwnerCommands

`Slices` is Go's `append` and in-place deletion over an explicit heap of
backing arrays.  In `NickList` the lists `priorityNicks` and `nicksToCatch` are
two slices of that heap, which the JSON decoder may leave room behind;
`AddNick` and `RemoveNick` change both and save under the mutex (`Save`, which
may fail), and announce afterwards (`NicksChanged`); `mirror` is a panel that
takes over each announced list.  In `OwnerList` the steps of `persistOwners`
(truncate, write, one bot after the other, announce) follow the edit outside
the mutex; a bot looks at `bm.owners`' own array until it is first handed a
snapshot.  Both have a `Restart`, which decodes what is on disk.

`OwnerCommands` composes the two.  It instantiates them (`NL`, `OL`) with its
own threads as editors and calls their actions from the steps of its own:

| variables | code |
|---|---|
| `play` | the bounds of a behaviour |
| `said`, `heard` | the commands in a channel, and how far each bot's reading loop is |
| `calls` | what chats and clients of the API have asked for, and restarts |
| `pc`, `doing`, `holder` | where a thread is in `CollectReactions`, and `reactionMutex` |
| `recent`, `stale`, `timers`, `errorHandled` | `reactionRequests` and the goroutines that remove its entries |
| `cooling`, `massed` | `massCommandCooldowns`; how often one was executed (history) |
| `applied` | history: the commands of the channel that succeeded |
| `late` | history: those that a bot had not done with when the next was said or their entry ran out |
| `crossed` | history: the lists whose last edit crossed another one, one of the two by a client of the API |

`Hear` is `HandleCommands` of one bot; `Ignore`, `Collect`, `Act`, `Release`, `Succeed`
and `Fail` are the body of `CollectReactions`, which holds the mutex across the
action it was given; `Age` and `Cleanup` are its clock and its timer.  A private chat
is heard by one bot, its `Peer`: in a private message (`Queries`) a mass command asks
for the cooldown and is executed without `CollectReactions` (`commands.go:83,152`), in
a DCC chat it is collected and does not ask (`dcc_cmd.go:203-257`).  The key of a reaction
is the channel or the nick of that bot, and the text of the answer; the two lists are
their own answers and have none.  A client of the API goes straight to the action
(`CallNicks`, `CallOwners`, `CallMass`), whatever is under way.  The cooldown of a mass
command is taken to be longer than its execution.
`Restart` is the whole process: the files remain.

### Fleet

The connections of one bot and its place in the fleet.  Other bots matter only
as the time that `StartBots` takes after this one is done.

| variables | code |
|---|---|
| `cur`, `link`, `latched`, `looping`, `bye`, `inbox` | `b.Connection`; of each connection object: its socket, the library's quit flag, its `Loop`, QUIT sent, events whose callbacks have not run |
| `isConnected` ... `isReconnecting` | the flags of the same names |
| `closed`, `waiting`, `released` | `b.connected`, which 001 closes and `connectWithRetry` waits for |
| `pc`, `at`, `tries` | the three goroutines that open connections: `startBotWithRetry`, `Reconnect`, `handleTMHCBackoff` |
| `listed`, `kept`, `settled`, `cleanup` | `bm.bots`, the local list of `StartBots`, `cleanupDisconnectedBots` |
| `ban`, `quitting`, `closing`, `killing` | `handleBanCleanup`, `Quit`, `go conn.Disconnect()`, `forceDisconnect` |
| `alive` | `lastEventAt` and `wdProbeAt` against the clock |
| `left` | the bounds of a behaviour: which troubles, how many, how many rounds and retries |
| `crowded` | history: an opener began while another was at work |
| `misled` | history: a 001 was passed over because `isConnected` was set for another connection |
| `speaker` | history: the connection about which `isConnected` was last set |

`Open`, `DialDone`, `DialFails`, `Connected`, `Timeout`, `Exhausted` are
`connectWithRetry`, whoever runs it; `Recv001`, `RecvBan`, `RecvError`,
`RecvDisconnected` the callbacks, each of the connection it belongs to;
`LoopReconnect` the library's own reconnection; `Sweep` and `Kill` the liveness
watchdog.

### Ison, NickRegister

`Ison` is the monitor (`Tick`, `UpdateLook`, `UpdateAssign`), the removal of a
bot (`Unregister`, `Unpoll`), and `RequestISON` with its table of
waiting requests: `req` says whether a bot has none, waits, or was answered by
its own reply or by a late one.  `hist` is the list of nicks a bot has had from
the server, `cur` and `lib` are the positions in it of what the bot and the library
believe.  A `Rename` may arrive with or without a NICK line that the bot
understands; `RecvIson` is the addressee of a 303, by which
`reconcileSelfNickFromISON` heals what was missed.

`NickRegister` is what a bot promises about its nick: while it is online, what
it knows never goes back (`Stays`), the server's list only grows, and every
entry of it is learned in the end (`Hears`).  `Ison` implements it with
`history <- hist`, `known <- cur` and `online` the bots that are connected and not
being removed; the property `FollowsServer` is its whole specification, safety
and liveness.

### Traffic

Where a line of a bot goes besides the callbacks.  The goroutines of the callback `*`
(`Callbacks`), whoever calls `SendRaw` (`Senders`) and the handlers of the panels'
requests run `Forward`, `Written`, `Look`, `Publish`, `Published`: the write to the SSH
client first, then the snapshot of the attached sessions, then each session's queue.
The reading loop starts the next callback (`Read`) when the last one has returned, or
when it has waited for 30 s (`Overruns`): that long only a write to a client that does
not read can take.  So several lines may be on their way at a time, in any order.

| variables | code |
|---|---|
| `bnc`, `phase`, `stopped`, `tunnel` | `b.bncServer`; of each server: how far `listen` is, `stopChan`, `BNCServer.tunnel` |
| `link`, `reading`, `stalled` | the SSH connections, the goroutines in `readFromConn`, the clients that do not read |
| `call` | the step of a `StartBNC` or `StopBNC`: the latter is `StopChan`, `CloseListener`, `CloseServer`, `StopTunnel`, `Stopped` |
| `rushed` | history: the servers started while another call was under way, or stopped before they listened |
| `src`, `late`, `done` | a source with the line it has in hand; the callbacks not waited for any more; how many events it has published |
| `sess`, `open`, `attached`, `tracked`, `queued` | a session's handler, its WebSocket, `AttachManager.subs`, the session's own list, its queue |
| `sent`, `from` | history: what was queued for a session, and the first event it may expect |

A session's handler runs one request at a time (`readerLoop`): `Attach` and `Detach`,
`Raw`, which is any request that calls `SendRaw` and stays in it as long as an SSH client
does not read, and `Quit`, which may wait for `b.mutex` for ever.

### EventHub

`Number`, `Store`, `FanOut` are the three steps of `Publish`.  `Subscribe`, `Open`,
`Replay`, `Flush`, `Answer` are those of the handler of `events.subscribe`;
`PumpTake`, `PumpSend`, `PumpEnd` the goroutine of `startSubPump`; `Deliver` the
writer loop; `Close` the end of the reader loop.  `Session.send` (`Send`) closes the
connection when the outbound queue is full.  `due`, `dropped`, `replayed`, `log`
and `got` are history.

### ChannelActivity

One bot under both runtime switches.  `job` holds the three goroutines inside
the code at hand: a setter (`SetWatchdog` or `SetHumanlike`: all setters are
one process because `setMu` is held throughout), the 001 callback, and
`RemoveBot`.  `Look`, `Start`, `Stop`, `Keep`, `Stopped` are `applyHumanlikeChange`,
which the setter and the callback both run; `runners` are the goroutines of
`humanlikeRunner.run`, `slot` is `b.humanlike`.  `view` is what the bot believes
(`joinedChannels`), `member` what the server knows.

### PartyLine

Who waits for which mutex: `bmu` (`b.mutex`), `tmu` (`dt.mu`), `readers` and
`writers` of `pl.mutex`, in which a waiting writer keeps new readers out as
`sync.RWMutex` does.  Every goroutine (the reading loop of a tunnel, the
callbacks of a bot, `Quit`) has a `frame` that says where in `Start`, `broadcast`
or `Stop` it is; the calls of one goroutine nest, so one frame suffices.
`GetCurrentNick`, in the request, the greeting, the lines of the owner and the
broadcast, waits for `b.mutex` (`Named`).  A callback that is held up for longer than
30 s, and the callbacks that then overtake it, are left out here.

### How the modules meet

`OwnerCommands` is a composition in one state space.  Elsewhere a module takes as
a parameter or as an environment step what another one establishes:

- NickCatch takes the polled bots and the lists of nicks as constants.  That every
  online bot is polled is `AskedAgain` of Ison; that both lists agree is
  `CombinedLists` of NickList.  Its `NickChain` speaks of the same `CurrentNick` as
  `FollowsServer`: NickCatch has the NICK lines in detail and no lost ones, Ison
  has the lost ones and their cure.
- ChannelActivity, Ison and NickCatch take the ups and downs of a connection as
  environment steps, in the order in which Fleet produces them: 001, lines, one
  DISCONNECTED.
- EventHub and Traffic share the session: its queue, the end of it when the queue
  is full, and the order in which its handler and its writer end.

## The runs

| run | states | what it shows |
|---|---|---|
| `NickCatch` | 654 000 | `TypeOK`; `NickChain`: the self-NICK lines a bot has not read lead from the nick it believes in to the one it has; `OneOfferPerStep`: one nick to a bot, and a nick to no more bots than the list names it |
| `NickCatchLive` | 139 000 | `FreeTargetCaught`: a free target does not stay free while a bot could bear it |
| `Ison` | 82 000 | `FollowsServer`: the bots implement NickRegister; `AskedAgain`: who stays is polled for ever; `RemovedForgotten`: who was removed is not |
| `Fleet` | 319 000 | `OneConnection`: who opens a connection has stopped the one before, unless two opened at a time; `NeverNil`, likewise; `InStep`: with nothing under way `isConnected` is the truth, unless a callback of an older connection set it last; `CorpseStops`: a bot that gave up ends without connections, with the same two exceptions; `WedgeNoticed`: a silent connection is torn down; `StartResolves`: `StartBots` ends |
| `Activity` | 4 750 000 | `ViewInStep`: with nothing under way, the bot knows its channels; `WatchdogQuiet`: a disabled watchdog joins nothing |
| `ActivityLive` | 96 000 | `WatchdogKeeps`: a bot that stays connected is brought back to its targets; `CallsReturn`: nobody waits for ever for a runner |
| `OwnerCommands` | 484 000 | `CombinedLists`: both lists of nicks agree as multisets, if the decoder left fewer spare slots than there are letters; `PanelInStep`: the announced list is the saved one, `OwnersOnDisk`, `BotsInStep`: after a successful call file and bots have the owners in force, unless the last edit crossed one of the API; `AppliedInOrder`: a command succeeds once, none after a later one, unless a bot lagged behind; `MassOnce`: one mass command per cooldown; `ErrorsToldAgain` |
| `OwnerCommandsLists` | violation | `OnlyDuplicatesIgnored` |
| `EventHub` | 553 000 | `LiveAccounted`: an offered event is in one place or counted as dropped; `NoGap`: replay and live stream join; `PumpsEnd` |
| `Traffic` | 164 000 | `NoOrphan`: a BNC server that listens can be stopped, unless it was started or stopped in a rush; `OneClient`: one client is heard at a time; `StopFrees`: `StopBNC` frees who is stuck in a write; `NoneMissed`: a panel gets every event from its attach on; `Forgotten`: a session that ended is not attached, unless its last request never returns |
| `PartyLine` | 109 000 | `AliveListed`: a live chat is on the party line; `StopReturns`: a Stop returns, unless a broadcast and a Quit wait for each other for ever |
| `PartyLineStuck` | violation | `QuitReturns` |

Where a property has an exception, the exception is a failure of the code, the run
includes it, and the same property without the exception is violated (see
[below](#where-code-and-documents-differ)).  The exceptions are stated with history
variables, which no guard reads.

Bounds, all named in the modules, and why they are enough:

- *NickCatch*: two bots, because every race is between two handlers, two
  attempts or two bots for one target; one target and one letter, which the list
  names twice, one server that refuses each, one penalty, one foreign user who takes a target back, a
  breaking connection; a lock lasts one tick and a back-off two, the least that
  tells them apart; two polls, so that two handlers overlap.  In
  `NickCatchLive` polls are unbounded, since the property is about what polling
  achieves; `MaxQueue` (answers not yet read) and `MaxPending` (identical
  attempts) only merge what cannot be told apart.
- *Ison*: two bots, since the round robin goes wrong between one that is asked and
  one that leaves; any two of a rename, a slow reply, a lost connection and a
  removal; at most three nicks per bot, so that one can be missed twice.
- *Fleet*: five mixtures of troubles (`Ordinary` in MCFleet).  Any two different ones
  but a rejection, with two retries; any two different ones but a Reconnect, with one; two
  rejections, the back-off being used up; a Reconnect in the middle of the start and a
  server that is slow to register; a second round of the start with one trouble.  A
  slow server is among the troubles of all but the third.  Three connection objects, which
  are reused when nothing runs on them any more.
- *OwnerCommands*: two bots, a query and a DCC chat with the first, one client; six plays
  (`MCPlays` in MCOwnerCommands): two commands in the channel; one, and a call, a chat or a
  restart; two of these; three about nicks; three about owners; a command in the channel
  and two more, with mass commands.  Two nicks and two letters (for 26); one or two spare
  slots behind the decoded list of nicks, so that `append` does or does not allocate.
  `OwnerCommandsLong`, to be run by hand, is one bot with four commands about nicks in the
  channel and one more, for the lists over a longer time.
- *Traffic*: seven mixtures of what may happen (`MCBudgets`): the BNC alone, panels alone
  and both together, with one or two callers of `StartBNC` and `StopBNC`, who may call at
  any time.  A line is two events, the raw line and what is made of it.  Two callbacks, so
  that one overtakes the other; two servers, so that one is started while the first
  ends; two clients, so that one replaces the other; queues of two.
- *EventHub*: a ring of two and three events, so that the ring overflows and a
  replay of one must choose; queues of one and two, so that both limits are
  reached; two requests, so that a subscription is replaced or ended.
- *Activity*: one setter call, one lost connection, one KICK, from any initial
  switches.  The races are between one change and one event.  Runners are
  bounded by the setters and 001 callbacks that may start one.
- *PartyLine*: two chats of two bots, both of whose owners talk while one of the bots
  quits; a third chat only lengthens the queues for the locks.

`CHECK_DEADLOCK FALSE` stands where the bounds let everything come to rest;
that somebody waits for ever is asked by `CallsReturn`, `StopReturns`,
`PumpsEnd`, `StartResolves` and `StopFrees` instead.

## Fairness

- *NickCatch*: weak fairness of every goroutine step, callback, server answer
  and of the clock: Go's scheduler starves no runnable goroutine, ISON is
  polled every second.  Other users, refusals, broken connections and removals owe
  nothing.
- *Ison*: weak fairness of the goroutines, callbacks and timeouts and of a server
  that has commands to answer; strong fairness of the tick, because Go's `select`
  picks among ready channels at random and so does not pass over the ticker for
  ever.  That a request times out before its reply came is no obligation.
- *Fleet*: weak fairness of every goroutine, callback and timer, of the library's
  loop, and of a server that was sent a registration or a QUIT.  Troubles owe
  nothing; time passes while a connection is silent.
- *OwnerCommands*: weak fairness of the reading loops, of each thread and of the
  clock, which may be faster than a reading loop.  Owners, clients and the end of a
  cooldown owe nothing.
- *EventHub*: weak fairness of the handler, of each pump and of a publication
  under way.  The client and the writer loop owe nothing.
- *Traffic*: weak fairness of calls, of `listen`, of the handlers of clients and
  sessions and of a source that has a line in hand.  A client need not read nor
  leave, a panel need not read nor hang up, and a handler in `Quit` need not return.
- *ChannelActivity*: weak fairness of setters, callbacks, removal, timers,
  reconnection, the server and of a runner that has been told to stop; strong
  fairness of the checker, only because the bound on lines under way may
  disable it again and again, and of the server's accepting a JOIN, the
  environment assumption without which no client can promise to be in a
  channel.
- *PartyLine*: strong fairness of each goroutine inside `Start`, `broadcast` and
  `Stop`: Go's mutexes hand over to a goroutine that has waited for more than a
  millisecond, and a write to a client ends at its deadline.

## The proofs

`NickCatchProofs` proves, for every fleet, list of nicks, set of servers and
pair of lock durations that satisfies the assumptions of NickCatch:

- `TypeCorrect == Spec => []TypeOK`.  `TypeOK` is inductive by itself; the proof
  has one step per action and lemmas for what the actions share (an update of a
  function, a reply that joins a queue, a nick given back to the pool).
- `NickChainHolds == Spec => []NickChain`.  The invariant says of each bot that
  the self-NICK lines in its input queue form a chain: the first starts at the
  nick the bot believes in, each starts where the one before it ended, and the
  last ends at the nick the server has.  It is inductive together with
  `TypeOK`.  The argument is about queues: taking a line that is no self-NICK
  line leaves a chain a chain (`LeadsTailOther`), taking a self-NICK line moves
  its start (`LeadsTailNick`, which also says that `tryAcceptSelfNickChange`
  accepts it), and a line the server appends either is no self-NICK line
  (`LeadsAppendOther`) or starts at the nick the server has
  (`LeadsAppendNick`).  The chain is stated with quantifiers over positions and
  not by recursion, so that the lemmas are first-order.
- `OneOffer == Spec => OneOfferPerStep`.  The assignment loops pop the list as the bots
  come: `Reached` gives the position each bot has come to, as a recursive function.
  That it is one (`ReachedWalks`) and that each bot that takes a nick stands further on
  than the bots before it (`ReachedGoesOn`) is shown by a smallest counterexample, with
  `Least`.  So each bot has a place of its own in the list (`AssignmentFits`).  Of the nicks
  nothing is assumed: `AddNick` compares exactly (`nickmanager.go:379-383`) while the locks
  are lower case, and nicks.json may name a letter.  Then the list holds a nick twice,
  and one step may send two bots for it, as the run shows, but no third one.

`NickChainHolds` uses `SameNick`, that the library has the same nick as the bot, so that
`markAsDisconnected` changes none.

Used as assumptions: `CrewAssumption`, `OnceAssumption` (`SetBots` hands over every bot
once; only `OneOffer` needs it), `NicksAssumption`, `TimeAssumption`,
`BoundAssumption` and `PenaltyAssumption` of NickCatch, all evaluated by TLC in
the runs.  The bounds are arbitrary numbers in the proof.

`IsonProofs` proves, for all bots and nicks:

- `FollowsSafely == Spec => Register!Safety`, the safety part of the refinement of
  NickRegister.  The argument is `Ahead`: the lines on a bot's wire speak of
  positions in the server's list that never decrease along the wire, and none
  lies before what the bot or the library knows.  So whichever callback takes the
  first line moves the bot forward (`TailAhead`), and what the server appends is
  about its newest nick (`AppendAhead`); only markAsDisconnected goes back to the
  library's nick, and then the bot is not online.  `Ahead` is needed because
  `Stays` alone says nothing about lines that are still to come.
- `NickKnown == Spec => []...Ahead...`, the same invariant as a fact of its own.
- `TypeCorrect`.  What is not plain in it is `botIndex`: it is counted modulo the
  length of a list that is replaced afterwards, and it stays below the number of bots
  because no list ever holds a bot twice (`PollInv`, `RosterBound`).  `KeptFacts` says
  what the loops of `updateConnectedBots` and `UnregisterBot` copy: the bots that are
  kept, no others, none twice.  `Kept` is a recursive function, so the fact goes by
  the smallest counterexample (`Least`, `LoopExists`, `CopyStep`).
- `StaysForgotten`, the safety part of `RemovedForgotten`: once `UnregisterBot` is
  through with a bot and the update on its way does not list it, it is never polled
  again.  It needs that a bot that is leaving is not in `bots`, the list from which
  the next update is made.  That such an update comes is left to TLC.

The first two do not use the bounds `MaxChanges` and `MaxTroubles`, nor anything
about polling: the requests and timeouts only decide which replies are `own`.

`OwnerCommandsProofs` is about OwnerCommands with NickList and OwnerList inside, for
any bots, chats, clients, lists, commands, failures of a write and growth of a slice.
All results are about every behaviour of the specification:

- `TypeCorrect`.  That every slice stays within its array and shows no empty slot
  needs what `Slices` does to the other slices of a heap: `AppendFacts` and
  `DeleteFacts`, which say what an append or a deletion leaves of each of them.
- `OneReaction`: the bots and the chats exclude one another from the action of a
  command to its answer.  The invariant `Locked` says that who is at work holds
  `reactionMutex`, that clients of the API never do, and which announcement or
  `persistOwners` belongs to which thread.
- `MassOnceHolds == Spec => []MassOnce`.  The invariant `Rationed` follows the permission:
  who may execute a mass command is the only one, the cooldown runs, and nobody has
  executed one yet.
- `PanelFollows`, `OwnersReachDisk` and `OwnersReachBots`, of the properties with their
  exception, an edit that crossed one of the API.  The invariants say that of the threads
  that edit a list without having been crossed there is one at a time, that what it has
  yet to announce is what is in the file, and how far each step of `persistOwners` has
  brought file and bots.  `crossed` is cleared by an edit that finds nobody else at
  work: the theorems say that such an edit puts the lists in step again.
- `InOrderHolds`: a command of the channel that succeeded, and that no bot is late with, has its
  entry until all bots have passed over it, so that nobody acts on it again.
- `ListsAgree`: with fewer spare slots than there are letters `append` gives `nicksToCatch`
  an array of its own (`Apart`), and this from one restart to the next, whatever the
  decoder leaves each time.  The rest is counting: adding a nick adds one to its
  occurrences in both lists, removing one takes one from each.

The runs by hand `OwnerCommandsApi`, `OwnerCommandsLag` and `OwnerCommandsRoom` are the
counterexamples to the same properties without their exceptions.

`EventHubProofs`, for any publishers, subscriptions, topics and sizes: `TypeCorrect`;
`LiveAccountedHolds`, which counts events and therefore needs that an event is offered to
a subscription once (`Offered`), because its number is given once (`Numbered`);
`NoGapHolds`, which is about the ring at the moment of the replay and needs that the ring
is the end of the log, in which every event is found once (`Logged`).  `Least`, the
well-ordering of the natural numbers, does the work of an induction.

`TrafficProofs`, for any servers, callers, callbacks, senders, clients, panels and queue
lengths: `TypeCorrect`; `OneClientHolds`, with `ReadersLetIn` (nobody reads from a client
before it was let in, so that no reader of an older tunnel speaks for a newer one);
`NoneMissedHolds`, by `Streams` (of each source, what was queued for an attached session is
complete up to the event in hand, which is yet to be sent to it, or queued, or older than
its attach); and `NoOrphanHolds`, by an invariant about the servers that are not in
`rushed`: of each of them, the call that started it is the only one under way until it is
noted, and it listens before a call stops it.  `TrafficTwice` has the counterexample for
the others.

`PartyLineProofs`, for any bots, tunnels, owners and quitters: `TypeCorrect` and
`AliveListedHolds`.  `Fits` says of one goroutine that whoever holds a tunnel's mutex is in
`Stop`, with the tunnel inactive meanwhile, and that a tunnel is started once, by the
callback of its own bot, before anybody reads from it.

`ChannelActivityProofs`, for any channels, settings, runners, losses and KICKs:
`TypeCorrect`; `ViewInStepHolds`, strengthened by the lines under way: what the bot believes
becomes what the server knows when they have been read, in their order; and
`WatchdogQuietHolds`, an action property.

`FleetProofs`, for any connections, retries, rounds, back-offs and troubles: `TypeCorrect`,
`OneConnectionHolds`, `InStepHolds` and `NeverNilHolds`, of the properties with their
exceptions, which the runs `FleetOrphan` and `FleetStale` show to be needed: when two open
connections at a time, one of them is nobody's, and `Reconnect` sets to nil what the other
is about to use; when a connection is given up while its server is slow to register, its
DISCONNECTED clears the flag of its successor.

`OneConnection` speaks of connections that are not b.Connection any more, so it depends on
what each opener has done to b.Connection before it opens another one.  While openers have
not met, `Single` says that one is at work at a time, that what it dials is b.Connection
and new (`Dialing`), that it has latched the last connection before it opens the next
(`Spent`), and that every other connection is latched: `SingleAlways` is the invariant, and
both `OneConnectionHolds` and `NeverNilHolds` follow from it.  For `InStep`, `Wires` says which
events a connection can still have for its callbacks, given its state, `Dialed` that one
opener dials a connection of which nothing is known yet, and `Told` connects isConnected,
the link and the events still to come, as long as the callbacks of b.Connection were the
last to speak.  The lemmas go by what can happen to one connection (`MoveWires`,
`ToldMove`), and then by action.

Assumed throughout: the named assumptions of the module (types of the constants and
nothing about their sizes, but that lists fit their bounds), which TLC evaluates in the
runs, and the well-foundedness, sequence and finite-set theorems of the library.

Only model-checked: that a bot that stays online hears of every change (`Hears`), and
all other liveness, since ENABLED and fairness are out of the prover's reach.

## Where code and documents differ

Two runs are counterexamples (details with quotations in `PROJECT.json`):

- `PartyLineStuck`: `Quit` and a message on the party line may wait for each
  other's mutex for ever.
- `OwnerCommandsLists`: `!listnicks` and `!listowners` answer for themselves and
  therefore have the same empty text as key, so that "Ignore duplicates within 5
  seconds" (manager.go:580-588) ignores the second of two different commands.

The same modules with other constants show further ones.  They are kept as
configurations, to be run by hand, and each ends with a counterexample:

| configuration | property | what the code says | what happens |
|---|---|---|---|
| `NickCatchBackoff` | `BackoffHonoured` | nickmanager.go:56 "Blokuje retry tego targetu na 60 s" | a handler with an older copy of the map shortens or deletes the back-off (304, 325, 519) |
| `NickCatchLetters` | `FreeTargetCaught` | nickmanager.go:291 skips letters for servers without them | the letter is popped before the test (294-300) and lost to the bots behind |
| `NickCatchBackoff` | `InflightLockHonoured`, put in its place | nickmanager.go:61-65, the lock forbids a second assignment | it is tested under one hold of `nm.mutex` and set under another |
| `IsonLate` | `AnswerOwn` | a request takes the reply to its own command (bot.go:1028-1087) | a reply after the timeout is handed to the next request |
| `FleetOrphan` | `OneAlways` | bot.go:307 and 1193 each take themselves for the only one | two of the three openers overlap, and the connection of one is nobody's |
| `FleetOrphan` | `NilAlways`, put in its place | bot.go:939-942, the connection is not set to nil | `Reconnect` and the back-off do set it to nil (1216, 1273), between a test and a use elsewhere |
| `FleetStale` | `InStepAlways` | bot.go:920, the DISCONNECTED callback | the DISCONNECTED of a connection that was given up while it registered clears the flag of its successor |
| `FleetStale` | `CorpseAlways`, put in its place | bot.go:569-598, a 001 after gaveUp ends the connection | the 001 is passed over because `IsConnected` speaks of another connection (558) |
| `FleetBudget` | `GaveUpRemoved` | bot.go:1227-1229 "removes the bot once the per-bot budget is exhausted" | a bot gives up and stays in `bm.bots` |
| `FleetReturns` | `RemovedForGood` | manager.go:406 "Już usunięty" | `StartBots` assigns a list made before the removal (272) |
| `OwnerCommandsRoom` | `AgreeAlways` | nickmanager.go:133 "Combine both lists" | with two spare slots behind the decoded list, a later append overwrites a letter (134, 385) |
| `OwnerCommandsApi` | `DiskAlways` | manager.go:522-524 | two edits write in the other order (526-531): the API does not take `reactionMutex` |
| `OwnerCommandsLag` | `InOrderAlways` | manager.go:580 | a command that failed leaves no entry: a bot that lags behind tries it again, after a newer one |
| `EventHubReplay` | `ReplayInOrder` | events.go:111-112 "in order of increasing seq" | events enter the ring in another order than their numbers |
| `EventHubReplaced` | `Replaced` | API design line 245, "replaces the previous subscription" | the old pump empties its channel afterwards (session.go:87) |
| `ActivityRunners` | `OneRunner` | runtime design line 153 "A bot has at most one runner" | tested and set under two holds of `b.mutex` |
| `ActivityRunners` | `NotLeftHolding`, put in its place | panel guide line 154 "will not be left holding a channel" | a JOIN not yet confirmed is not parted (humanlike.go:219) |
| `ActivityRunners` | `RemovedRunnerStops`, put in its place | runtime design line 170 | the ban path never stops the runner (bot.go:543-553, 856-891) |
| `ActivityLockstep` | `Lockstep` | state.go:57-58 "kept in lockstep" | a failed write leaves the new switch in memory (149-153) |
| `ActivityLockstep` | `RejoinsTarget`, put in its place | panel guide line 126 | the KICK timer rejoins a channel that is no target any more (bot.go:835) |
| `PartyLineDead` | `NoDeadSession` | dcc_tunnel.go:90-93 | a Stop between lines 75 and 83 leaves a listed dead session |
| `PartyLineTwice` | `TunnelKnown` | bot.go:1593-1595 | a second request overwrites the tunnel (1580) |
| `PartyLine` | `StopAlways`, put in place of `StopReturns` | dcc_tunnel.go:109, Stop takes the session off the party line | the owner of a bot that quits talks: the broadcast waits for `b.mutex`, the Quit for the party line |
| `TrafficTwice` | `NoneLost` | bot.go:1458-1470, one BNC per bot | both find no server and both start one; one cannot be stopped |
| `TrafficKept` | `ClientKept` | rawtunnel.go:86-87, a reader ends with its own tunnel | the reader of a client that said `.quit` stops the tunnel of the next client |
| `TrafficLate` | `SilentDetached` | attach.go:18, a detach ends the stream | an event whose snapshot was taken before still arrives after the answer |

## What is left out

- Texts: formatting, colours, history of the party line, parsing of commands
  and lines, JSON.  Masks and tokens are compared by stateless functions.
- `say`, `quit` and the raw commands of a chat: one call each.  Which bot says the
  answer to a command (`SendSingleMsg`), and joining and leaving #literki.
- Stop at shutdown, the pool of words, and the order in which changes of the
  runtime switches are announced to panels.
- In Traffic the login of an SSH client is one step, and the welcome lines fit in
  the client's window.  Left out: `GetCurrentNick` in `StartBNC` and `StopBNC`, which
  waits for `b.mutex` (PartyLine has who may hold it for how long); the lines that a
  client sent behind its `.quit` (`rawtunnel.go:88-93`); and the order of the events of
  callbacks that overran, which nothing promises.
- In Fleet, the write of the liveness probe to a BNC tunnel whose client does not
  read; in PartyLine and Fleet, callbacks that overrun their 30 s.
- Crashes between the bytes of a file: `runtime.json` is renamed into place,
  the other two files are truncated and written, and nothing in the code
  promises that they survive.  A restart at any other moment is modelled for
  nicks and owners.
- Configuration, oidentd, nick generation, logging, `main`: read once, or no
  state that outlives a call.  `HandleDisconnect` of a DCC tunnel has no caller.
- go-ircevo, the servers and the network are external; what the code relies on
  is part of the models (FIFO connections, the callbacks of an event side by side
  and the next event after them or after 30 s, the library's reconnection).

## Plan

Done, in order of importance: NickCatch with its proofs, NickList and OwnerList
over Slices, EventHub, ChannelActivity, PartyLine, Fleet, Ison with NickRegister
and the proof of its safety, OwnerCommands, Traffic.

Proved: what the section above lists, which is every invariant and every action
property of the runs, for every behaviour of their specifications.

Next theorems:

- The safety parts of the liveness properties, as `StaysForgotten` is one: a bot that
  gave up in Fleet opens no connection any more once its last attempt is over, and a
  session of Traffic that has ended is not attached again.

Next modelling: two bots in Fleet, for `cleanupDisconnectedBots` over a list; the
runtime switches called from two clients, with the announcements to the panels; the
pool of words.
