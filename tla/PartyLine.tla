------------------------------ MODULE PartyLine ------------------------------
(***************************************************************************)
(* DCC chats of owners with their bots (internal/dcc/dcc_tunnel.go), the   *)
(* party line that joins all of them, and the places of                    *)
(* internal/bot/bot.go that use b.dccTunnel: handleDCCRequest, the         *)
(* callback for all events and Quit.                                       *)
(*                                                                         *)
(* Who waits for which mutex is what matters here: b.mutex of the bots,    *)
(* dt.mu of the tunnels and pl.mutex, a readers-writer lock under which a  *)
(* writer that waits keeps new readers out.  A critical section in which   *)
(* nothing is waited for is one step.  The history of the party line, the  *)
(* texts and the commands of the chats are left out.                       *)
(***************************************************************************)
EXTENDS FiniteSets

CONSTANTS
  Bots,
  Tunnels,   \* the tunnels that may be made
  BotOf,     \* [Tunnels -> Bots]
  Quitters,  \* the bots that are told to quit
  Talkers,   \* the tunnels whose owner types
  None       \* no tunnel, nobody

ASSUME PartyAssumption ==
  /\ BotOf \in [Tunnels -> Bots]
  /\ Quitters \subseteq Bots /\ Talkers \subseteq Tunnels

VARIABLES
  bmu,       \* who holds b.mutex
  tmu,       \* who holds dt.mu
  readers,   \* who holds pl.mutex for reading
  writers,   \* who waits for pl.mutex in order to write
  sessions,  \* pl.sessions
  active,    \* dt.active
  dcc,       \* b.dccTunnel
  frame      \* what every goroutine does

locks == <<bmu, tmu, readers, writers>>
vars == <<locks, sessions, active, dcc, frame>>

\* The goroutines: readLoop of a tunnel, the callbacks of a bot, Quit.
Loop(t) == <<"loop", t>>
Callback(b) == <<"callback", b>>
Quitter(b) == <<"quit", b>>
Procs == {Loop(t) : t \in Tunnels} \cup {Callback(b) : b \in Bots} \cup {Quitter(b) : b \in Quitters}

\* Nobody is no goroutine.
ASSUME NoneAssumption == None \notin Procs

Frame(pc, t) == [pc |-> pc, tunnel |-> t, talk |-> FALSE, todo |-> {}]
Rest(p) == Frame(IF p[1] = "loop" THEN "none" ELSE "idle", None)

Frames == [pc : {"none", "idle", "dial", "start", "greet", "add", "read", "line", "use", "stop",
                 "remove", "collect", "nick", "send", "write", "log", "onstop", "unlock", "done"},
           tunnel : {None} \cup Tunnels, talk : BOOLEAN, todo : SUBSET Tunnels]

TypeOK ==
  /\ bmu \in [Bots -> {None} \cup {Quitter(b) : b \in Quitters}]
  /\ tmu \in [Tunnels -> {None} \cup Procs]
  /\ readers \subseteq {p \in Procs : frame[p].pc = "nick"}
  /\ writers \subseteq {p \in Procs : frame[p].pc \in {"add", "remove", "log"}}
  /\ sessions \subseteq Tunnels
  /\ active \in [Tunnels -> BOOLEAN]
  /\ dcc \in [Bots -> {None} \cup Tunnels]
  /\ frame \in [Procs -> Frames]

Init ==
  /\ bmu = [b \in Bots |-> None] /\ tmu = [t \in Tunnels |-> None]
  /\ readers = {} /\ writers = {}
  /\ sessions = {}
  /\ active = [t \in Tunnels |-> FALSE]
  /\ dcc = [b \in Bots |-> None]
  /\ frame = [p \in Procs |-> Rest(p)]

Becomes(p, f) == frame' = [frame EXCEPT ![p] = f]
Goes(p, pc) == frame' = [frame EXCEPT ![p].pc = pc]
At(p, pc) == frame[p].pc = pc
My(p) == frame[p].tunnel

\* Where a goroutine goes on when DCCTunnel.Stop returns.
AfterStop(p) ==
  IF p[1] = "loop" THEN Frame("done", None)
  ELSE IF p[1] = "quit" THEN Frame("unlock", None)
  ELSE Rest(p)

-----------------------------------------------------------------------------
(* Making a tunnel.                                                        *)

\* GetCurrentNick waits for b.mutex.
Named(p) == bmu[BotOf[My(p)]] = None

\* handleDCCRequest, in the callback of the bot: a tunnel with the nick of the
\* bot ...
Dial(t) ==
  LET p == Callback(BotOf[t]) IN
  /\ At(p, "idle") /\ At(Loop(t), "none")
  /\ Becomes(p, Frame("dial", t))
  /\ UNCHANGED <<locks, sessions, active, dcc>>

\* ... replaces whatever b.dccTunnel held, ...
NewDCCTunnel(p) ==
  /\ At(p, "dial") /\ Named(p)
  /\ dcc' = [dcc EXCEPT ![BotOf[My(p)]] = My(p)]
  /\ Goes(p, "start")
  /\ UNCHANGED <<locks, sessions, active>>

\* ... and b.dccTunnel.Start is called, on whatever b.dccTunnel is by then
\* (of nothing, which is a panic, there is no step).
Start(p) ==
  /\ At(p, "start") /\ dcc[BotOf[My(p)]] # None /\ tmu[My(p)] = None
  /\ active' = [active EXCEPT ![My(p)] = TRUE]
  /\ Goes(p, "greet")
  /\ UNCHANGED <<locks, sessions, dcc>>

\* The nick, and the welcome.
Greet(p) ==
  /\ At(p, "greet") /\ Named(p)
  /\ Goes(p, "add")
  /\ UNCHANGED <<locks, sessions, active, dcc>>

\* pl.mutex.Lock()
Request(p) ==
  /\ frame[p].pc \in {"add", "remove", "log"} /\ p \notin writers
  /\ writers' = writers \cup {p}
  /\ UNCHANGED <<bmu, tmu, readers, sessions, active, dcc, frame>>

Writes(p) == p \in writers /\ readers = {} /\ writers' = writers \ {p}

\* Mutant: sessions are listed under the owner's nick, one for all chats.
AddByOwner(p) ==
  /\ At(p, "add") /\ Writes(p)
  /\ sessions' = {My(p)}
  /\ Goes(p, "collect")
  /\ UNCHANGED <<bmu, tmu, readers, active, dcc>>

\* AddSession, then "joined the party line".
Add(p) ==
  /\ At(p, "add") /\ Writes(p)
  /\ sessions' = sessions \cup {My(p)}
  /\ Goes(p, "collect")
  /\ UNCHANGED <<bmu, tmu, readers, active, dcc>>

-----------------------------------------------------------------------------
(* broadcast.                                                              *)

\* Under pl.mutex for reading the listeners are copied; the log entry of a
\* message needs its sender's nick.
Collect(p) ==
  /\ At(p, "collect") /\ writers = {}
  /\ LET f == frame[p]
         heard == [f EXCEPT !.todo = IF f.talk \/ tmu[f.tunnel] = p THEN sessions \ {f.tunnel} ELSE sessions]
     IN  IF f.talk /\ f.tunnel \in sessions
         THEN Becomes(p, [heard EXCEPT !.pc = "nick"]) /\ readers' = readers \cup {p}
         ELSE Becomes(p, [heard EXCEPT !.pc = "send"]) /\ UNCHANGED readers
  /\ UNCHANGED <<bmu, tmu, writers, sessions, active, dcc>>

\* Mutant: the reading hold is not given up.
NickHolding(p) ==
  /\ At(p, "nick") /\ Named(p)
  /\ Goes(p, "send")
  /\ UNCHANGED <<locks, sessions, active, dcc>>

\* tunnel.bot.GetCurrentNick(), while pl.mutex is held for reading.
Nick(p) ==
  /\ At(p, "nick") /\ Named(p)
  /\ readers' = readers \ {p}
  /\ Goes(p, "send")
  /\ UNCHANGED <<bmu, tmu, writers, sessions, active, dcc>>

\* sendToClient of the next listener: dt.mu is held only to look.
Send(p) ==
  /\ At(p, "send")
  /\ \E t \in frame[p].todo :
       /\ tmu[t] = None
       /\ Becomes(p, [frame[p] EXCEPT !.todo = @ \ {t}, !.pc = IF active[t] THEN "write" ELSE "send"])
  /\ UNCHANGED <<locks, sessions, active, dcc>>

\* The write to the client ends, at its deadline at the latest.
Written(p) ==
  /\ At(p, "write")
  /\ Goes(p, "send")
  /\ UNCHANGED <<locks, sessions, active, dcc>>

\* All were sent to: a message is logged, Stop and Start go on.
SentAll(p) ==
  /\ At(p, "send") /\ frame[p].todo = {}
  /\ IF frame[p].talk THEN Goes(p, "log")
     ELSE IF tmu[My(p)] = p THEN Goes(p, "onstop")
     ELSE frame' = [frame EXCEPT ![p] = Rest(p), ![Loop(My(p))] = Frame("read", My(p))]
  /\ UNCHANGED <<locks, sessions, active, dcc>>

Log(p) ==
  /\ At(p, "log") /\ Writes(p)
  /\ Becomes(p, Frame("read", My(p)))
  /\ UNCHANGED <<bmu, tmu, readers, sessions, active, dcc>>

-----------------------------------------------------------------------------
(* Stop.                                                                   *)

\* Mutant: the early return does not unlock dt.mu.
StopLocked(p) ==
  /\ At(p, "stop") /\ tmu[My(p)] = None
  /\ tmu' = [tmu EXCEPT ![My(p)] = p]
  /\ IF ~active[My(p)]
     THEN Becomes(p, AfterStop(p)) /\ UNCHANGED active
     ELSE active' = [active EXCEPT ![My(p)] = FALSE] /\ Goes(p, "remove")
  /\ UNCHANGED <<bmu, readers, writers, sessions, dcc>>

\* DCCTunnel.Stop: dt.mu is held until it returns.
Stop(p) ==
  /\ At(p, "stop") /\ tmu[My(p)] = None
  /\ IF ~active[My(p)]
     THEN Becomes(p, AfterStop(p)) /\ UNCHANGED <<tmu, active>>
     ELSE /\ tmu' = [tmu EXCEPT ![My(p)] = p]
          /\ active' = [active EXCEPT ![My(p)] = FALSE]
          /\ Goes(p, "remove")
  /\ UNCHANGED <<bmu, readers, writers, sessions, dcc>>

\* RemoveSession, dt.mu still held, then "left the party line".
Remove(p) ==
  /\ At(p, "remove") /\ Writes(p)
  /\ sessions' = sessions \ {My(p)}
  /\ Goes(p, IF My(p) \in sessions THEN "collect" ELSE "onstop")
  /\ UNCHANGED <<bmu, tmu, readers, active, dcc>>

\* onStop: b.dccTunnel = nil, under no mutex of the bot.
OnStop(p) ==
  /\ At(p, "onstop")
  /\ dcc' = [dcc EXCEPT ![BotOf[My(p)]] = None]
  /\ tmu' = [tmu EXCEPT ![My(p)] = None]
  /\ Becomes(p, AfterStop(p))
  /\ UNCHANGED <<bmu, readers, writers, sessions, active>>

-----------------------------------------------------------------------------
(* Who uses the tunnels.                                                   *)

\* readLoop: there is a line of the owner, which may have been read before the
\* connection was closed, ...
Line(t) ==
  /\ t \in Talkers /\ At(Loop(t), "read")
  /\ Becomes(Loop(t), Frame("line", t))
  /\ UNCHANGED <<locks, sessions, active, dcc>>

\* handleUserInput asks for the nick, twice on end: the line is a message to all ...
Talk(p) ==
  /\ At(p, "line") /\ Named(p)
  /\ Becomes(p, [Frame("collect", My(p)) EXCEPT !.talk = TRUE])
  /\ UNCHANGED <<locks, sessions, active, dcc>>

\* ... or a command, which concerns nobody here.
Command(p) ==
  /\ At(p, "line") /\ Named(p)
  /\ Becomes(p, Frame("read", My(p)))
  /\ UNCHANGED <<locks, sessions, active, dcc>>

\* The connection ends.
End(t) ==
  /\ At(Loop(t), "read")
  /\ Becomes(Loop(t), Frame("stop", t))
  /\ UNCHANGED <<locks, sessions, active, dcc>>

\* The callback for all events: b.dccTunnel is tested ...
Forward(b) ==
  /\ At(Callback(b), "idle") /\ dcc[b] # None
  /\ Becomes(Callback(b), Frame("use", None))
  /\ UNCHANGED <<locks, sessions, active, dcc>>

\* ... and read again for WriteToConn, which stops the tunnel when it fails.
WriteToConn(b) ==
  /\ At(Callback(b), "use") /\ dcc[b] # None /\ tmu[dcc[b]] = None
  /\ \/ Becomes(Callback(b), Rest(Callback(b)))
     \/ active[dcc[b]] /\ Becomes(Callback(b), Frame("stop", dcc[b]))
  /\ UNCHANGED <<locks, sessions, active, dcc>>

\* Quit: b.mutex is held while the tunnel is stopped.
Quit(b) ==
  /\ At(Quitter(b), "idle") /\ bmu[b] = None
  /\ bmu' = [bmu EXCEPT ![b] = Quitter(b)]
  /\ Becomes(Quitter(b), IF dcc[b] = None THEN Frame("unlock", None) ELSE Frame("stop", dcc[b]))
  /\ UNCHANGED <<tmu, readers, writers, sessions, active, dcc>>

QuitEnd(b) ==
  /\ At(Quitter(b), "unlock")
  /\ dcc' = [dcc EXCEPT ![b] = None]
  /\ bmu' = [bmu EXCEPT ![b] = None]
  /\ Becomes(Quitter(b), Frame("done", None))
  /\ UNCHANGED <<tmu, readers, writers, sessions, active>>

-----------------------------------------------------------------------------
Step(p) ==
  \/ NewDCCTunnel(p) \/ Start(p) \/ Greet(p) \/ Request(p) \/ Add(p)
  \/ Collect(p) \/ Nick(p) \/ Send(p) \/ Written(p) \/ SentAll(p) \/ Log(p)
  \/ Talk(p) \/ Command(p) \/ Stop(p) \/ Remove(p) \/ OnStop(p)

Next ==
  \/ \E p \in Procs : Step(p)
  \/ \E t \in Tunnels : Dial(t) \/ Line(t) \/ End(t)
  \/ \E b \in Bots : Forward(b) \/ WriteToConn(b)
  \/ \E b \in Quitters : Quit(b) \/ QuitEnd(b)

Spec == Init /\ [][Next]_vars

\* Goroutines run on; no mutex is denied for ever to one who waits for it.
Fairness ==
  /\ \A p \in Procs : SF_vars(Step(p))
  /\ \A b \in Quitters : WF_vars(QuitEnd(b))
FairSpec == Spec /\ Fairness

-----------------------------------------------------------------------------
(* Properties.                                                             *)

\* A tunnel that is up and read from is on the party line: whoever stops it,
\* it is inactive before it is taken off.
AliveListed == \A t \in Tunnels : active[t] /\ ~At(Loop(t), "none") => t \in sessions

\* dcc_tunnel.go:90-93: no session is left on the party line by a tunnel that
\* has ended: one that is listed is active or somebody is stopping it.
NoDeadSession == \A t \in sessions : active[t] \/ tmu[t] # None

\* A reader of the party line asks for the nick of a bot whose Quit holds b.mutex.
Embraced == \E p \in readers : ~Named(p)

\* Stop returns, whoever else stops, quits or talks, unless a reader waits for a
\* Quit for ever: that is the only embrace of dt.mu, b.mutex and pl.mutex.
StopReturns ==
  []<>~Embraced => \A t \in Tunnels : At(Loop(t), "stop") ~> At(Loop(t), "done")

\* By hand: whoever else stops, quits or talks, Stop returns.
StopAlways == \A t \in Tunnels : At(Loop(t), "stop") ~> At(Loop(t), "done")

\* bot.go:497: Quit's teardown under b.mutex is "fast, never blocks on I/O".
QuitReturns == \A b \in Quitters : bmu[b] = Quitter(b) ~> bmu[b] = None

\* bot.go:1593-1595: no second request "overwrites b.dccTunnel and the first
\* leaks": a running tunnel is the one its bot knows.
TunnelKnown == \A t \in Tunnels : active[t] => dcc[BotOf[t]] = t
=============================================================================
