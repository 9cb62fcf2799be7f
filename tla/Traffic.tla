------------------------------- MODULE Traffic -------------------------------
(***************************************************************************)
(* Where the lines of a bot go besides its callbacks: to the BNC, an SSH    *)
(* server of its own with at most one client (internal/bnc, StartBNC and    *)
(* StopBNC in internal/bot/bot.go), and to the sessions of the panel API    *)
(* that have attached to it (internal/api/attach.go, sink.go).              *)
(*                                                                          *)
(* A line that was read is handled by a goroutine of its own (the callback  *)
(* "*"), for which the reading loop waits, but not for ever; a line to be   *)
(* sent by whoever calls SendRaw, the handler of a panel's request among    *)
(* them.  All of them write to the SSH client themselves and wait for it.   *)
(***************************************************************************)
EXTENDS Naturals, Sequences, FiniteSets

CONSTANTS
    Callers,         \* who calls StartBNC and StopBNC: handlers of commands and of the API
    Servers,         \* the BNC servers there may be, one for each StartBNC
    Clients,         \* SSH connections
    Panels,          \* sessions of the API
    Callbacks,       \* the goroutines that run the callback "*", as many as may overlap
    Senders,         \* who else calls SendRaw
    MaxConnections,  \* of the API
    OutSize,         \* capacity of a session's outbound queue
    Budgets,         \* bound: how often each thing happens, one of several mixtures
    None

Sources == Callbacks \cup Senders \cup Panels
Things == {"in", "out", "call", "client", "panel", "request", "trouble"}

ASSUME ServerAssumption == IsFiniteSet(Servers) /\ None \notin Servers \cup Clients
ASSUME BoundAssumption == /\ MaxConnections \in Nat /\ OutSize \in Nat \ {0}
                          /\ Budgets \subseteq [Things -> Nat]

VARIABLES
    bnc,        \* b.bncServer
    phase,      \* phase[k]: how far listen of the BNC server k is
    stopped,    \* the servers whose stopChan is closed
    tunnel,     \* tunnel[k]: the connection of an active RawTunnel, or None
    link,       \* link[c]: an SSH connection: its server, its handler, whether it is open
    reading,    \* the connections with a goroutine in readFromConn
    stalled,    \* the clients that do not read
    call,       \* call[o]: the step and the server of a StartBNC or StopBNC
    rushed,     \* history: the servers whose calls came too soon, see Rushing
    src,        \* src[s]: what becomes of the line in hand
    late,       \* the callbacks that the reading loop does not wait for any more
    done,       \* done[s]: events about lines of s, published to all who are attached
    sess,       \* sess[p]: where the handler of a session is
    open,       \* the sessions whose WebSocket is open
    attached,   \* AttachManager.subs of this bot
    tracked,    \* the sessions that have the bot in their own attached
    queued,     \* queued[p]: the length of the outbound queue
    sent,       \* sent[p][s]: the events queued for p since it attached
    from,       \* from[p][s]: the first event that p may expect
    left        \* what remains of the budget

bncVars == <<bnc, phase, stopped, tunnel, link, reading, stalled, call, rushed>>
lineVars == <<src, late, done>>
panelVars == <<sess, open, attached, tracked, queued, sent, from>>
vars == <<bncVars, lineVars, panelVars, left>>

Idle == [pc |-> "idle", conn |-> None, to |-> {}, part |-> "raw"]

TypeOK ==
    /\ bnc \in Servers \cup {None} /\ stopped \subseteq Servers
    /\ phase \in [Servers -> {"none", "new", "made", "listening", "over"}]
    /\ tunnel \in [Servers -> Clients \cup {None}]
    /\ link \in [Clients -> [at : Servers \cup {None}, pc : {"none", "in", "held", "over"}, open : BOOLEAN]]
    /\ reading \subseteq Clients /\ stalled \subseteq Clients
    /\ call \in [Callers -> [pc : {"ready", "start", "stop", "close", "tunnel", "clear"},
                             server : Servers \cup {None}]]
    /\ rushed \subseteq Servers /\ late \subseteq Callbacks
    /\ src \in [Sources -> [pc : {"idle", "tunnel", "write", "look", "send"}, conn : Clients \cup {None},
                            to : SUBSET Panels, part : {"raw", "high"}]]
    /\ done \in [Sources -> Nat]
    /\ sess \in [Panels -> {"none", "ready", "track", "untrack", "raw", "quit", "answer", "unlisted", "gone"}]
    /\ open \subseteq Panels /\ attached \subseteq Panels /\ tracked \subseteq Panels
    /\ queued \in [Panels -> 0 .. OutSize]
    /\ sent \in [Panels -> [Sources -> Seq(Nat)]] /\ from \in [Panels -> [Sources -> Nat]]
    /\ left \in [Things -> Nat]

Init ==
    /\ bnc = None /\ phase = [k \in Servers |-> "none"] /\ stopped = {}
    /\ tunnel = [k \in Servers |-> None]
    /\ link = [c \in Clients |-> [at |-> None, pc |-> "none", open |-> FALSE]]
    /\ reading = {} /\ stalled = {}
    /\ call = [o \in Callers |-> [pc |-> "ready", server |-> None]] /\ rushed = {}
    /\ src = [s \in Sources |-> Idle] /\ late = {}
    /\ done = [s \in Sources |-> 0]
    /\ sess = [p \in Panels |-> "none"] /\ open = {} /\ attached = {} /\ tracked = {}
    /\ queued = [p \in Panels |-> 0]
    /\ sent = [p \in Panels |-> [s \in Sources |-> <<>>]]
    /\ from = [p \in Panels |-> [s \in Sources |-> 1]]
    /\ left \in Budgets

Anyone(S) == CHOOSE x \in S : TRUE   \* which one is all the same

Spend(t) == left[t] > 0 /\ left' = [left EXCEPT ![t] = @ - 1]

-----------------------------------------------------------------------------
(* StartBNC and StopBNC.  Nothing excludes two calls from one another. *)

Calls(o, l, k) == call' = [call EXCEPT ![o] = [pc |-> l, server |-> k]]

(* Who calls is all the same. *)
Free == Anyone({o \in Callers : call[o].pc = "ready"})

(* For whom the call of o comes too soon: the server k that it starts while
   another call is under way, or stops before it listens, and those that other
   calls have started and not noted yet. *)
Rushing(o, k) ==
    LET others == {q \in Callers \ {o} : call[q].pc # "ready"}
    IN  {call[q].server : q \in {r \in others : call[r].pc = "start"}}
        \cup IF (k # bnc /\ others # {}) \/ (k = bnc /\ phase[k] # "listening") THEN {k} ELSE {}

(* Mutant: the old server is not looked for. *)
StartBNCAlways(o) ==
    /\ call[o].pc = "ready" /\ o = Free /\ Spend("call")
    /\ LET new == {k \in Servers : phase[k] = "none"}
           k == Anyone(new)
       IN  /\ new # {} /\ phase' = [phase EXCEPT ![k] = "new"] /\ Calls(o, "start", k)
           /\ rushed' = rushed \cup Rushing(o, k)
    /\ UNCHANGED <<bnc, stopped, tunnel, link, reading, stalled, lineVars, panelVars>>

(* A new server, and listen in a goroutine; then it is noted. *)
StartBNC(o) ==
    /\ call[o].pc = "ready" /\ o = Free /\ Spend("call")
    /\ bnc = None
    /\ LET new == {k \in Servers : phase[k] = "none"}
           k == Anyone(new)
       IN  /\ new # {} /\ phase' = [phase EXCEPT ![k] = "new"] /\ Calls(o, "start", k)
           /\ rushed' = rushed \cup Rushing(o, k)
    /\ UNCHANGED <<bnc, stopped, tunnel, link, reading, stalled, lineVars, panelVars>>

Started(o) ==
    /\ call[o].pc = "start"
    /\ bnc' = call[o].server /\ Calls(o, "ready", None)
    /\ UNCHANGED <<phase, stopped, tunnel, link, reading, stalled, rushed, lineVars, panelVars, left>>

StopBNC(o) ==
    /\ call[o].pc = "ready" /\ o = Free /\ Spend("call")
    /\ bnc # None /\ Calls(o, "stop", bnc)
    /\ rushed' = rushed \cup Rushing(o, bnc)
    /\ UNCHANGED <<bnc, phase, stopped, tunnel, link, reading, stalled, lineVars, panelVars>>

(* BNCServer.Stop: close(s.stopChan) panics when it is closed already; *)
StopChan(o) ==
    /\ call[o].pc = "stop" /\ call[o].server \notin stopped
    /\ stopped' = stopped \cup {call[o].server} /\ Calls(o, "close", call[o].server)
    /\ UNCHANGED <<bnc, phase, tunnel, link, reading, stalled, rushed, lineVars, panelVars, left>>

Shut(links) == [c \in Clients |-> IF c \in links THEN [link[c] EXCEPT !.open = FALSE] ELSE link[c]]
Of(k) == {c \in Clients : link[c].at = k}

(* Mutant: the listener only. *)
CloseListener(o) ==
    LET k == call[o].server
    IN  /\ call[o].pc = "close" /\ Calls(o, "tunnel", k)
        /\ phase' = [phase EXCEPT ![k] = IF @ = "listening" THEN "over" ELSE @]
        /\ UNCHANGED <<link, bnc, stopped, tunnel, reading, stalled, rushed, lineVars, panelVars, left>>

(* ... the listener and the connections, as far as there are any yet: a server
   that does not listen yet will; *)
CloseServer(o) ==
    LET k == call[o].server
    IN  /\ call[o].pc = "close" /\ Calls(o, "tunnel", k)
        /\ IF phase[k] = "listening"
           THEN phase' = [phase EXCEPT ![k] = "over"] /\ link' = Shut(Of(k))
           ELSE UNCHANGED <<phase, link>>
        /\ UNCHANGED <<bnc, stopped, tunnel, reading, stalled, rushed, lineVars, panelVars, left>>

(* RawTunnel.Stop.  Closing the session does not free a write to a client that
   does not read: the client would have to confirm it. *)
TunnelStop(k) ==
    /\ tunnel' = [tunnel EXCEPT ![k] = None]
    /\ link' = Shut({tunnel[k]} \ stalled)

(* ... the tunnel; and the server is forgotten. *)
StopTunnel(o) ==
    LET k == call[o].server
    IN  /\ call[o].pc = "tunnel" /\ Calls(o, "clear", k) /\ TunnelStop(k)
        /\ UNCHANGED <<bnc, phase, stopped, reading, stalled, rushed, lineVars, panelVars, left>>

Stopped(o) ==
    /\ call[o].pc = "clear" /\ bnc' = None /\ Calls(o, "ready", None)
    /\ UNCHANGED <<phase, stopped, tunnel, link, reading, stalled, rushed, lineVars, panelVars, left>>

Call(o) == Started(o) \/ StopChan(o) \/ CloseServer(o) \/ StopTunnel(o) \/ Stopped(o)

(* listen sets s.server, then s.listener, and serves. *)
Listen(k) ==
    /\ phase[k] \in {"new", "made"}
    /\ phase' = [phase EXCEPT ![k] = IF @ = "new" THEN "made" ELSE "listening"]
    /\ UNCHANGED <<bnc, stopped, tunnel, link, reading, stalled, call, rushed, lineVars, panelVars, left>>

-----------------------------------------------------------------------------
(* The SSH connections. *)

Connects(c) ==
    /\ link[c].pc = "none" /\ c = Anyone({d \in Clients : link[d].pc = "none"}) /\ Spend("client")
    /\ \E k \in Servers : /\ phase[k] = "listening"
                          /\ link' = [link EXCEPT ![c] = [at |-> k, pc |-> "in", open |-> TRUE]]
    /\ UNCHANGED <<bnc, phase, stopped, tunnel, reading, stalled, call, rushed, lineVars, panelVars>>

(* Mutant: an active tunnel takes a second client. *)
StartReplacing(c) ==
    LET k == link[c].at
    IN  /\ link[c].pc = "in"
        /\ link' = [link EXCEPT ![c].pc = "held"]
        /\ tunnel' = [tunnel EXCEPT ![k] = c] /\ reading' = reading \cup {c}
        /\ UNCHANGED <<bnc, phase, stopped, stalled, call, rushed, lineVars, panelVars, left>>

(* RawTunnel.Start; the welcome is shorter than what a client accepts unread.
   A second client is kept waiting, without being read. *)
Start(c) ==
    LET k == link[c].at
    IN  /\ link[c].pc = "in"
        /\ link' = [link EXCEPT ![c].pc = "held"]
        /\ IF tunnel[k] = None
           THEN tunnel' = [tunnel EXCEPT ![k] = c] /\ reading' = reading \cup {c}
           ELSE UNCHANGED <<tunnel, reading>>
        /\ UNCHANGED <<bnc, phase, stopped, stalled, call, rushed, lineVars, panelVars, left>>

(* The handler's loop ends with stopChan or a keepalive that fails. *)
HandlerEnds(c) ==
    /\ link[c].pc = "held" /\ (~link[c].open \/ link[c].at \in stopped)
    /\ link' = [link EXCEPT ![c].pc = "over", ![c].open = @ /\ c \in stalled]
    /\ UNCHANGED <<bnc, phase, stopped, tunnel, reading, stalled, call, rushed, lineVars, panelVars, left>>

(* readFromConn ends: the deferred Stop, whoever has the tunnel by now. *)
ReaderEnds(c) ==
    /\ c \in reading /\ ~link[c].open
    /\ reading' = reading \ {c} /\ TunnelStop(link[c].at)
    /\ UNCHANGED <<bnc, phase, stopped, stalled, call, rushed, lineVars, panelVars, left>>

(* The client says .quit; what Quit does to the bot is part of Fleet. *)
QuitTunnel(c) ==
    /\ Spend("trouble") /\ c \in reading /\ link[c].open /\ tunnel[link[c].at] = c
    /\ TunnelStop(link[c].at)
    /\ UNCHANGED <<bnc, phase, stopped, reading, stalled, call, rushed, lineVars, panelVars>>

Stalls(c) ==
    /\ link[c].open /\ stalled = {} /\ Spend("trouble") /\ stalled' = {c}
    /\ UNCHANGED <<bnc, phase, stopped, tunnel, link, reading, call, rushed, lineVars, panelVars>>

Leaves(c) ==
    /\ link[c].open /\ Spend("trouble") /\ link' = Shut({c})
    /\ UNCHANGED <<bnc, phase, stopped, tunnel, reading, stalled, call, rushed, lineVars, panelVars>>

-----------------------------------------------------------------------------
(* The lines: first to the BNC, then to the panels. *)

At(s, l) == src' = [src EXCEPT ![s].pc = l]

(* The reading loop takes the next line when the callback of the last one has
   returned, or is given up. *)
Read(s) ==
    /\ \A t \in Callbacks \ late : src[t].pc = "idle"
    /\ src[s].pc = "idle" /\ s = Anyone({t \in Callbacks : src[t].pc = "idle"}) /\ Spend("in") /\ At(s, "tunnel")
    /\ UNCHANGED <<late, done, bncVars, panelVars>>

SendRaw(s) ==
    /\ src[s].pc = "idle" /\ Spend("out") /\ At(s, "tunnel")
    /\ UNCHANGED <<late, done, bncVars, panelVars>>

(* ForwardToTunnel and SendRaw read b.bncServer; WriteToConn shows some lines. *)
Forward(s) ==
    /\ src[s].pc = "tunnel"
    /\ \/ /\ bnc # None /\ tunnel[bnc] # None
          /\ src' = [src EXCEPT ![s].pc = "write", ![s].conn = tunnel[bnc]]
       \/ At(s, "look")
    /\ UNCHANGED <<late, done, bncVars, panelVars, left>>

Stuck(s) == LET c == src[s].conn IN src[s].pc = "write" /\ link[c].open /\ c \in stalled

(* The library's CallbackTimeout: no other step of a callback takes 30 seconds. *)
Overruns(s) ==
    /\ Stuck(s) /\ late' = late \cup {s}
    /\ UNCHANGED <<src, done, bncVars, panelVars, left>>

(* The write is done, or fails. *)
Written(s) ==
    /\ src[s].pc = "write" /\ ~Stuck(s)
    /\ src' = [src EXCEPT ![s].pc = "look", ![s].conn = None]
    /\ UNCHANGED <<late, done, bncVars, panelVars, left>>

Listed(p) == sess[p] \notin {"none", "unlisted", "gone"}

(* AttachManager.Publish: Sessions; a session that ends between the two locks
   of Publish is sent nothing, and would get nothing if it were. *)
Look(s) ==
    /\ src[s].pc = "look"
    /\ src' = [src EXCEPT ![s].pc = "send", ![s].to = {p \in attached : Listed(p)}]
    /\ UNCHANGED <<late, done, bncVars, panelVars, left>>

(* Mutant: a full queue loses the message. *)
SendDropping(p) ==
    /\ queued' = [queued EXCEPT ![p] = IF @ < OutSize THEN @ + 1 ELSE @]
    /\ UNCHANGED open

(* Mutant: the queue is taken to be one longer. *)
SendBeyond(p) ==
    IF queued[p] <= OutSize
    THEN queued' = [queued EXCEPT ![p] = @ + 1] /\ UNCHANGED open
    ELSE open' = open \ {p} /\ UNCHANGED queued

(* Session.send *)
Send(p) ==
    IF queued[p] < OutSize
    THEN queued' = [queued EXCEPT ![p] = @ + 1] /\ UNCHANGED open
    ELSE open' = open \ {p} /\ UNCHANGED queued

(* Publish sends to one session after the other, in any order. *)
Publish(s) ==
    /\ src[s].pc = "send"
    /\ \E p \in src[s].to :
          /\ src' = [src EXCEPT ![s].to = @ \ {p}]
          /\ Send(p)
          /\ sent' = IF queued'[p] > queued[p]
                     THEN [sent EXCEPT ![p][s] = Append(@, done[s] + 1)] ELSE sent
    /\ UNCHANGED <<late, done, bncVars, sess, attached, tracked, from, left>>

(* A line that was read may be followed by an event about its meaning. *)
Published(s) ==
    /\ src[s].pc = "send" /\ src[s].to = {}
    /\ done' = [done EXCEPT ![s] = @ + 1]
    /\ \/ src' = [src EXCEPT ![s] = Idle]
       \/ /\ s \in Callbacks /\ src[s].part = "raw"
          /\ src' = [src EXCEPT ![s].pc = "look", ![s].part = "high"]
    /\ late' = IF src'[s].pc = "idle" THEN late \ {s} ELSE late
    /\ UNCHANGED <<bncVars, panelVars, left>>

HandleLine(s) == Forward(s) \/ Written(s) \/ Look(s) \/ Publish(s) \/ Published(s)

-----------------------------------------------------------------------------
(* The sessions of the API. *)

To(p, l) == sess' = [sess EXCEPT ![p] = l]

(* handleWS *)
Connect(p) ==
    /\ sess[p] = "none" /\ p = Anyone({q \in Panels : sess[q] = "none"}) /\ Spend("panel")
    /\ Cardinality({q \in Panels : sess[q] \notin {"none", "gone"}}) < MaxConnections
    /\ To(p, "ready") /\ open' = open \cup {p}
    /\ UNCHANGED <<attached, tracked, queued, sent, from, bncVars, lineVars>>

Request(p) == sess[p] = "ready" /\ p \in open /\ Spend("request")

(* The event that a source is sending just now may miss p. *)
Attach(p) ==
    /\ Request(p) /\ To(p, "track")
    /\ attached' = attached \cup {p}
    /\ IF p \in attached THEN UNCHANGED <<sent, from>>
       ELSE /\ sent' = [sent EXCEPT ![p] = [s \in Sources |-> <<>>]]
            /\ from' = [from EXCEPT ![p] = [s \in Sources |-> done[s] + IF src[s].pc = "send" THEN 2 ELSE 1]]
    /\ UNCHANGED <<open, tracked, queued, bncVars, lineVars>>

Detach(p) ==
    /\ Request(p) /\ To(p, "untrack")
    /\ attached' = attached \ {p}
    /\ UNCHANGED <<open, tracked, queued, sent, from, bncVars, lineVars>>

(* bot.raw and the mass commands, whose SendRaw the handler runs itself. *)
Raw(p) ==
    /\ Request(p) /\ To(p, "raw") /\ src[p].pc = "idle" /\ At(p, "tunnel")
    /\ UNCHANGED <<open, attached, tracked, queued, sent, from, late, done, bncVars>>

(* bot.quit, which waits for b.mutex: PartyLine shows that it may do so for ever. *)
Quit(p) ==
    /\ Request(p) /\ To(p, "quit")
    /\ UNCHANGED <<open, attached, tracked, queued, sent, from, bncVars, lineVars>>

Returns(p) ==
    /\ \/ sess[p] = "quit"
       \/ sess[p] = "raw" /\ src[p].pc = "idle"
    /\ To(p, "answer")
    /\ UNCHANGED <<open, attached, tracked, queued, sent, from, bncVars, lineVars, left>>

Track(p) ==
    /\ \/ sess[p] = "track" /\ tracked' = tracked \cup {p}
       \/ sess[p] = "untrack" /\ tracked' = tracked \ {p}
    /\ To(p, "answer")
    /\ UNCHANGED <<open, attached, queued, sent, from, bncVars, lineVars, left>>

Answer(p) ==
    /\ sess[p] = "answer" /\ To(p, "ready") /\ Send(p)
    /\ UNCHANGED <<attached, tracked, sent, from, bncVars, lineVars, left>>

(* writerLoop *)
Deliver(p) ==
    /\ p \in open /\ queued[p] > 0
    /\ queued' = [queued EXCEPT ![p] = @ - 1]
    /\ UNCHANGED <<sess, open, attached, tracked, sent, from, bncVars, lineVars, left>>

Hangup(p) ==
    /\ p \in open /\ Spend("trouble") /\ open' = open \ {p}
    /\ UNCHANGED <<sess, attached, tracked, queued, sent, from, bncVars, lineVars>>

(* The reading loop ends: the session is taken off the list, ... *)
Unlist(p) ==
    /\ sess[p] = "ready" /\ p \notin open /\ To(p, "unlisted")
    /\ UNCHANGED <<open, attached, tracked, queued, sent, from, bncVars, lineVars, left>>

(* Mutant: only the session's own record is cleared. *)
CloseAttached(p) ==
    /\ sess[p] = "unlisted" /\ To(p, "gone")
    /\ tracked' = tracked \ {p}
    /\ UNCHANGED <<attached, open, queued, sent, from, bncVars, lineVars, left>>

(* ... and Session.close detaches it. *)
Close(p) ==
    /\ sess[p] = "unlisted" /\ To(p, "gone")
    /\ attached' = attached \ {p} /\ tracked' = tracked \ {p}
    /\ UNCHANGED <<open, queued, sent, from, bncVars, lineVars, left>>

Held(p) == sess[p] = "quit"
Handler(p) == Track(p) \/ Returns(p) \/ Answer(p) \/ Unlist(p) \/ Close(p)

-----------------------------------------------------------------------------
Client(c) == Start(c) \/ HandlerEnds(c) \/ ReaderEnds(c)

Next ==
    \/ \E o \in Callers : StartBNC(o) \/ StopBNC(o) \/ Call(o)
    \/ \E k \in Servers : Listen(k)
    \/ \E c \in Clients : Connects(c) \/ Client(c) \/ QuitTunnel(c) \/ Stalls(c) \/ Leaves(c)
    \/ \E s \in Callbacks : Read(s) \/ Overruns(s)
    \/ \E s \in Senders : SendRaw(s)
    \/ \E s \in Sources : HandleLine(s)
    \/ \E p \in Panels : Connect(p) \/ Attach(p) \/ Detach(p) \/ Raw(p) \/ Quit(p) \/ Handler(p) \/ Deliver(p) \/ Hangup(p)

Spec == Init /\ [][Next]_vars

(* The goroutines of the program.  Clients and panels owe nothing, not even
   to read. *)
Fairness ==
    /\ \A o \in Callers : WF_vars(Call(o))
    /\ \A k \in Servers : WF_vars(Listen(k))
    /\ \A c \in Clients : WF_vars(Client(c))
    /\ \A s \in Sources : WF_vars(HandleLine(s))
    /\ \A p \in Panels : WF_vars(Handler(p) /\ ~Held(p))

FairSpec == Spec /\ Fairness

-----------------------------------------------------------------------------
(* A BNC server that listens is the one the bot knows, or a call that noted or
   will stop it is under way: none is left that nobody can stop, unless it was
   started while another call was under way, or stopped before it listened
   (StartBNC, StopBNC, listen). *)
Known(k) == bnc = k \/ \E o \in Callers : call[o].server = k /\ call[o].pc \in {"start", "stop", "close"}
NoOrphan == \A k \in Servers \ rushed : phase[k] = "listening" => Known(k)

(* Only one client of a tunnel is heard at a time: whoever is no longer the
   client of the tunnel has a closed connection, unless it stopped reading
   (RawTunnel.Start, Stop, readFromConn). *)
OneClient ==
    \A k \in Servers : \A c \in Of(k) \cap reading :
        link[c].open /\ c \notin stalled => tunnel[k] = c

(* Stop closes s.stopChan, and panics if another Stop has. *)
Panics(o) == call[o].pc = "stop" /\ call[o].server \in stopped

(* StopBNC returns, unless a second one at the same time ends the program, and
   frees whoever is stuck in a write to a client that does not read, if the
   server was left the time to start.  (GetCurrentNick, before and after, waits
   for b.mutex as everybody does: PartyLine.) *)
StopFrees ==
    /\ \A o \in Callers : (call[o].pc # "ready") ~> (call[o].pc = "ready" \/ \E q \in Callers : Panics(q))
    /\ \A s \in Sources : (Stuck(s) /\ link[src[s].conn].at \in stopped \ rushed) ~> ~Stuck(s)

(* A session that is attached and still connected has been queued every event
   about the bot since it attached: what finds a full queue ends the
   connection, and neither other sessions nor the BNC make it miss one (Publish,
   Attach, Detach, send).  Nothing is said of the order in which callbacks come
   that overran. *)
NoneMissed ==
    \A p \in tracked \cap open, s \in Sources : sess[p] \notin {"track", "untrack"} =>
        \A i \in from[p][s] .. done[s] : \E j \in DOMAIN sent[p][s] : sent[p][s][j] = i

(* A session whose connection has ended is forgotten, unless the handler of its
   last request never returns: SendRaw may wait for ever for an SSH client that
   does not read, and Quit for b.mutex (handleWS, readerLoop, Session.close). *)
Forgotten ==
    \A p \in Panels : []<>(~Held(p) /\ ~Stuck(p))
                        => ((sess[p] # "none" /\ p \notin open) ~> [](p \notin attached))

(* By hand: the same of all servers, which the races of StartBNC and StopBNC
   refute. *)
NoneLost == \A k \in Servers : phase[k] = "listening" => Known(k)

(* By hand: after the answer to a detach the session is sent nothing about the
   bot.  An event on its way when it detached still arrives. *)
SilentDetached == [][\A p \in Panels, s \in Sources :
    sess[p] = "ready" /\ p \notin attached => Len(sent'[p][s]) <= Len(sent[p][s])]_vars

(* By hand: a client keeps the tunnel until it leaves or the server is stopped.
   The reader of one that said .quit stops whatever tunnel it finds. *)
ClientKept == [][\A k \in Servers :
    tunnel[k] # None /\ tunnel'[k] = None /\ link[tunnel[k]].open
    => k \in stopped \/ QuitTunnel(tunnel[k])]_vars
=============================================================================
